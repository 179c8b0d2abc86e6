------------------------- MODULE VehicleWizardProofs -------------------------
(***************************************************************************)
(* Proofs about VehicleWizard for any number of photos, uploads, requests,  *)
(* vehicles and dialogs: that the scheduler's count of slots is true, that  *)
(* only wanted photos are uploaded, that a submitted photo is stored, that  *)
(* the store's vehicle is of a dialog nobody closed, and that a dialog      *)
(* creates one vehicle, and one batch.                                      *)
(***************************************************************************)
EXTENDS VehicleWizard, FiniteSetTheorems, SequenceTheorems, TLAPS

Row == [status: {"NONE", "SELECTED", "PREPARING", "UPLOADING", "FINALIZING", "UPLOADED",
                 "FAILED", "REMOVING"},
        asset: BOOLEAN, error: BOOLEAN, selected: BOOLEAN]
UploadState == [pc: {"idle", "waiting", "intent", "put", "commit", "unsent"},
                photo: Photos \cup {None}, vehicle: Vehicles \cup {None},
                aborted: BOOLEAN, here: BOOLEAN]
-----------------------------------------------------------------------------
(* The scheduler: uploads u, queue q and count n agree.  The uploads of the *)
(* mounted step that run are the slots taken; a queued upload is in the     *)
(* queue once, belongs to the mounted step and is not aborted.             *)
Held(u) == {a \in Uploads : u[a].pc \notin {"idle", "waiting"} /\ u[a].here}

QueueFits(u, q, n) ==
  /\ IsFiniteSet(Held(u)) /\ n = Cardinality(Held(u)) /\ n <= Concurrency
  /\ \A a \in Uploads : u[a].pc = "waiting" <=> \E i \in 1..Len(q) : q[i] = a
  /\ \A i, j \in 1..Len(q) : q[i] = q[j] => i = j
  /\ \A a \in Uploads : u[a].pc = "waiting" => u[a].here /\ ~u[a].aborted

QueueInv == QueueFits(upload, pending, active) /\ (pending # <<>> => active = Concurrency)

(* Who has a controller is under way for that photo in the mounted step,    *)
(* and every upload not aborted has its photo's controller.  (Uploads u,    *)
(* controllers c, photos taken t, form shown s.)                           *)
Controls(u, c, t, s) ==
  /\ \A p \in Photos : c[p] # None =>
       u[c[p]].pc # "idle" /\ u[c[p]].photo = p /\ u[c[p]].here
  /\ \A a \in Uploads : u[a].pc # "idle" =>
       /\ u[a].photo \in t \ Originals
       /\ ~u[a].aborted => c[u[a].photo] = a
       /\ u[a].here => s = "Photos"

ControlInv == Controls(upload, controllers, taken, FormOf(wizard))

(* A photo's row against its asset and its upload (held: it has one).  A    *)
(* DELETE that may still be handled leaves a trace: the row is gone, waits  *)
(* or shows an error.  (Assets s, DELETEs d, photos taken t.)              *)
RowFits(p, row, held, s, d, t) ==
  /\ p \in Originals => /\ row.status \in {"NONE", "UPLOADED"} /\ s[p] = "UPLOADED"
                        /\ p \notin d /\ p \in t
  /\ held => row.status \notin {"NONE", "REMOVING"} /\ p \notin d
  /\ p \in d => /\ row.status \in {"NONE", "REMOVING", "UPLOADED"}
                /\ row.status = "UPLOADED" => row.error
  /\ row.status = "UPLOADED" /\ ~row.error => s[p] = "UPLOADED"
  /\ p \notin t => row.status = "NONE" /\ p \notin d

RowsFit(r, c, s, d, t) == \A p \in Photos : RowFits(p, r[p], c[p] # None, s, d, t)

Submittable ==
  Chosen # {} /\ \A p \in Chosen : photos[p].status = "UPLOADED" /\ ~photos[p].error

RowInv ==
  /\ RowsFit(photos, controllers, asset, deletes, taken)
  /\ wizard.step \in {"Customize", "Review"} => Submittable

(* The dialog and its vehicle: that of w, the vehicles being vs, is one of a*)
(* dialog nobody closed.                                                   *)
Owned(w, vs) ==
  w.vehicle # None =>
    \E d \in {[session |-> w.session, context |-> w.context]} \cup w.left :
      IF w.vehicle = Existing THEN d.context = "existing"
      ELSE d.session = vs[w.vehicle].session

DialogFits(w, vs) ==
  /\ w.open => w.session < MaxSessions
  /\ ~w.open => w.context = "new"
  /\ \A d \in w.left : d.session < w.session
  /\ Owned(w, vs)

DialogInv == DialogFits(wizard, vehicles)

(* A request carries its session's key, that of the dialog which is open or *)
(* of one that went away; one that creates a draft is answered with its own *)
(* session's.                                                              *)
RequestFits(k, w, vs) ==
  k.pc # "idle" =>
    /\ k.key = k.session /\ k.session <= w.session
    /\ k.session = w.session => w.open
    /\ k.kind = "create" /\ k.pc = "ok" =>
         k.vehicle \in Vehicles /\ vs[k.vehicle].session = k.session
    /\ k.kind = "update" /\ k.pc # "refused" => k.vehicle \in Vehicles
    /\ k.pc = "insert" => k.kind = "create"
    /\ k.body \in IF k.kind = "process" THEN SUBSET Photos ELSE Details

KeyInv ==
  /\ \A c \in Calls : RequestFits(call[c], wizard, vehicles)
  /\ \A v \in Vehicles : vehicles[v].key = vehicles[v].session
  /\ vehicles[Existing].session = None
  /\ \A b \in batches : b.key = b.session
  /\ OncePerSession

(* The two halves, of the uploads and of the requests, and their types.    *)
UploadTypes ==
  /\ upload \in [Uploads -> UploadState] /\ pending \in Seq(Uploads)
  /\ active \in 0..Concurrency /\ controllers \in [Photos -> Uploads \cup {None}]
  /\ photos \in [Photos -> Row] /\ taken \subseteq Photos /\ deletes \subseteq Photos
  /\ asset \in [Photos -> {"PENDING_UPLOAD", "UPLOADED", "INVALID", "DELETED"}]

RequestState == [pc: {"idle", "sent", "insert", "ok", "refused"},
                 kind: {"create", "update", "process"}, session: 0..MaxSessions,
                 key: Nat, vehicle: Vehicles \cup {None},
                 body: Details \cup {None} \cup SUBSET Photos, heard: BOOLEAN]
Draft == [key: Nat \cup {None}, session: 0..MaxSessions \cup {None},
          details: Details \cup {None}, draft: BOOLEAN]
Accepted == [key: Nat, session: 0..MaxSessions, vehicle: Vehicles \cup {None},
             photos: SUBSET Photos]

DialogTypes ==
  /\ wizard \in Wizard /\ call \in [Calls -> RequestState] /\ vehicles \in [Vehicles -> Draft]
  /\ batches \subseteq Accepted /\ owner \in [Photos -> Vehicles \cup {None}]

UploadInv == UploadTypes /\ QueueInv /\ ControlInv /\ RowInv
RequestInv == DialogTypes /\ DialogInv /\ KeyInv

WizardInv == UploadInv /\ RequestInv
-----------------------------------------------------------------------------
(* Constants and types.                                                    *)
LEMMA Apart ==
  /\ None \notin Photos /\ None \notin Uploads /\ None \notin Vehicles /\ None \notin Details
  /\ None \notin Nat /\ Originals \subseteq Photos /\ Broken \subseteq Originals
  /\ Existing \in Vehicles /\ Concurrency \in Nat /\ Concurrency > 0 /\ MaxSessions \in Nat
  /\ Blank \in Details
BY ConstantsAssumption DEF Blank

LEMMA Typed == TypeOK <=> UploadTypes /\ DialogTypes
BY DEF TypeOK, UploadTypes, DialogTypes, UploadState, Row, RequestState, Draft, Accepted

LEMMA VehicleOwned == VehicleOfSession <=> Owned(wizard, vehicles)
BY DEF VehicleOfSession, Owned, Unclosed, ThisDialog

(* A form that is shown is that of the store's step.                       *)
LEMMA FormFacts ==
  ASSUME NEW w
  PROVE  /\ FormOf(w) = "none" \/ (w.open /\ FormOf(w) = w.step)
         /\ ~w.open => FormOf(w) = "none"
BY DEF FormOf

LEMMA ShownFacts ==
  ASSUME NEW s \in Steps, Shown(s)
  PROVE  wizard.open /\ wizard.step = s /\ FormOf(wizard) = s
BY FormFacts DEF Shown, Steps

(* What Becomes makes of the dialog and the store.                         *)
LEMMA BecomesFacts ==
  ASSUME NEW w \in Wizard, Becomes(w)
  PROVE  /\ wizard' \in Wizard /\ FormOf(wizard') = FormOf(w)
         /\ wizard'.open = w.open /\ wizard'.context = w.context /\ wizard'.session = w.session
         /\ wizard'.left = w.left /\ wizard'.step = w.step /\ wizard'.vehicle = w.vehicle
         /\ \/ FormOf(wizard) = "Photos" /\ FormOf(w) # "Photos" /\ Unmount
            \/ ~(FormOf(wizard) = "Photos" /\ FormOf(w) # "Photos") /\ UNCHANGED queue
<1>1. PICK x : x = [w EXCEPT !.pending = None]
  OBVIOUS
<1>2. /\ x \in Wizard /\ x.open = w.open /\ x.context = w.context /\ x.session = w.session
      /\ x.left = w.left /\ x.step = w.step /\ x.vehicle = w.vehicle /\ x.mode = w.mode
  BY <1>1 DEF Wizard
<1>3. FormOf(x) = FormOf(w)
  BY <1>2 DEF FormOf
<1>4. wizard' = w \/ wizard' = x
  BY <1>1 DEF Becomes
<1>5. \/ FormOf(wizard) = "Photos" /\ FormOf(w) # "Photos" /\ Unmount
      \/ ~(FormOf(wizard) = "Photos" /\ FormOf(w) # "Photos") /\ UNCHANGED queue
  BY DEF Becomes, Shown
<1> QED BY <1>2, <1>3, <1>4, <1>5

-----------------------------------------------------------------------------
(* The queue.                                                              *)
LEMMA BeginFacts ==
  ASSUME NEW u \in [Uploads -> UploadState], NEW S
  PROVE  /\ Begin(u, S) \in [Uploads -> UploadState]
         /\ \A a \in Uploads :
              /\ Begin(u, S)[a].photo = u[a].photo /\ Begin(u, S)[a].here = u[a].here
              /\ Begin(u, S)[a].aborted = u[a].aborted
              /\ Begin(u, S)[a].pc = IF a \in S THEN "intent" ELSE u[a].pc
<1>1. ASSUME NEW a \in Uploads
      PROVE  /\ Begin(u, S)[a] \in UploadState
             /\ Begin(u, S)[a].photo = u[a].photo /\ Begin(u, S)[a].here = u[a].here
             /\ Begin(u, S)[a].aborted = u[a].aborted
             /\ Begin(u, S)[a].pc = IF a \in S THEN "intent" ELSE u[a].pc
  <2>1. u[a] \in UploadState
    OBVIOUS
  <2>2. CASE a \in S
    <3>1. Begin(u, S)[a] = [u[a] EXCEPT !.pc = "intent"]
      BY <2>2 DEF Begin
    <3> QED BY <2>1, <2>2, <3>1 DEF UploadState
  <2>3. CASE a \notin S
    BY <2>1, <2>3 DEF Begin
  <2> QED BY <2>2, <2>3
<1>2. Begin(u, S) = [a \in Uploads |-> Begin(u, S)[a]]
  BY DEF Begin
<1> QED BY <1>1, <1>2

LEMMA Arithmetic ==
  ASSUME NEW n \in Nat, NEW k \in Nat, k > 0, k <= n
  PROVE  /\ (k - 1) + (n - k) = n - 1
         /\ \A i \in 1..(n - 1) :
              /\ i \in 1..((k - 1) + (n - k))
              /\ i < k => i <= k - 1 /\ i \in 1..(k - 1) /\ i \in 1..n /\ i # k
              /\ ~(i < k) => /\ ~(i <= k - 1) /\ i - (k - 1) \in 1..(n - k)
                             /\ (i - (k - 1)) + k = i + 1 /\ i + 1 \in 1..n /\ i + 1 # k
OBVIOUS

(* A queue without its first upload, and without its k-th.                 *)
LEMMA RestOfQueue ==
  ASSUME NEW q \in Seq(Uploads), q # <<>>, NEW z, z = SubSeq(q, 2, Len(q))
  PROVE  /\ z \in Seq(Uploads) /\ Len(z) = Len(q) - 1 /\ q[1] \in Uploads
         /\ Len(q) \in Nat /\ Len(q) > 0 /\ \A i \in 1..Len(z) : z[i] = q[i + 1]
<1>1. z = Tail(q)
  BY TailIsSubSeq
<1>2. /\ z \in Seq(Uploads) /\ Len(z) = Len(q) - 1 /\ \A i \in 1..Len(z) : z[i] = q[i + 1]
  BY <1>1, HeadTailProperties
<1>3. Len(q) \in Nat /\ Len(q) > 0
  BY EmptySeq
<1>4. q[1] \in Uploads
  BY <1>3, ElementOfSeq
<1> QED BY <1>2, <1>3, <1>4

SplicedAt(q, k, z) ==
  /\ z \in Seq(Uploads) /\ Len(z) = Len(q) - 1
  /\ \A i \in 1..Len(z) : (i < k => z[i] = q[i]) /\ (~(i < k) => z[i] = q[i + 1])

LEMMA Spliced ==
  ASSUME NEW q \in Seq(Uploads), NEW k \in 1..Len(q),
         NEW z, z = SubSeq(q, 1, k - 1) \o SubSeq(q, k + 1, Len(q))
  PROVE  SplicedAt(q, k, z)
<1>1. /\ Len(q) \in Nat /\ k \in Nat /\ k > 0 /\ k <= Len(q)
      /\ \A i \in 1..Len(q) : q[i] \in Uploads
  BY LenProperties, ElementOfSeq
<1>2. PICK l : l = SubSeq(q, 1, k - 1)
  OBVIOUS
<1>3. PICK m : m = SubSeq(q, k + 1, Len(q))
  OBVIOUS
<1>4. l \in Seq(Uploads) /\ Len(l) = k - 1 /\ \A i \in 1..(k - 1) : l[i] = q[i]
  <2>1. \A i \in 1..(k - 1) : q[i] \in Uploads
    BY <1>1
  <2>2. /\ l \in Seq(Uploads) /\ Len(l) = IF 1 <= k - 1 THEN (k - 1) - 1 + 1 ELSE 0
        /\ \A i \in 1..((k - 1) - 1 + 1) : l[i] = q[1 + i - 1]
    BY <1>1, <1>2, <2>1, SubSeqProperties
  <2>3. Len(l) = k - 1
    BY <1>1, <2>2
  <2>4. \A i \in 1..(k - 1) : i \in 1..((k - 1) - 1 + 1) /\ 1 + i - 1 = i
    BY <1>1
  <2> QED BY <2>2, <2>3, <2>4
<1>5. m \in Seq(Uploads) /\ Len(m) = Len(q) - k /\ \A i \in 1..(Len(q) - k) : m[i] = q[i + k]
  <2>1. \A i \in (k + 1)..Len(q) : q[i] \in Uploads
    BY <1>1
  <2>2. /\ m \in Seq(Uploads)
        /\ Len(m) = IF k + 1 <= Len(q) THEN Len(q) - (k + 1) + 1 ELSE 0
        /\ \A i \in 1..(Len(q) - (k + 1) + 1) : m[i] = q[(k + 1) + i - 1]
    BY <1>1, <1>3, <2>1, SubSeqProperties
  <2>3. Len(m) = Len(q) - k
    BY <1>1, <2>2
  <2>4. \A i \in 1..(Len(q) - k) : i \in 1..(Len(q) - (k + 1) + 1) /\ (k + 1) + i - 1 = i + k
    BY <1>1
  <2> QED BY <2>2, <2>3, <2>4
<1>6. z = l \o m
  BY <1>2, <1>3
<1>7. /\ z \in Seq(Uploads) /\ Len(z) = (k - 1) + (Len(q) - k)
      /\ \A i \in 1..((k - 1) + (Len(q) - k)) : z[i] = IF i <= k - 1 THEN l[i] ELSE m[i - (k - 1)]
  <2>1. l \in Seq(Uploads) /\ m \in Seq(Uploads)
    BY <1>4, <1>5
  <2>2. /\ z \in Seq(Uploads) /\ Len(z) = Len(l) + Len(m)
        /\ \A i \in 1..(Len(l) + Len(m)) : z[i] = IF i <= Len(l) THEN l[i] ELSE m[i - Len(l)]
    BY <1>6, <2>1, ConcatProperties, Zenon
  <2>3. Len(l) = k - 1 /\ Len(m) = Len(q) - k
    BY <1>4, <1>5
  <2> QED BY <2>2, <2>3, Zenon
<1>8. /\ Len(z) = Len(q) - 1
      /\ \A i \in 1..(Len(q) - 1) :
           /\ i \in 1..((k - 1) + (Len(q) - k))
           /\ i < k => i <= k - 1 /\ i \in 1..(k - 1)
           /\ ~(i < k) => /\ ~(i <= k - 1) /\ i - (k - 1) \in 1..(Len(q) - k)
                          /\ (i - (k - 1)) + k = i + 1
  BY <1>1, <1>7, Arithmetic, Zenon
<1>9. ASSUME NEW i \in 1..Len(z)
      PROVE  (i < k => z[i] = q[i]) /\ (~(i < k) => z[i] = q[i + 1])
  <2>1. i \in 1..(Len(q) - 1) /\ i \in 1..((k - 1) + (Len(q) - k))
    BY <1>8, Zenon
  <2>2. CASE i < k
    <3>1. z[i] = l[i] /\ l[i] = q[i]
      BY <1>4, <1>7, <1>8, <2>1, <2>2, Zenon
    <3> QED BY <2>2, <3>1
  <2>3. CASE ~(i < k)
    <3>1. z[i] = m[i - (k - 1)] /\ m[i - (k - 1)] = q[(i - (k - 1)) + k] /\ (i - (k - 1)) + k = i + 1
      BY <1>5, <1>7, <1>8, <2>1, <2>3, Zenon
    <3> QED BY <2>3, <3>1, Zenon
  <2> QED BY <2>2, <2>3
<1> QED BY <1>7, <1>8, <1>9 DEF SplicedAt

(* A drain of an agreeing state with one slot free at most, or one upload   *)
(* waiting at most, starts one at most and leaves nobody waiting needlessly.*)
LEMMA DrainFits ==
  ASSUME NEW u \in [Uploads -> UploadState], NEW q \in Seq(Uploads), NEW n \in Nat,
         QueueFits(u, q, n), Len(q) <= 1 \/ Concurrency <= n + 1,
         NEW d, d = Drained(q, n)
  PROVE  /\ d.queue \in Seq(Uploads) /\ d.active \in 0..Concurrency
         /\ QueueFits(Begin(u, d.started), d.queue, d.active)
         /\ d.queue # <<>> => d.active = Concurrency
         /\ d.started = {} \/ \E a \in Uploads : d.started = {a} /\ u[a].pc = "waiting"
<1>1. n <= Concurrency /\ Concurrency \in Nat /\ Len(q) \in Nat
  BY Apart DEF QueueFits
<1>2. CASE q = <<>> \/ n = Concurrency
  <2> DEFINE free == Concurrency - n
             k == IF free < Len(q) THEN free ELSE Len(q)
  <2>1. k = 0
    BY <1>1, <1>2
  <2>2. d = [queue |-> SubSeq(q, k + 1, Len(q)), active |-> n + k, started |-> {q[i] : i \in 1..k}]
    BY DEF Drained
  <2> HIDE DEF k
  <2>3. d.queue = SubSeq(q, 1, Len(q)) /\ d.active = n /\ d.started = {}
    BY <2>1, <2>2
  <2>4. d.queue = q
    BY <2>3, SubSeqFull
  <2>5. Begin(u, d.started) = u
    BY <2>3 DEF Begin
  <2>6. n \in 0..Concurrency /\ (q # <<>> => n = Concurrency)
    BY <1>1, <1>2
  <2> QED BY <2>3, <2>4, <2>5, <2>6
<1>3. CASE q # <<>> /\ n # Concurrency
  <2> DEFINE free == Concurrency - n
             k == IF free < Len(q) THEN free ELSE Len(q)
             a == q[1]
             w == Begin(u, {a})
  <2>1. k = 1 /\ Len(q) > 0 /\ a \in Uploads /\ 1 \in 1..Len(q)
    <3>1. Len(q) > 0 /\ a \in Uploads
      BY <1>3, RestOfQueue
    <3>2. k = 1
      <4>1. PICK m \in Nat, l \in Nat : m = Len(q) /\ l = Concurrency
        BY <1>1
      <4>2. k = IF l - n < m THEN l - n ELSE m
        BY <4>1
      <4>3. m > 0 /\ n <= l /\ n # l /\ (m <= 1 \/ l <= n + 1)
        BY <1>1, <1>3, <3>1, <4>1
      <4> HIDE DEF k
      <4> QED BY <4>2, <4>3
    <3>3. 1 \in 1..Len(q)
      BY <1>1, <3>1
    <3> QED BY <3>1, <3>2, <3>3
  <2>2. d = [queue |-> SubSeq(q, k + 1, Len(q)), active |-> n + k, started |-> {q[i] : i \in 1..k}]
    BY DEF Drained
  <2> HIDE DEF k
  <2>3. d.queue = SubSeq(q, 2, Len(q)) /\ d.active = n + 1 /\ d.started = {a}
    BY <2>1, <2>2
  <2>4. PICK z : z = SubSeq(q, 2, Len(q))
    OBVIOUS
  <2>5. z \in Seq(Uploads) /\ Len(z) = Len(q) - 1 /\ \A i \in 1..Len(z) : z[i] = q[i + 1]
    BY <1>3, <2>4, RestOfQueue
  <2>6. u[a].pc = "waiting" /\ u[a].here /\ a \notin Held(u)
    BY <2>1 DEF QueueFits, Held
  <2>7. /\ w \in [Uploads -> UploadState]
        /\ \A b \in Uploads : /\ w[b].here = u[b].here /\ w[b].aborted = u[b].aborted
                              /\ w[b].pc = IF b \in {a} THEN "intent" ELSE u[b].pc
    BY BeginFacts
  <2> HIDE DEF w
  <2>8. Held(w) = Held(u) \cup {a}
    BY <2>1, <2>6, <2>7 DEF Held
  <2>9. IsFiniteSet(Held(w)) /\ Cardinality(Held(w)) = n + 1
    BY <2>6, <2>8, FS_AddElement DEF QueueFits
  <2>10. \A b \in Uploads : w[b].pc = "waiting" <=> \E i \in 1..Len(z) : z[i] = b
    <3>1. \A b \in Uploads : u[b].pc = "waiting" <=> \E i \in 1..Len(q) : q[i] = b
      BY DEF QueueFits
    <3>2. \A i \in 1..Len(q) : i # 1 => q[i] # a
      BY <2>1 DEF QueueFits
    <3>3. ASSUME NEW b \in Uploads, NEW i \in 1..Len(z), z[i] = b
          PROVE  w[b].pc = "waiting"
      <4>1. i + 1 \in 1..Len(q) /\ i + 1 # 1 /\ q[i + 1] = b
        BY <1>1, <2>5, <3>3
      <4> QED BY <2>7, <3>1, <3>2, <4>1
    <3>4. ASSUME NEW b \in Uploads, w[b].pc = "waiting"
          PROVE  \E i \in 1..Len(z) : z[i] = b
      <4>1. b # a /\ u[b].pc = "waiting"
        BY <2>7, <3>4
      <4>2. PICK i \in 1..Len(q) : q[i] = b
        BY <3>1, <4>1
      <4>3. i # 1
        BY <4>1, <4>2
      <4>4. i - 1 \in 1..Len(z) /\ z[i - 1] = b
        BY <1>1, <2>5, <4>2, <4>3
      <4> QED BY <4>4
    <3> QED BY <3>3, <3>4
  <2>11. \A i, j \in 1..Len(z) : z[i] = z[j] => i = j
    <3>1. \A i, j \in 1..Len(q) : q[i] = q[j] => i = j
      BY DEF QueueFits
    <3>2. ASSUME NEW i \in 1..Len(z), NEW j \in 1..Len(z), z[i] = z[j]
          PROVE  i = j
      <4>1. i + 1 \in 1..Len(q) /\ j + 1 \in 1..Len(q) /\ q[i + 1] = q[j + 1]
        BY <1>1, <2>5, <3>2
      <4> QED BY <3>1, <4>1
    <3> QED BY <3>2
  <2>12. \A b \in Uploads : w[b].pc = "waiting" => w[b].here /\ ~w[b].aborted
    BY <2>7 DEF QueueFits
  <2>13. n + 1 <= Concurrency
    BY <1>1, <1>3
  <2>14. QueueFits(w, z, n + 1)
    BY <2>9, <2>10, <2>11, <2>12, <2>13 DEF QueueFits
  <2>15. z # <<>> => n + 1 = Concurrency
    <3>1. z # <<>> => Len(z) > 0
      BY <2>5, EmptySeq
    <3> QED BY <1>1, <1>3, <2>5, <3>1
  <2>16. d.queue = z /\ Begin(u, d.started) = w
    BY <2>3, <2>4 DEF w
  <2>17. n + 1 \in 0..Concurrency
    BY <1>1, <2>13
  <2> HIDE DEF a
  <2> QED BY <2>1, <2>3, <2>5, <2>6, <2>14, <2>15, <2>16, <2>17
<1> QED BY <1>2, <1>3

(* The queue without an upload that leaves it.                             *)
LEMMA WithoutFacts ==
  ASSUME NEW q \in Seq(Uploads), \A i, j \in 1..Len(q) : q[i] = q[j] => i = j,
         NEW gone, NEW x, gone \subseteq {x}, NEW z, z = Without(q, gone)
  PROVE  /\ z \in Seq(Uploads) /\ Len(z) <= Len(q)
         /\ \A b : (\E i \in 1..Len(z) : z[i] = b) <=> b \notin gone /\ \E i \in 1..Len(q) : q[i] = b
         /\ \A i, j \in 1..Len(z) : z[i] = z[j] => i = j
<1>1. CASE ~\E i \in 1..Len(q) : q[i] \in gone
  BY <1>1 DEF Without
<1>2. CASE \E i \in 1..Len(q) : q[i] \in gone
  <2>1. PICK k \in 1..Len(q) :
          q[k] \in gone /\ z = SubSeq(q, 1, k - 1) \o SubSeq(q, k + 1, Len(q))
    <3>1. PICK k \in 1..Len(q) : k = CHOOSE j \in 1..Len(q) : q[j] \in gone
      BY <1>2
    <3>2. q[k] \in gone
      BY <1>2, <3>1
    <3> QED BY <1>2, <3>1, <3>2 DEF Without
  <2>3. q[k] = x /\ gone = {x} /\ Len(q) \in Nat
    BY <2>1
  <2>7. /\ z \in Seq(Uploads) /\ Len(z) = Len(q) - 1
        /\ \A i \in 1..Len(z) : (i < k => z[i] = q[i]) /\ (~(i < k) => z[i] = q[i + 1])
    <3>1. SplicedAt(q, k, z)
      BY <2>1, Spliced, Zenon
    <3> QED BY <3>1 DEF SplicedAt
  <2>8. \A i \in 1..Len(z) :
          /\ i < k => i \in 1..Len(q) /\ i # k /\ z[i] = q[i]
          /\ ~(i < k) => i + 1 \in 1..Len(q) /\ i + 1 # k /\ z[i] = q[i + 1]
    <3>1. ASSUME NEW i \in 1..Len(z)
          PROVE  /\ i < k => i \in 1..Len(q) /\ i # k /\ z[i] = q[i]
                 /\ ~(i < k) => i + 1 \in 1..Len(q) /\ i + 1 # k /\ z[i] = q[i + 1]
      <4>1. /\ (i < k => z[i] = q[i]) /\ (~(i < k) => z[i] = q[i + 1])
            /\ i \in 1..(Len(q) - 1)
        BY <2>7, Zenon
      <4>2. k \in Nat /\ k > 0 /\ k <= Len(q)
        BY <2>1, <2>3
      <4>3. /\ i < k => i \in 1..Len(q) /\ i # k
            /\ ~(i < k) => i + 1 \in 1..Len(q) /\ i + 1 # k
        BY <2>3, <4>1, <4>2, Arithmetic, Zenon
      <4> QED BY <4>1, <4>3, Zenon
    <3> QED BY <3>1
  <2>9. ASSUME NEW b, NEW i \in 1..Len(z), z[i] = b
        PROVE  b \notin gone /\ \E j \in 1..Len(q) : q[j] = b
    <3>1. PICK j \in 1..Len(q) : q[j] = b /\ j # k
      BY <2>8, <2>9
    <3> QED BY <2>1, <2>3, <3>1
  <2>10. ASSUME NEW b, b \notin gone, NEW j \in 1..Len(q), q[j] = b
         PROVE  \E i \in 1..Len(z) : z[i] = b
    <3>1. j # k
      BY <2>1, <2>10
    <3>2. CASE j < k
      <4>1. j \in 1..Len(z)
        <5>1. PICK n \in Nat : n = Len(q) /\ Len(z) = n - 1
          BY <2>3, <2>7
        <5>2. k \in 1..n /\ j \in 1..n /\ j < k
          BY <3>2, <5>1
        <5>3. j \in 1..(n - 1)
          BY <5>2
        <5> QED BY <5>1, <5>3
      <4> QED BY <2>8, <2>10, <3>2, <4>1
    <3>3. CASE j > k
      <4>1. j - 1 \in 1..Len(z) /\ ~(j - 1 < k) /\ (j - 1) + 1 = j
        <5>1. PICK n \in Nat : n = Len(q) /\ Len(z) = n - 1
          BY <2>3, <2>7
        <5>2. k \in 1..n /\ j \in 1..n /\ j > k
          BY <3>3, <5>1
        <5>3. j - 1 \in 1..(n - 1) /\ ~(j - 1 < k) /\ (j - 1) + 1 = j
          BY <5>2
        <5> QED BY <5>1, <5>3
      <4>2. z[j - 1] = q[(j - 1) + 1]
        BY <2>8, <4>1, Zenon
      <4> QED BY <2>10, <4>1, <4>2
    <3>4. j < k \/ j = k \/ j > k
      <4>1. j \in Nat /\ k \in Nat
        BY <2>3
      <4> QED BY <4>1
    <3> QED BY <3>1, <3>2, <3>3, <3>4
  <2>11. \A i, j \in 1..Len(z) : z[i] = z[j] => i = j
    <3>1. ASSUME NEW i \in 1..Len(z), NEW j \in 1..Len(z), z[i] = z[j]
          PROVE  i = j
      <4>1. CASE i < k /\ j < k
        BY <2>8, <3>1, <4>1
      <4>2. CASE i < k /\ ~(j < k)
        <5>1. q[i] = q[j + 1] /\ i \in 1..Len(q) /\ j + 1 \in 1..Len(q)
          BY <2>8, <3>1, <4>2
        <5>2. i = j + 1
          BY <5>1
        <5> QED BY <2>1, <2>3, <4>2, <5>2
      <4>3. CASE ~(i < k) /\ j < k
        <5>1. q[i + 1] = q[j] /\ i + 1 \in 1..Len(q) /\ j \in 1..Len(q)
          BY <2>8, <3>1, <4>3
        <5>2. i + 1 = j
          BY <5>1
        <5> QED BY <2>1, <2>3, <4>3, <5>2
      <4>4. CASE ~(i < k) /\ ~(j < k)
        <5>1. q[i + 1] = q[j + 1] /\ i + 1 \in 1..Len(q) /\ j + 1 \in 1..Len(q)
          BY <2>8, <3>1, <4>4
        <5>2. i + 1 = j + 1
          BY <5>1
        <5> QED BY <2>3, <2>7, <5>2
      <4> QED BY <4>1, <4>2, <4>3, <4>4
    <3> QED BY <3>1
  <2>12. Len(z) <= Len(q)
    BY <2>3, <2>7
  <2> QED BY <2>7, <2>9, <2>10, <2>11, <2>12
<1> QED BY <1>1, <1>2
-----------------------------------------------------------------------------
(* What the scheduler does keeps its queue and its slots in agreement.     *)
LEMMA CancelFits ==
  ASSUME UploadTypes, QueueFits(upload, pending, active), NEW p \in Photos,
         NEW w, w = Cancelled(Previous(p)), NEW z, z = Without(pending, Previous(p))
  PROVE  /\ w \in [Uploads -> UploadState] /\ z \in Seq(Uploads) /\ Len(z) <= Len(pending)
         /\ QueueFits(w, z, active)
         /\ \A b \in Uploads : b # controllers[p] => w[b] = upload[b]
         /\ \A b \in Uploads : b = controllers[p] =>
              /\ w[b].pc = "idle" \/ w[b].aborted
              /\ w[b].pc # "idle" => /\ w[b].photo = upload[b].photo
                                     /\ w[b].here = upload[b].here
                                     /\ upload[b].pc # "idle"
<1> DEFINE gone == Previous(p)
<1>1. gone \subseteq {controllers[p]} /\ \A b \in Uploads : b \in gone <=> b = controllers[p]
  BY DEF Previous
<1>2. \A i, j \in 1..Len(pending) : pending[i] = pending[j] => i = j
  BY DEF QueueFits
<1> HIDE DEF gone
<1>3. /\ z \in Seq(Uploads) /\ Len(z) <= Len(pending)
      /\ \A b : (\E i \in 1..Len(z) : z[i] = b)
                  <=> b \notin gone /\ \E i \in 1..Len(pending) : pending[i] = b
      /\ \A i, j \in 1..Len(z) : z[i] = z[j] => i = j
  <2>1. z = Without(pending, gone) /\ pending \in Seq(Uploads)
    BY DEF gone, UploadTypes
  <2> QED BY <1>1, <1>2, <2>1, WithoutFacts
<1>4. ASSUME NEW b \in Uploads
      PROVE  /\ w[b] \in UploadState
             /\ b \notin gone => w[b] = upload[b]
             /\ b \in gone /\ upload[b].pc = "waiting" => w[b] = NoUpload
             /\ b \in gone /\ upload[b].pc # "waiting" =>
                  /\ w[b].pc = upload[b].pc /\ w[b].photo = upload[b].photo
                  /\ w[b].here = upload[b].here /\ w[b].aborted
  <2>1. w[b] = IF b \notin gone THEN upload[b] ELSE IF upload[b].pc = "waiting" THEN NoUpload
               ELSE [upload[b] EXCEPT !.aborted = TRUE]
    BY DEF Cancelled, gone
  <2>2. upload[b] \in UploadState /\ NoUpload \in UploadState
    BY DEF UploadTypes, NoUpload, UploadState
  <2>3. [upload[b] EXCEPT !.aborted = TRUE] \in UploadState
    BY <2>2 DEF UploadState
  <2>4. CASE b \in gone /\ upload[b].pc # "waiting"
    BY <2>1, <2>2, <2>3, <2>4 DEF UploadState
  <2>5. CASE ~(b \in gone /\ upload[b].pc # "waiting")
    BY <2>1, <2>2, <2>5
  <2> QED BY <2>4, <2>5
<1>5. w \in [Uploads -> UploadState]
  <2>1. w = [b \in Uploads |-> w[b]]
    BY DEF Cancelled
  <2> QED BY <1>4, <2>1
<1>6. Held(w) = Held(upload)
  BY <1>4 DEF Held, NoUpload, QueueFits
<1>7. ASSUME NEW b \in Uploads
      PROVE  /\ w[b].pc = "waiting" <=> \E i \in 1..Len(z) : z[i] = b
             /\ w[b].pc = "waiting" => w[b].here /\ ~w[b].aborted
  BY <1>3, <1>4 DEF QueueFits, NoUpload
<1>8. QueueFits(w, z, active)
  BY <1>3, <1>6, <1>7 DEF QueueFits
<1>9. \A b \in Uploads : b = controllers[p] =>
              /\ w[b].pc = "idle" \/ w[b].aborted
              /\ w[b].pc # "idle" => /\ w[b].photo = upload[b].photo
                                     /\ w[b].here = upload[b].here
                                     /\ upload[b].pc # "idle"
  BY <1>1, <1>4 DEF NoUpload
<1> QED BY <1>1, <1>3, <1>4, <1>5, <1>8, <1>9

(* An idle upload joins the queue.                                         *)
Joined(u, q, n, l) ==
  u \in [Uploads -> UploadState] /\ q \in Seq(Uploads) /\ QueueFits(u, q, n) /\ Len(q) = l + 1

LEMMA AppendFits ==
  ASSUME NEW u \in [Uploads -> UploadState], NEW q \in Seq(Uploads), NEW n \in Nat,
         QueueFits(u, q, n), NEW a \in Uploads, u[a].pc = "idle",
         NEW r \in UploadState, r.pc = "waiting", r.here, ~r.aborted,
         NEW w, w = [u EXCEPT ![a] = r], NEW z, z = Append(q, a)
  PROVE  Joined(w, z, n, Len(q))
<1>1. /\ w \in [Uploads -> UploadState] /\ w[a] = r
      /\ \A b \in Uploads : b # a => w[b] = u[b]
  OBVIOUS
<1>2. /\ z \in Seq(Uploads) /\ Len(z) = Len(q) + 1 /\ Len(q) \in Nat
      /\ z[Len(q) + 1] = a /\ \A i \in 1..Len(q) : z[i] = q[i]
  BY AppendProperties
<1>3. \A i \in 1..Len(z) : i \in 1..Len(q) \/ i = Len(q) + 1
  BY <1>2
<1>4. \A i \in 1..Len(q) : i \in 1..Len(z) /\ i # Len(q) + 1
  BY <1>2
<1>5. \A i \in 1..Len(q) : q[i] # a
  BY DEF QueueFits
<1>6. Held(w) = Held(u)
  BY <1>1 DEF Held
<1>7. ASSUME NEW b \in Uploads
      PROVE  w[b].pc = "waiting" <=> \E i \in 1..Len(z) : z[i] = b
  <2>1. u[b].pc = "waiting" <=> \E i \in 1..Len(q) : q[i] = b
    BY DEF QueueFits
  <2>2. Len(q) + 1 \in 1..Len(z)
    BY <1>2
  <2>3. CASE b = a
    BY <1>1, <1>2, <2>2, <2>3
  <2>4. CASE b # a
    <3>1. (\E i \in 1..Len(z) : z[i] = b) <=> \E i \in 1..Len(q) : q[i] = b
      <4>1. ASSUME NEW i \in 1..Len(z), z[i] = b
            PROVE  \E j \in 1..Len(q) : q[j] = b
        <5>1. i \in 1..Len(q)
          BY <1>2, <1>3, <2>4, <4>1
        <5> QED BY <1>2, <4>1, <5>1
      <4>2. ASSUME NEW i \in 1..Len(q), q[i] = b
            PROVE  \E j \in 1..Len(z) : z[j] = b
        BY <1>2, <1>4, <4>2
      <4> QED BY <4>1, <4>2
    <3> QED BY <1>1, <2>1, <2>4, <3>1
  <2> QED BY <2>3, <2>4
<1>8. ASSUME NEW i \in 1..Len(z), NEW j \in 1..Len(z), z[i] = z[j]
      PROVE  i = j
  <2>1. \A k, l \in 1..Len(q) : q[k] = q[l] => k = l
    BY DEF QueueFits
  <2>2. CASE i \in 1..Len(q) /\ j \in 1..Len(q)
    BY <1>2, <1>8, <2>1, <2>2
  <2>3. CASE i \notin 1..Len(q) \/ j \notin 1..Len(q)
    BY <1>2, <1>3, <1>5, <1>8, <2>3
  <2> QED BY <2>2, <2>3
<1>9. \A b \in Uploads : w[b].pc = "waiting" => w[b].here /\ ~w[b].aborted
  BY <1>1 DEF QueueFits
<1> QED BY <1>1, <1>2, <1>6, <1>7, <1>8, <1>9 DEF QueueFits, Joined

(* An upload that runs ends, or moves on.                                  *)
LEMMA SettleFits ==
  ASSUME NEW u \in [Uploads -> UploadState], NEW q \in Seq(Uploads), NEW n \in Nat,
         QueueFits(u, q, n), NEW a \in Uploads, u[a].pc \notin {"idle", "waiting"},
         NEW w, w = [u EXCEPT ![a] = NoUpload]
  PROVE  /\ w \in [Uploads -> UploadState]
         /\ u[a].here => n - 1 \in Nat /\ QueueFits(w, q, n - 1)
         /\ ~u[a].here => QueueFits(w, q, n)
<1>1. /\ w \in [Uploads -> UploadState] /\ w[a] = NoUpload
      /\ \A b \in Uploads : b # a => w[b] = u[b]
  BY DEF UploadState, NoUpload
<1>2. \A b \in Uploads : w[b].pc = "waiting" <=> u[b].pc = "waiting"
  BY <1>1 DEF NoUpload
<1>3. \A b \in Uploads : w[b].pc = "waiting" => w[b] = u[b]
  BY <1>1 DEF NoUpload
<1>4. ASSUME NEW m, IsFiniteSet(Held(w)), m = Cardinality(Held(w)), m <= Concurrency
      PROVE  QueueFits(w, q, m)
  BY <1>2, <1>3, <1>4 DEF QueueFits
<1>5. CASE u[a].here
  <2>1. Held(w) = Held(u) \ {a} /\ a \in Held(u)
    BY <1>1, <1>5 DEF Held, NoUpload
  <2>2. IsFiniteSet(Held(u)) /\ n = Cardinality(Held(u)) /\ n <= Concurrency
    BY DEF QueueFits
  <2>3. IsFiniteSet(Held(w)) /\ Cardinality(Held(w)) = n - 1
    BY <2>1, <2>2, FS_RemoveElement
  <2>4. n > 0
    BY <2>1, <2>2, FS_EmptySet
  <2>5. n - 1 \in Nat /\ n - 1 <= Concurrency
    BY <2>2, <2>4, Apart
  <2> QED BY <1>1, <1>4, <1>5, <2>3, <2>5
<1>6. CASE ~u[a].here
  <2>1. Held(w) = Held(u)
    BY <1>1, <1>6 DEF Held, NoUpload
  <2> QED BY <1>1, <1>4, <1>6, <2>1 DEF QueueFits
<1> QED BY <1>5, <1>6

Moved(u, w, q, n) ==
  /\ w \in [Uploads -> UploadState] /\ QueueFits(w, q, n)
  /\ \A b \in Uploads : /\ w[b].photo = u[b].photo /\ w[b].here = u[b].here
                        /\ w[b].aborted = u[b].aborted
                        /\ w[b].pc = "idle" <=> u[b].pc = "idle"

LEMMA ProgressFits ==
  ASSUME NEW u \in [Uploads -> UploadState], NEW q, NEW n, QueueFits(u, q, n),
         NEW a \in Uploads, u[a].pc \notin {"idle", "waiting"},
         NEW s \in {"put", "unsent", "commit"}, NEW w, w = [u EXCEPT ![a].pc = s]
  PROVE  Moved(u, w, q, n)
<1>1. u[a] \in UploadState
  OBVIOUS
<1>2. PICK r : r = [u[a] EXCEPT !.pc = s]
  OBVIOUS
<1>3. /\ r \in UploadState /\ r.pc = s /\ r.photo = u[a].photo /\ r.here = u[a].here
      /\ r.aborted = u[a].aborted
  BY <1>1, <1>2 DEF UploadState
<1>4. w = [u EXCEPT ![a] = r]
  BY <1>2
<1>5. w[a] = r /\ \A b \in Uploads : b # a => w[b] = u[b]
  BY <1>4
<1>6. Held(w) = Held(u)
  BY <1>3, <1>5 DEF Held
<1>7. \A b \in Uploads : /\ w[b].photo = u[b].photo /\ w[b].here = u[b].here
                         /\ w[b].aborted = u[b].aborted
                         /\ w[b].pc = "idle" <=> u[b].pc = "idle"
                         /\ w[b].pc = "waiting" <=> u[b].pc = "waiting"
  BY <1>3, <1>5
<1> QED BY <1>3, <1>4, <1>6, <1>7 DEF QueueFits, Moved

(* A started upload shows its photo as being prepared; controllers and rows *)
(* go on to fit.                                                           *)
LEMMA BeginKeeps ==
  ASSUME NEW u \in [Uploads -> UploadState], NEW r \in [Photos -> Row],
         NEW c \in [Photos -> Uploads \cup {None}], NEW s, NEW d, NEW t \in SUBSET Photos, NEW st, NEW S,
         S = {} \/ \E a \in Uploads : S = {a} /\ u[a].pc = "waiting",
         \A a \in Uploads : u[a].pc = "waiting" => ~u[a].aborted,
         Controls(u, c, t, st), RowsFit(r, c, s, d, t)
  PROVE  /\ Controls(Begin(u, S), c, t, st)
         /\ Preparing(r, u, S) \in [Photos -> Row]
         /\ RowsFit(Preparing(r, u, S), c, s, d, t)
<1>1. \A a \in Uploads :
        /\ Begin(u, S)[a].photo = u[a].photo /\ Begin(u, S)[a].here = u[a].here
        /\ Begin(u, S)[a].aborted = u[a].aborted
        /\ Begin(u, S)[a].pc = "idle" <=> u[a].pc = "idle"
  BY BeginFacts
<1> DEFINE x == Preparing(r, u, S)
<1>3. ASSUME NEW p \in Photos
      PROVE  /\ x[p] \in Row
             /\ RowFits(p, x[p], c[p] # None, s, d, t)
  <2>1. x[p] = r[p] \/ /\ x[p] = [r[p] EXCEPT !.status = "PREPARING"]
                       /\ r[p].status # "NONE" /\ \E a \in S : u[a].photo = p
    BY DEF Preparing
  <2>2. CASE x[p] = r[p]
    BY <2>2 DEF RowsFit
  <2>3. CASE /\ x[p] = [r[p] EXCEPT !.status = "PREPARING"]
             /\ r[p].status # "NONE" /\ \E a \in S : u[a].photo = p
    <3>1. r[p] \in Row /\ RowFits(p, r[p], c[p] # None, s, d, t)
      BY DEF RowsFit
    <3>2. x[p] \in Row /\ x[p].status = "PREPARING"
      BY <2>3, <3>1 DEF Row
    <3>3. PICK a \in Uploads : u[a].photo = p /\ u[a].pc = "waiting"
      BY <2>3
    <3>4. p \in t \ Originals /\ c[p] = a
      BY <3>3 DEF Controls
    <3>5. c[p] # None
      BY <3>4, Apart
    <3> HIDE DEF x
    <3> QED BY <3>1, <3>2, <3>4, <3>5 DEF RowFits
  <2> QED BY <2>1, <2>2, <2>3
<1>4. x = [p \in Photos |-> x[p]]
  BY DEF Preparing
<1>5. Controls(Begin(u, S), c, t, st)
  <2> DEFINE w == Begin(u, S)
  <2>1. ASSUME NEW p \in Photos, c[p] # None
        PROVE  w[c[p]].pc # "idle" /\ w[c[p]].photo = p /\ w[c[p]].here
    BY <1>1, <2>1 DEF Controls
  <2>2. ASSUME NEW a \in Uploads, w[a].pc # "idle"
        PROVE  /\ w[a].photo \in t \ Originals
               /\ ~w[a].aborted => c[w[a].photo] = a
               /\ w[a].here => st = "Photos"
    BY <1>1, <2>2 DEF Controls
  <2> HIDE DEF w
  <2>3. Controls(w, c, t, st)
    BY <2>1, <2>2 DEF Controls
  <2> QED BY <2>3 DEF w
<1> QED BY <1>3, <1>4, <1>5 DEF RowsFit

LEMMA DrainKeeps ==
  ASSUME NEW u \in [Uploads -> UploadState], NEW r \in [Photos -> Row],
         NEW c \in [Photos -> Uploads \cup {None}], NEW s, NEW d, NEW t \in SUBSET Photos, NEW st,
         NEW q \in Seq(Uploads), NEW n \in Nat, QueueFits(u, q, n),
         Len(q) <= 1 \/ Concurrency <= n + 1, NEW e, e = Drained(q, n),
         Controls(u, c, t, st), RowsFit(r, c, s, d, t)
  PROVE  /\ Begin(u, e.started) \in [Uploads -> UploadState] /\ e.queue \in Seq(Uploads)
         /\ e.active \in 0..Concurrency /\ Preparing(r, u, e.started) \in [Photos -> Row]
         /\ QueueFits(Begin(u, e.started), e.queue, e.active)
         /\ e.queue # <<>> => e.active = Concurrency
         /\ Controls(Begin(u, e.started), c, t, st)
         /\ RowsFit(Preparing(r, u, e.started), c, s, d, t)
<1>1. /\ e.queue \in Seq(Uploads) /\ e.active \in 0..Concurrency
      /\ QueueFits(Begin(u, e.started), e.queue, e.active)
      /\ e.queue # <<>> => e.active = Concurrency
      /\ e.started = {} \/ \E a \in Uploads : e.started = {a} /\ u[a].pc = "waiting"
  BY DrainFits
<1>2. \A a \in Uploads : u[a].pc = "waiting" => ~u[a].aborted
  BY DEF QueueFits
<1>3. /\ Controls(Begin(u, e.started), c, t, st) /\ Preparing(r, u, e.started) \in [Photos -> Row]
      /\ RowsFit(Preparing(r, u, e.started), c, s, d, t)
  BY <1>1, <1>2, BeginKeeps
<1> QED BY <1>1, <1>3, BeginFacts

(* Starting an upload, whatever its photo's controller aborts.             *)
LEMMA QueuedKeeps ==
  ASSUME UploadInv, NEW p \in Photos \ Originals, NEW a \in Uploads, NEW g \in [Photos -> Row],
         FormOf(wizard) = "Photos", StartUpload(p, a, g), p \notin deletes,
         wizard.vehicle \in Vehicles, g[p].status \in {"SELECTED", "FAILED"},
         \A x \in Photos : x # p => g[x] = photos[x] \/ (x \in Originals /\ g[x] = NoRow),
         taken' = taken \cup {p}, UNCHANGED <<wizard, asset, deletes>>
  PROVE  UploadInv'
<1> PICK row : row = [pc |-> "waiting", photo |-> p, vehicle |-> wizard.vehicle, aborted |-> FALSE,
                      here |-> TRUE]
  OBVIOUS
<1>0. PICK r \in [Photos -> Row] :
        /\ r = [g EXCEPT ![p].error = FALSE] /\ r[p].status \in {"SELECTED", "FAILED"}
        /\ \A x \in Photos : x # p => r[x] = photos[x] \/ (x \in Originals /\ r[x] = NoRow)
  <2>1. PICK x : x = [g[p] EXCEPT !.error = FALSE]
    OBVIOUS
  <2>2. x \in Row /\ x.status = g[p].status
    BY <2>1 DEF Row
  <2>3. [g EXCEPT ![p].error = FALSE] = [g EXCEPT ![p] = x]
    BY <2>1
  <2> QED BY <2>2, <2>3
<1>1. PICK w : w = Cancelled(Previous(p))
  OBVIOUS
<1>2. PICK z : z = Without(pending, Previous(p))
  OBVIOUS
<1>3. PICK u : u = [w EXCEPT ![a] = row]
  OBVIOUS
<1>4. PICK q : q = Append(z, a)
  OBVIOUS
<1>5. PICK c : c = [controllers EXCEPT ![p] = a]
  OBVIOUS
<1>6. PICK e : e = Drained(q, active)
  OBVIOUS
<1>7. /\ upload[a].pc = "idle" /\ upload' = Begin(u, e.started) /\ pending' = e.queue
      /\ active' = e.active /\ photos' = Preparing(r, u, e.started) /\ controllers' = c
  <2>1. wizard.vehicle # None
    BY Apart
  <2> QED BY <1>0, <1>1, <1>2, <1>3, <1>4, <1>5, <1>6, <2>1 DEF StartUpload
<1>8. /\ UploadTypes /\ QueueFits(upload, pending, active)
      /\ pending # <<>> => active = Concurrency
      /\ Controls(upload, controllers, taken, "Photos")
      /\ RowsFit(photos, controllers, asset, deletes, taken)
  BY DEF UploadInv, QueueInv, ControlInv, RowInv
<1>9. /\ w \in [Uploads -> UploadState] /\ z \in Seq(Uploads) /\ Len(z) <= Len(pending)
      /\ QueueFits(w, z, active)
      /\ \A b \in Uploads : b # controllers[p] => w[b] = upload[b]
      /\ \A b \in Uploads : b = controllers[p] =>
              /\ w[b].pc = "idle" \/ w[b].aborted
              /\ w[b].pc # "idle" => /\ w[b].photo = upload[b].photo
                                     /\ w[b].here = upload[b].here
                                     /\ upload[b].pc # "idle"
  BY <1>1, <1>2, <1>8, CancelFits
<1>10. active \in Nat /\ active <= Concurrency /\ Concurrency \in Nat
  BY <1>8, Apart DEF UploadTypes
<1>11. controllers[p] # a
  BY <1>7, <1>8, Apart DEF Controls
<1>12. w[a].pc = "idle"
  BY <1>7, <1>9, <1>11
<1>13. /\ row \in UploadState /\ row.pc = "waiting" /\ row.here /\ ~row.aborted /\ row.photo = p
  BY DEF UploadState
<1>14. /\ u \in [Uploads -> UploadState] /\ q \in Seq(Uploads) /\ Len(q) = Len(z) + 1
       /\ QueueFits(u, q, active)
  <2>1. w \in [Uploads -> UploadState] /\ z \in Seq(Uploads) /\ active \in Nat
    BY <1>9, <1>10
  <2>2. row \in UploadState /\ row.pc = "waiting" /\ row.here /\ ~row.aborted
    BY <1>13
  <2>3. QueueFits(w, z, active)
    BY <1>9
  <2>4. Joined(u, q, active, Len(z))
    BY <1>3, <1>4, <1>12, <2>1, <2>2, <2>3, AppendFits, Zenon
  <2> QED BY <2>4 DEF Joined
<1>15. Len(q) <= 1 \/ Concurrency <= active + 1
  <2>1. CASE pending = <<>>
    <3>1. Len(pending) = 0
      BY <2>1
    <3>2. Len(z) \in Nat
      BY <1>9, LenProperties
    <3> QED BY <1>9, <1>14, <3>1, <3>2
  <2>2. CASE pending # <<>>
    BY <1>8, <1>10, <2>2
  <2> QED BY <2>1, <2>2
<1>16. /\ c \in [Photos -> Uploads \cup {None}] /\ c[p] = a
       /\ \A x \in Photos : x # p => c[x] = controllers[x]
  BY <1>5, <1>8 DEF UploadTypes
<1>17. u[a] = row /\ \A b \in Uploads : b # a => u[b] = w[b]
  BY <1>3, <1>9
<1>18. taken' \in SUBSET Photos /\ taken \subseteq taken' /\ p \in taken'
  BY <1>8 DEF UploadTypes
<1>19. Controls(u, c, taken', "Photos")
  <2>1. ASSUME NEW x \in Photos, c[x] # None
        PROVE  u[c[x]].pc # "idle" /\ u[c[x]].photo = x /\ u[c[x]].here
    <3>1. CASE x = p
      BY <1>13, <1>16, <1>17, <3>1
    <3>2. CASE x # p
      <4>1. PICK b \in Uploads : b = controllers[x] /\ b = c[x]
        BY <1>8, <1>16, <2>1, <3>2 DEF UploadTypes
      <4>2. upload[b].pc # "idle" /\ upload[b].photo = x /\ upload[b].here
        BY <1>8, <2>1, <4>1 DEF Controls
      <4>3. b # controllers[p]
        BY <1>8, <3>2, <4>2, Apart DEF Controls
      <4>4. b # a
        BY <1>7, <4>2
      <4> QED BY <1>9, <1>17, <4>1, <4>2, <4>3, <4>4
    <3> QED BY <3>1, <3>2
  <2>2. ASSUME NEW b \in Uploads, u[b].pc # "idle"
        PROVE  /\ u[b].photo \in taken' \ Originals
               /\ ~u[b].aborted => c[u[b].photo] = b
               /\ u[b].here => "Photos" = "Photos"
    <3>1. CASE b = a
      BY <1>13, <1>16, <1>17, <1>18, <3>1
    <3>2. CASE b # a /\ b = controllers[p]
      BY <1>8, <1>9, <1>17, <1>18, <2>2, <3>2 DEF Controls
    <3>3. CASE b # a /\ b # controllers[p]
      <4>1. u[b] = upload[b]
        BY <1>9, <1>17, <3>3
      <4>2. /\ upload[b].photo \in taken \ Originals
            /\ ~upload[b].aborted => controllers[upload[b].photo] = b
        BY <1>8, <2>2, <4>1 DEF Controls
      <4>3. upload[b].photo \in Photos
        BY <1>8, <4>2 DEF UploadTypes
      <4>4. ~upload[b].aborted => upload[b].photo # p
        BY <3>3, <4>2
      <4> QED BY <1>16, <1>18, <4>1, <4>2, <4>3, <4>4
    <3> QED BY <3>1, <3>2, <3>3
  <2> QED BY <2>1, <2>2 DEF Controls
<1>20. RowsFit(r, c, asset, deletes, taken')
  <2>1. ASSUME NEW x \in Photos
        PROVE  RowFits(x, r[x], c[x] # None, asset, deletes, taken')
    <3>1. RowFits(x, photos[x], controllers[x] # None, asset, deletes, taken)
      BY <1>8 DEF RowsFit
    <3>2. CASE x = p
      BY <1>0, <1>16, <1>18, <3>2 DEF RowFits
    <3>3. CASE x # p /\ r[x] = photos[x]
      <4>1. c[x] = controllers[x]
        BY <1>16, <3>3
      <4> QED BY <1>18, <3>1, <3>3, <4>1 DEF RowFits
    <3>4. CASE x # p /\ x \in Originals /\ r[x] = NoRow
      <4>1. c[x] = controllers[x]
        BY <1>16, <3>4
      <4>2. c[x] = None
        <5>1. UploadTypes /\ Controls(upload, controllers, taken, "Photos")
          BY <1>8
        <5>2. controllers[x] = None
          BY <3>4, <5>1 DEF Controls, UploadTypes
        <5> QED BY <4>1, <5>2
      <4> QED BY <1>18, <3>1, <3>4, <4>2 DEF RowFits, NoRow
    <3> QED BY <1>0, <3>2, <3>3, <3>4
  <2> QED BY <2>1 DEF RowsFit
<1>21. /\ upload' \in [Uploads -> UploadState] /\ pending' \in Seq(Uploads)
       /\ active' \in 0..Concurrency /\ photos' \in [Photos -> Row]
       /\ QueueFits(upload', pending', active')
       /\ pending' # <<>> => active' = Concurrency
       /\ Controls(upload', c, taken', "Photos")
       /\ RowsFit(photos', c, asset, deletes, taken')
  BY <1>6, <1>7, <1>10, <1>14, <1>15, <1>16, <1>18, <1>19, <1>20, DrainKeeps
<1>22. UploadTypes'
  BY <1>7, <1>8, <1>16, <1>18, <1>21 DEF UploadTypes
<1>23. QueueInv' /\ ControlInv'
  BY <1>7, <1>21 DEF QueueInv, ControlInv
<1>24. RowInv'
  <2>1. wizard'.step \notin {"Customize", "Review"}
    BY FormFacts
  <2> QED BY <1>7, <1>21, <2>1 DEF RowInv
<1> QED BY <1>22, <1>23, <1>24 DEF UploadInv

(* Without a vehicle it fails at once.                                     *)
LEMMA FailedKeeps ==
  ASSUME UploadInv, NEW p \in Photos \ Originals, NEW a \in Uploads, NEW r \in [Photos -> Row],
         FormOf(wizard) = "Photos", StartUpload(p, a, r), p \notin deletes,
         wizard.vehicle = None,
         \A x \in Photos : x # p => r[x] = photos[x] \/ (x \in Originals /\ r[x] = NoRow),
         taken' = taken \cup {p}, UNCHANGED <<wizard, asset, deletes>>
  PROVE  UploadInv'
<1>1. /\ photos' = [r EXCEPT ![p].status = "FAILED", ![p].error = TRUE]
      /\ UNCHANGED <<controllers, upload, pending, active>>
  BY DEF StartUpload, queue
<1>2. PICK row : row = [r[p] EXCEPT !.status = "FAILED", !.error = TRUE]
  OBVIOUS
<1>3. row \in Row /\ row.status = "FAILED"
  BY <1>2 DEF Row
<1>4. photos' = [r EXCEPT ![p] = row]
  BY <1>1, <1>2
<1>5. /\ photos' \in [Photos -> Row] /\ photos'[p] = row
      /\ \A x \in Photos : x # p => photos'[x] = r[x]
  BY <1>3, <1>4
<1>6. /\ UploadTypes /\ QueueInv /\ Controls(upload, controllers, taken, FormOf(wizard))
      /\ RowsFit(photos, controllers, asset, deletes, taken)
  BY DEF UploadInv, ControlInv, RowInv
<1>7. taken \subseteq taken' /\ p \in taken' /\ taken' \subseteq Photos
  BY <1>6 DEF UploadTypes
<1>8. UploadTypes'
  BY <1>1, <1>5, <1>6, <1>7 DEF UploadTypes
<1>9. QueueInv'
  BY <1>1, <1>6 DEF QueueInv, QueueFits, Held
<1>10. ControlInv'
  BY <1>1, <1>6, <1>7 DEF ControlInv, Controls
<1>11. ASSUME NEW x \in Photos
       PROVE  RowFits(x, photos'[x], controllers[x] # None, asset, deletes, taken')
  <2>1. RowFits(x, photos[x], controllers[x] # None, asset, deletes, taken)
    BY <1>6 DEF RowsFit
  <2>2. CASE x = p
    BY <1>3, <1>5, <1>7, <2>2 DEF RowFits
  <2>3. CASE x # p /\ r[x] = photos[x]
    <3>1. photos'[x] = photos[x] /\ (x \notin taken' => x \notin taken) /\ (x \in taken => x \in taken')
      BY <1>5, <1>7, <2>3
    <3> QED BY <2>1, <3>1 DEF RowFits
  <2>4. CASE x # p /\ x \in Originals /\ r[x] = NoRow
    <3>1. photos'[x].status = "NONE" /\ (x \in taken => x \in taken')
      BY <1>5, <1>7, <2>4 DEF NoRow
    <3>2. controllers[x] = None
      BY <1>6, <2>4 DEF Controls, UploadTypes
    <3> QED BY <2>1, <2>4, <3>1, <3>2 DEF RowFits
  <2> QED BY <2>2, <2>3, <2>4
<1>12. RowInv'
  <2>1. wizard'.step \notin {"Customize", "Review"}
    BY FormFacts
  <2>2. RowsFit(photos', controllers', asset', deletes', taken')
    BY <1>1, <1>11 DEF RowsFit
  <2> QED BY <2>1, <2>2 DEF RowInv
<1> QED BY <1>8, <1>9, <1>10, <1>12 DEF UploadInv

LEMMA StartKeeps ==
  ASSUME UploadInv, wizard \in Wizard, NEW p \in Photos \ Originals, NEW a \in Uploads,
         NEW r \in [Photos -> Row],
         FormOf(wizard) = "Photos", StartUpload(p, a, r), p \notin deletes,
         r[p].status \in {"SELECTED", "FAILED"},
         \A x \in Photos : x # p => r[x] = photos[x] \/ (x \in Originals /\ r[x] = NoRow),
         taken' = taken \cup {p}, UNCHANGED <<wizard, asset, deletes>>
  PROVE  UploadInv'
<1>1. wizard.vehicle \in Vehicles \/ wizard.vehicle = None
  BY DEF Wizard
<1> QED BY <1>1, QueuedKeeps, FailedKeeps

(* An upload that runs ends, leaving rows that fit and change in the photos *)
(* step only.                                                              *)
LEMMA SettleKeeps ==
  ASSUME UploadInv, NEW a \in Uploads, upload[a].pc \notin {"idle", "waiting"},
         NEW r \in [Photos -> Row], Settle(a, r), FormOf(wizard) # "Photos" => r = photos,
         asset' \in [Photos -> {"PENDING_UPLOAD", "UPLOADED", "INVALID", "DELETED"}],
         RowsFit(r, controllers, asset', deletes, taken)
  PROVE  UploadInv'
<1>1. PICK e : e = IF ThisMount(a) THEN AfterSettled(pending, active)
                   ELSE [queue |-> pending, active |-> active, started |-> {}]
  OBVIOUS
<1>2. PICK u : u = [upload EXCEPT ![a] = NoUpload]
  OBVIOUS
<1>3. PICK c : c = [p \in Photos |-> IF controllers[p] = a THEN None ELSE controllers[p]]
  OBVIOUS
<1>4. /\ upload' = Begin(u, e.started) /\ pending' = e.queue /\ active' = e.active
      /\ photos' = Preparing(r, u, e.started) /\ controllers' = c
      /\ UNCHANGED <<wizard, taken, deletes>>
  BY <1>1, <1>2, <1>3 DEF Settle
<1>5. /\ UploadTypes /\ QueueFits(upload, pending, active)
      /\ pending # <<>> => active = Concurrency
      /\ Controls(upload, controllers, taken, FormOf(wizard))
      /\ wizard.step \in {"Customize", "Review"} => Submittable
  BY DEF UploadInv, QueueInv, ControlInv, RowInv
<1>6. /\ upload \in [Uploads -> UploadState] /\ pending \in Seq(Uploads) /\ active \in Nat
      /\ active \in 0..Concurrency /\ Concurrency \in Nat /\ taken \in SUBSET Photos
      /\ controllers \in [Photos -> Uploads \cup {None}]
  BY <1>5, Apart DEF UploadTypes
<1>7. /\ u \in [Uploads -> UploadState]
      /\ upload[a].here => active - 1 \in Nat /\ QueueFits(u, pending, active - 1)
      /\ ~upload[a].here => QueueFits(u, pending, active)
  BY <1>2, <1>5, <1>6, SettleFits
<1>8. u[a].pc = "idle" /\ \A b \in Uploads : b # a => u[b] = upload[b]
  BY <1>2, <1>6 DEF NoUpload
<1>9. /\ c \in [Photos -> Uploads \cup {None}]
      /\ \A p \in Photos : c[p] # None => c[p] = controllers[p] /\ c[p] # a
      /\ \A p \in Photos : controllers[p] # a => c[p] = controllers[p]
  BY <1>3, <1>6
<1>10. Controls(u, c, taken, FormOf(wizard))
  <2>1. ASSUME NEW p \in Photos, c[p] # None
        PROVE  u[c[p]].pc # "idle" /\ u[c[p]].photo = p /\ u[c[p]].here
    <3>1. PICK b \in Uploads : b = c[p] /\ b = controllers[p] /\ b # a
      BY <1>9, <2>1
    <3> QED BY <1>5, <1>8, <2>1, <3>1 DEF Controls
  <2>2. ASSUME NEW b \in Uploads, u[b].pc # "idle"
        PROVE  /\ u[b].photo \in taken \ Originals
               /\ ~u[b].aborted => c[u[b].photo] = b
               /\ u[b].here => FormOf(wizard) = "Photos"
    <3>1. b # a /\ u[b] = upload[b]
      BY <1>8, <2>2
    <3>2. /\ upload[b].photo \in taken \ Originals
          /\ ~upload[b].aborted => controllers[upload[b].photo] = b
          /\ upload[b].here => FormOf(wizard) = "Photos"
      BY <1>5, <2>2, <3>1 DEF Controls
    <3> QED BY <1>6, <1>9, <3>1, <3>2
  <2> QED BY <2>1, <2>2 DEF Controls
<1>11. RowsFit(r, c, asset', deletes, taken)
  BY <1>9 DEF RowsFit, RowFits
<1>12. CASE upload[a].here
  <2>1. e = Drained(pending, active - 1)
    BY <1>1, <1>12 DEF ThisMount, AfterSettled
  <2>2. Len(pending) <= 1 \/ Concurrency <= (active - 1) + 1
    <3>1. CASE pending = <<>>
      <4>1. Len(pending) = 0
        BY <3>1
      <4> QED BY <4>1
    <3>2. CASE pending # <<>>
      BY <1>5, <1>6, <3>2
    <3> QED BY <3>1, <3>2
  <2>3. PICK n \in Nat : n = active - 1
    BY <1>7, <1>12
  <2>4. QueueFits(u, pending, n) /\ e = Drained(pending, n) /\ (Len(pending) <= 1 \/ Concurrency <= n + 1)
    BY <1>7, <1>12, <2>1, <2>2, <2>3
  <2>5. /\ upload' \in [Uploads -> UploadState] /\ pending' \in Seq(Uploads)
        /\ active' \in 0..Concurrency /\ photos' \in [Photos -> Row]
        /\ QueueFits(upload', pending', active')
        /\ pending' # <<>> => active' = Concurrency
        /\ Controls(upload', c, taken, FormOf(wizard))
        /\ RowsFit(photos', c, asset', deletes, taken)
    BY <1>4, <1>6, <1>7, <1>9, <1>10, <1>11, <2>4, DrainKeeps
  <2>6. FormOf(wizard) = "Photos"
    BY <1>5, <1>12 DEF Controls
  <2>7. UploadTypes'
    BY <1>4, <1>5, <1>9, <2>5 DEF UploadTypes
  <2>8. QueueInv' /\ ControlInv'
    BY <1>4, <2>5 DEF QueueInv, ControlInv
  <2>9. RowInv'
    BY <1>4, <2>5, <2>6, FormFacts DEF RowInv
  <2> QED BY <2>7, <2>8, <2>9 DEF UploadInv
<1>13. CASE ~upload[a].here
  <2>1. e.queue = pending /\ e.active = active /\ e.started = {}
    BY <1>1, <1>13 DEF ThisMount
  <2>2. Begin(u, {}) = u /\ Preparing(r, u, {}) = r
    <3>1. \A p \in Photos : Preparing(r, u, {})[p] = r[p]
      BY DEF Preparing
    <3>2. Preparing(r, u, {}) = [p \in Photos |-> Preparing(r, u, {})[p]]
      BY DEF Preparing
    <3>3. Begin(u, {}) = u
      BY <1>7 DEF Begin
    <3> QED BY <3>1, <3>2, <3>3
  <2>3. upload' = u /\ pending' = pending /\ active' = active /\ photos' = r
    BY <1>4, <2>1, <2>2
  <2>4. UploadTypes'
    BY <1>4, <1>5, <1>7, <1>9, <2>3 DEF UploadTypes
  <2>5. QueueInv' /\ ControlInv'
    BY <1>4, <1>5, <1>7, <1>10, <1>13, <2>3 DEF QueueInv, ControlInv
  <2>6. wizard.step \in {"Customize", "Review"} => Submittable'
    <3>1. CASE FormOf(wizard) = "Photos"
      BY <3>1, FormFacts
    <3>2. CASE FormOf(wizard) # "Photos"
      BY <1>5, <2>3, <3>2 DEF Submittable, Chosen, Listed
    <3> QED BY <3>1, <3>2
  <2>7. RowInv'
    BY <1>4, <1>11, <2>3, <2>6 DEF RowInv
  <2> QED BY <2>4, <2>5, <2>7 DEF UploadInv
<1> QED BY <1>12, <1>13

(* Assets that were stored stay so: the rows go on to fit.                 *)
LEMMA RowsStand ==
  ASSUME RowsFit(photos, controllers, asset, deletes, taken), NEW s,
         \A x \in Photos : asset[x] = "UPLOADED" => s[x] = "UPLOADED"
  PROVE  RowsFit(photos, controllers, s, deletes, taken)
BY DEF RowsFit, RowFits

(* An upload reports to a row of the open step.                            *)
LEMMA ReportFits ==
  ASSUME UploadInv, NEW a \in Uploads, upload[a].pc # "idle", Current(a),
         NEW row \in Row, row.status \notin {"NONE", "REMOVING"}, NEW s,
         \A x \in Photos : asset[x] = "UPLOADED" => s[x] = "UPLOADED",
         row.status = "UPLOADED" => s[upload[a].photo] = "UPLOADED",
         NEW r, r = Updated(upload[a].photo, row)
  PROVE  /\ r \in [Photos -> Row] /\ RowsFit(r, controllers, s, deletes, taken)
         /\ FormOf(wizard) = "Photos"
<1>1. PICK p : p = upload[a].photo
  OBVIOUS
<1>2. /\ Controls(upload, controllers, taken, FormOf(wizard)) /\ photos \in [Photos -> Row]
      /\ RowsFit(photos, controllers, asset, deletes, taken) /\ taken \subseteq Photos
  BY DEF UploadInv, ControlInv, RowInv, UploadTypes
<1>3. p \in taken \ Originals /\ p \in Photos /\ controllers[p] = a /\ a # None
  BY <1>1, <1>2, Apart DEF Controls, Current
<1>4. FormOf(wizard) = "Photos"
  BY <1>1, <1>2, <1>3 DEF Controls
<1>5. /\ r \in [Photos -> Row] /\ r[p] = row
      /\ \A x \in Photos : x # p => r[x] = photos[x]
  <2>1. RowFits(p, photos[p], controllers[p] # None, asset, deletes, taken)
    BY <1>2, <1>3 DEF RowsFit
  <2>2. p \in Listed
    BY <1>3, <2>1 DEF RowFits, Listed
  <2>3. r = [photos EXCEPT ![p] = row]
    BY <1>1, <2>2 DEF Updated
  <2> QED BY <1>2, <1>3, <2>3
<1>6. RowsFit(photos, controllers, s, deletes, taken)
  BY <1>2, RowsStand
<1>7. ASSUME NEW x \in Photos
      PROVE  RowFits(x, r[x], controllers[x] # None, s, deletes, taken)
  <2>1. RowFits(x, photos[x], controllers[x] # None, s, deletes, taken)
    BY <1>6 DEF RowsFit
  <2>2. CASE x = p
    BY <1>1, <1>3, <1>5, <2>1, <2>2 DEF RowFits
  <2>3. CASE x # p
    BY <1>5, <2>1, <2>3
  <2> QED BY <2>2, <2>3
<1> QED BY <1>4, <1>5, <1>7 DEF RowsFit

(* A rejected upload.                                                      *)
LEMMA RejectedFits ==
  ASSUME UploadInv, NEW a \in Uploads, upload[a].pc # "idle", NEW s,
         \A x \in Photos : asset[x] = "UPLOADED" => s[x] = "UPLOADED",
         NEW r, r = Rejected(a)
  PROVE  /\ r \in [Photos -> Row] /\ RowsFit(r, controllers, s, deletes, taken)
         /\ FormOf(wizard) # "Photos" => r = photos
<1>1. /\ Controls(upload, controllers, taken, FormOf(wizard)) /\ photos \in [Photos -> Row]
      /\ RowsFit(photos, controllers, asset, deletes, taken) /\ taken \subseteq Photos
  BY DEF UploadInv, ControlInv, RowInv, UploadTypes
<1>2. CASE upload[a].aborted
  <2>1. r = photos
    BY <1>2 DEF Rejected
  <2>2. RowsFit(photos, controllers, s, deletes, taken)
    BY <1>1, RowsStand
  <2> QED BY <1>1, <2>1, <2>2
<1>3. CASE ~upload[a].aborted
  <2>1. PICK row : row = [photos[upload[a].photo] EXCEPT !.status = "FAILED", !.error = TRUE]
    OBVIOUS
  <2>2. upload[a].photo \in Photos /\ Current(a)
    BY <1>1, <1>3 DEF Controls, Current
  <2>3. row \in Row /\ row.status = "FAILED"
    BY <1>1, <2>1, <2>2 DEF Row
  <2>4. r = Updated(upload[a].photo, row)
    BY <1>3, <2>1 DEF Rejected
  <2>5. /\ r \in [Photos -> Row] /\ RowsFit(r, controllers, s, deletes, taken)
        /\ FormOf(wizard) = "Photos"
    BY <2>2, <2>3, <2>4, ReportFits
  <2> QED BY <2>5
<1> QED BY <1>2, <1>3

(* An upload that goes on, reporting where it is.                          *)
LEMMA ProgressKeeps ==
  ASSUME UploadInv, NEW a \in Uploads, upload[a].pc \notin {"idle", "waiting"},
         NEW pc \in {"put", "unsent", "commit"}, NEW status \in {"UPLOADING", "FINALIZING"},
         upload' = [upload EXCEPT ![a].pc = pc], photos' = Reported(a, status),
         UNCHANGED <<wizard, taken, controllers, pending, active, asset, deletes>>
  PROVE  UploadInv'
<1>1. /\ UploadTypes /\ QueueFits(upload, pending, active)
      /\ pending # <<>> => active = Concurrency
      /\ Controls(upload, controllers, taken, FormOf(wizard))
      /\ RowsFit(photos, controllers, asset, deletes, taken)
      /\ wizard.step \in {"Customize", "Review"} => Submittable
  BY DEF UploadInv, QueueInv, ControlInv, RowInv
<1>2. upload \in [Uploads -> UploadState] /\ photos \in [Photos -> Row]
  BY <1>1 DEF UploadTypes
<1>3. PICK w : w = [upload EXCEPT ![a].pc = pc]
  OBVIOUS
<1>4. /\ w \in [Uploads -> UploadState] /\ QueueFits(w, pending, active)
      /\ \A b \in Uploads : /\ w[b].photo = upload[b].photo /\ w[b].here = upload[b].here
                            /\ w[b].aborted = upload[b].aborted
                            /\ w[b].pc = "idle" <=> upload[b].pc = "idle"
  <2>1. Moved(upload, w, pending, active)
    BY <1>1, <1>2, <1>3, ProgressFits, Zenon
  <2> QED BY <2>1 DEF Moved
<1>5. controllers \in [Photos -> Uploads \cup {None}]
  BY <1>1 DEF UploadTypes
<1>6. Controls(w, controllers, taken, FormOf(wizard))
  <2>1. ASSUME NEW p \in Photos, controllers[p] # None
        PROVE  w[controllers[p]].pc # "idle" /\ w[controllers[p]].photo = p /\ w[controllers[p]].here
    BY <1>1, <1>4, <1>5, <2>1 DEF Controls
  <2>2. ASSUME NEW b \in Uploads, w[b].pc # "idle"
        PROVE  /\ w[b].photo \in taken \ Originals
               /\ ~w[b].aborted => controllers[w[b].photo] = b
               /\ w[b].here => FormOf(wizard) = "Photos"
    BY <1>1, <1>4, <2>2 DEF Controls
  <2> QED BY <2>1, <2>2 DEF Controls
<1>7. /\ photos' \in [Photos -> Row] /\ RowsFit(photos', controllers, asset, deletes, taken)
      /\ FormOf(wizard) # "Photos" => photos' = photos
  <2>1. CASE Current(a)
    <3>1. PICK row : row = [photos[upload[a].photo] EXCEPT !.status = status]
      OBVIOUS
    <3>2. upload[a].photo \in Photos
      BY <1>1 DEF Controls, UploadTypes
    <3>3. row \in Row /\ row.status = status
      BY <1>2, <3>1, <3>2 DEF Row
    <3>4. PICK r : r = Updated(upload[a].photo, row)
      OBVIOUS
    <3>5. r \in [Photos -> Row] /\ RowsFit(r, controllers, asset, deletes, taken)
          /\ FormOf(wizard) = "Photos"
      BY <2>1, <3>3, <3>4, ReportFits
    <3>6. photos' = r
      BY <2>1, <3>1, <3>4 DEF Reported
    <3> QED BY <3>5, <3>6
  <2>2. CASE ~Current(a)
    BY <1>1, <1>2, <2>2 DEF Reported
  <2> QED BY <2>1, <2>2
<1>8. wizard.step \in {"Customize", "Review"} => Submittable'
  <2>1. CASE FormOf(wizard) = "Photos"
    BY <2>1, FormFacts
  <2>2. CASE FormOf(wizard) # "Photos"
    BY <1>1, <1>7, <2>2 DEF Submittable, Chosen, Listed
  <2> QED BY <2>1, <2>2
<1>9. upload' = w
  BY <1>3
<1>10. UploadTypes'
  BY <1>1, <1>4, <1>7, <1>9 DEF UploadTypes
<1>11. QueueInv' /\ ControlInv' /\ RowInv'
  BY <1>1, <1>4, <1>6, <1>7, <1>8, <1>9 DEF QueueInv, ControlInv, RowInv
<1> QED BY <1>10, <1>11 DEF UploadInv

(* The step unmounts.                                                      *)
LEMMA UnmountKeeps ==
  ASSUME UploadInv, Unmount, UNCHANGED <<taken, asset, deletes>>,
         photos' = photos \/ photos' = [p \in Photos |-> NoRow],
         wizard'.step \in {"Customize", "Review"} => Submittable'
  PROVE  UploadInv'
<1>1. /\ UploadTypes /\ Controls(upload, controllers, taken, FormOf(wizard))
      /\ RowsFit(photos, controllers, asset, deletes, taken)
  BY DEF UploadInv, QueueInv, ControlInv, RowInv
<1>2. ASSUME NEW a \in Uploads
      PROVE  /\ Aborted[a] \in UploadState /\ Aborted[a].pc # "waiting" /\ ~Aborted[a].here
             /\ Aborted[a].pc # "idle" => /\ Aborted[a].aborted /\ upload[a].pc # "idle"
                                          /\ Aborted[a].photo = upload[a].photo
  <2>1. upload[a] \in UploadState /\ NoUpload \in UploadState
    BY <1>1 DEF UploadTypes, NoUpload, UploadState
  <2>2. CASE upload[a].pc = "waiting"
    <3>1. Aborted[a] = NoUpload
      BY <2>2 DEF Aborted
    <3> QED BY <2>1, <3>1 DEF NoUpload
  <2>3. CASE upload[a].pc # "waiting"
    <3> DEFINE told == upload[a].aborted
                         \/ (upload[a].pc # "idle" /\ controllers[upload[a].photo] = a)
    <3>1. told \in BOOLEAN
      BY <2>1 DEF UploadState
    <3>2. upload[a].pc # "idle" => told
      BY <1>1 DEF Controls
    <3>3. Aborted[a] = [upload[a] EXCEPT !.here = FALSE, !.aborted = told]
      BY <2>3 DEF Aborted
    <3> HIDE DEF told
    <3>4. /\ Aborted[a] \in UploadState /\ Aborted[a].pc = upload[a].pc /\ ~Aborted[a].here
          /\ Aborted[a].aborted = told /\ Aborted[a].photo = upload[a].photo
      BY <2>1, <3>1, <3>3 DEF UploadState
    <3> QED BY <2>3, <3>2, <3>4
  <2> QED BY <2>2, <2>3
<1>3. /\ upload' = Aborted /\ controllers' = [p \in Photos |-> None] /\ pending' = <<>>
      /\ active' = 0
  BY DEF Unmount
<1>4. upload' \in [Uploads -> UploadState]
  <2>1. Aborted = [a \in Uploads |-> Aborted[a]]
    BY DEF Aborted
  <2> QED BY <1>2, <1>3, <2>1
<1>5. /\ controllers' \in [Photos -> Uploads \cup {None}] /\ \A p \in Photos : controllers'[p] = None
  BY <1>3
<1>6. pending' \in Seq(Uploads) /\ Len(pending') = 0 /\ active' \in 0..Concurrency
  <2>1. pending' = <<>> /\ active' = 0 /\ Concurrency \in Nat
    BY <1>3, Apart
  <2> QED BY <2>1
<1>7. photos' \in [Photos -> Row]
  <2>1. photos \in [Photos -> Row] /\ NoRow \in Row
    BY <1>1 DEF UploadTypes, NoRow, Row
  <2> QED BY <2>1
<1>8. UploadTypes'
  BY <1>1, <1>4, <1>5, <1>6, <1>7 DEF UploadTypes
<1>9. QueueFits(upload', pending', active')
  <2>1. Held(upload') = {}
    BY <1>2, <1>3 DEF Held
  <2>2. IsFiniteSet(Held(upload')) /\ active' = Cardinality(Held(upload'))
    BY <1>3, <2>1, FS_EmptySet
  <2>3. \A i : i \notin 1..Len(pending')
    BY <1>6
  <2>4. \A a \in Uploads : upload'[a].pc # "waiting"
    BY <1>2, <1>3
  <2>5. active' <= Concurrency
    BY <1>3, Apart
  <2> QED BY <2>2, <2>3, <2>4, <2>5 DEF QueueFits
<1>10. QueueInv'
  BY <1>3, <1>9 DEF QueueInv
<1>11. Controls(upload', controllers', taken', FormOf(wizard'))
  <2>1. ASSUME NEW a \in Uploads, upload'[a].pc # "idle"
        PROVE  /\ upload'[a].photo \in taken' \ Originals
               /\ upload'[a].aborted /\ ~upload'[a].here
    BY <1>1, <1>2, <1>3, <2>1 DEF Controls
  <2> QED BY <1>5, <2>1 DEF Controls
<1>12. RowsFit(photos', controllers', asset', deletes', taken')
  <2>1. ASSUME NEW p \in Photos
        PROVE  RowFits(p, photos'[p], FALSE, asset, deletes, taken)
    <3>1. RowFits(p, photos[p], controllers[p] # None, asset, deletes, taken)
      BY <1>1 DEF RowsFit
    <3>2. photos'[p] = photos[p] \/ photos'[p] = NoRow
      OBVIOUS
    <3> QED BY <3>1, <3>2 DEF RowFits, NoRow
  <2> QED BY <1>5, <2>1 DEF RowsFit
<1> QED BY <1>8, <1>10, <1>11, <1>12 DEF UploadInv, ControlInv, RowInv

(* Steps that leave the uploads alone.                                     *)
LEMMA RowsOnly ==
  ASSUME UploadInv, UNCHANGED <<taken, queue>>, photos' \in [Photos -> Row],
         FormOf(wizard) = "Photos" => FormOf(wizard') = "Photos", deletes' \subseteq Photos,
         asset' \in [Photos -> {"PENDING_UPLOAD", "UPLOADED", "INVALID", "DELETED"}],
         RowsFit(photos', controllers, asset', deletes', taken),
         wizard'.step \in {"Customize", "Review"} => Submittable'
  PROVE  UploadInv'
<1>1. UploadTypes'
  BY DEF UploadInv, UploadTypes, queue
<1>2. QueueInv'
  BY DEF UploadInv, QueueInv, QueueFits, Held, queue
<1>3. ControlInv'
  BY DEF UploadInv, ControlInv, Controls, queue
<1>4. RowInv'
  BY DEF RowInv, queue
<1> QED BY <1>1, <1>2, <1>3, <1>4 DEF UploadInv

LEMMA UploadsSame ==
  ASSUME UploadInv, UNCHANGED <<photos, taken, queue, asset, deletes>>,
         FormOf(wizard) = "Photos" => FormOf(wizard') = "Photos",
         wizard'.step \in {"Customize", "Review"} => wizard.step \in {"Customize", "Review"}
  PROVE  UploadInv'
<1>1. /\ photos' \in [Photos -> Row] /\ deletes' \subseteq Photos
      /\ asset' \in [Photos -> {"PENDING_UPLOAD", "UPLOADED", "INVALID", "DELETED"}]
      /\ RowsFit(photos', controllers, asset', deletes', taken)
  BY DEF UploadInv, UploadTypes, RowInv
<1>2. wizard'.step \in {"Customize", "Review"} => Submittable'
  BY DEF UploadInv, RowInv, Submittable, Chosen, Listed
<1> QED BY <1>1, <1>2, RowsOnly
-----------------------------------------------------------------------------
(* The photos step, an action at a time.                                   *)
LEMMA PhotoFacts ==
  ASSUME UploadInv
  PROVE  /\ photos \in [Photos -> Row] /\ Originals \subseteq taken /\ taken \subseteq Photos
         /\ \A p \in Photos : RowFits(p, photos[p], controllers[p] # None, asset, deletes, taken)
         /\ controllers \in [Photos -> Uploads \cup {None}] /\ deletes \subseteq Photos
         /\ asset \in [Photos -> {"PENDING_UPLOAD", "UPLOADED", "INVALID", "DELETED"}]
<1>1. /\ \A p \in Photos : RowFits(p, photos[p], controllers[p] # None, asset, deletes, taken)
      /\ UploadTypes
  BY DEF UploadInv, RowInv, RowsFit
<1>2. Originals \subseteq taken
  BY <1>1, Apart DEF RowFits
<1> QED BY <1>1, <1>2 DEF UploadTypes

LEMMA AddPhotoKeeps ==
  ASSUME UploadInv, wizard \in Wizard, NEW p \in Photos, NEW a \in Uploads, AddPhoto(p, a)
  PROVE  UploadInv'
<1>1. /\ FormOf(wizard) = "Photos" /\ p \notin taken /\ taken' = taken \cup {p}
      /\ StartUpload(p, a, [photos EXCEPT ![p] = NewRow])
      /\ UNCHANGED <<wizard, asset, deletes>>
  BY DEF AddPhoto, Fresh, server, Shown
<1>2. PICK r : r = [photos EXCEPT ![p] = NewRow]
  OBVIOUS
<1>3. /\ r \in [Photos -> Row] /\ r[p].status = "SELECTED"
      /\ \A x \in Photos : x # p => r[x] = photos[x]
  BY <1>2, PhotoFacts DEF NewRow, Row
<1>4. p \in Photos \ Originals /\ p \notin deletes
  BY <1>1, PhotoFacts DEF RowFits
<1>5. StartUpload(p, a, r)
  BY <1>1, <1>2
<1> QED BY <1>1, <1>3, <1>4, <1>5, StartKeeps

LEMMA RetryKeeps ==
  ASSUME UploadInv, wizard \in Wizard, NEW p \in Photos, NEW a \in Uploads, Retry(p, a)
  PROVE  UploadInv'
<1>1. /\ FormOf(wizard) = "Photos" /\ photos[p].status = "FAILED"
      /\ StartUpload(p, a, photos)
      /\ UNCHANGED <<wizard, taken, asset, deletes>>
  BY DEF Retry, server, Shown
<1>2. photos \in [Photos -> Row]
  BY PhotoFacts
<1>4. RowFits(p, photos[p], controllers[p] # None, asset, deletes, taken)
  BY PhotoFacts
<1>5. p \in Photos \ Originals /\ p \notin deletes /\ p \in taken
  BY <1>1, <1>4 DEF RowFits
<1>6. taken' = taken \cup {p}
  BY <1>1, <1>5
<1> QED BY <1>1, <1>2, <1>5, <1>6, StartKeeps

LEMMA ReplaceKeeps ==
  ASSUME UploadInv, wizard \in Wizard, NEW p \in Photos, NEW q \in Photos, NEW a \in Uploads, Replace(p, q, a)
  PROVE  UploadInv'
<1>1. /\ FormOf(wizard) = "Photos" /\ p \in Broken /\ q \notin taken /\ taken' = taken \cup {q}
      /\ StartUpload(q, a, [photos EXCEPT ![p] = NoRow, ![q] = NewRow])
      /\ UNCHANGED <<wizard, asset, deletes>>
  BY DEF Replace, Fresh, server, Shown
<1>2. PICK r : r = [photos EXCEPT ![p] = NoRow, ![q] = NewRow]
  OBVIOUS
<1>3. p \in Originals /\ p # q
  BY <1>1, Apart, PhotoFacts
<1>4. NoRow \in Row /\ NewRow \in Row /\ NewRow.status = "SELECTED"
  BY DEF NoRow, NewRow, Row
<1>5. /\ r \in [Photos -> Row] /\ r[q] = NewRow /\ r[p] = NoRow
      /\ \A x \in Photos : x # p /\ x # q => r[x] = photos[x]
  BY <1>2, <1>3, <1>4, PhotoFacts
<1>6. q \in Photos \ Originals /\ q \notin deletes
  BY <1>1, PhotoFacts DEF RowFits
<1>7. StartUpload(q, a, r)
  BY <1>1, <1>2
<1>8. \A x \in Photos : x # q => r[x] = photos[x] \/ (x \in Originals /\ r[x] = NoRow)
  BY <1>3, <1>5
<1>9. r[q].status \in {"SELECTED", "FAILED"}
  BY <1>4, <1>5
<1> QED BY <1>1, <1>5, <1>6, <1>7, <1>8, <1>9, StartKeeps

LEMMA ToggleKeeps ==
  ASSUME UploadInv, NEW p \in Photos, Toggle(p)
  PROVE  UploadInv'
<1>1. /\ FormOf(wizard) = "Photos" /\ photos' = [photos EXCEPT ![p].selected = ~@]
      /\ UNCHANGED <<wizard, taken, queue, asset, deletes>>
  BY DEF Toggle, server, Shown
<1> DEFINE b == ~photos[p].selected
<1>2. photos[p] \in Row /\ b \in BOOLEAN
  BY PhotoFacts
<1>3. photos' = [photos EXCEPT ![p].selected = b]
  BY <1>1
<1> HIDE DEF b
<1>4. PICK row : row = [photos[p] EXCEPT !.selected = b]
  OBVIOUS
<1>5. row \in Row /\ row.status = photos[p].status /\ row.error = photos[p].error
  BY <1>2, <1>4 DEF Row
<1>6. photos' = [photos EXCEPT ![p] = row]
  BY <1>3, <1>4
<1>7. photos' \in [Photos -> Row] /\ \A x \in Photos : /\ photos'[x].status = photos[x].status
                                                      /\ photos'[x].error = photos[x].error
  BY <1>5, <1>6, PhotoFacts
<1>8. RowsFit(photos', controllers, asset', deletes', taken)
  BY <1>1, <1>7, PhotoFacts DEF RowsFit, RowFits
<1>9. deletes' \subseteq Photos
      /\ asset' \in [Photos -> {"PENDING_UPLOAD", "UPLOADED", "INVALID", "DELETED"}]
  BY <1>1, PhotoFacts
<1>10. wizard'.step \notin {"Customize", "Review"} /\ FormOf(wizard') = "Photos"
  BY <1>1, FormFacts
<1> QED BY <1>1, <1>7, <1>8, <1>9, <1>10, RowsOnly

LEMMA RemoveKeeps ==
  ASSUME UploadInv, NEW p \in Photos, Remove(p)
  PROVE  UploadInv'
<1> DEFINE kept == photos[p].status = "UPLOADED" /\ photos[p].asset /\ p \notin Originals
           row == IF kept THEN [photos[p] EXCEPT !.error = FALSE, !.status = "REMOVING"]
                  ELSE NoRow
<1>1. /\ FormOf(wizard) = "Photos" /\ photos[p].status \notin {"NONE", "REMOVING"}
      /\ upload' = Cancelled(Previous(p)) /\ pending' = Without(pending, Previous(p))
      /\ controllers' = [controllers EXCEPT ![p] = None] /\ photos' = [photos EXCEPT ![p] = row]
      /\ deletes' = (IF kept THEN deletes \cup {p} ELSE deletes)
      /\ UNCHANGED <<wizard, taken, active, asset>>
  BY DEF Remove, Listed, server, Shown
<1>2. /\ UploadTypes /\ QueueFits(upload, pending, active)
      /\ pending # <<>> => active = Concurrency
      /\ Controls(upload, controllers, taken, "Photos")
  BY <1>1 DEF UploadInv, QueueInv, ControlInv
<1>3. PICK w : w = Cancelled(Previous(p))
  OBVIOUS
<1>4. PICK z : z = Without(pending, Previous(p))
  OBVIOUS
<1>5. /\ w \in [Uploads -> UploadState] /\ z \in Seq(Uploads) /\ Len(z) <= Len(pending)
      /\ QueueFits(w, z, active)
      /\ \A b \in Uploads : b # controllers[p] => w[b] = upload[b]
      /\ \A b \in Uploads : b = controllers[p] =>
              /\ w[b].pc = "idle" \/ w[b].aborted
              /\ w[b].pc # "idle" => /\ w[b].photo = upload[b].photo
                                     /\ w[b].here = upload[b].here
                                     /\ upload[b].pc # "idle"
  BY <1>2, <1>3, <1>4, CancelFits
<1>6. upload' = w /\ pending' = z
  BY <1>1, <1>3, <1>4
<1>7. photos[p] \in Row /\ kept \in BOOLEAN
  BY PhotoFacts
<1>8. row \in Row /\ (kept => row.status = "REMOVING") /\ (~kept => row.status = "NONE")
  <2>1. CASE kept
    <3>1. row = [photos[p] EXCEPT !.error = FALSE, !.status = "REMOVING"]
      BY <2>1
    <3> HIDE DEF row, kept
    <3> QED BY <1>7, <2>1, <3>1 DEF Row
  <2>2. CASE ~kept
    BY <2>2 DEF NoRow, Row
  <2> QED BY <2>1, <2>2
<1>9. kept => p \notin Originals
  OBVIOUS
<1> HIDE DEF kept, row
<1>10. /\ photos' \in [Photos -> Row] /\ photos'[p] = row
       /\ \A x \in Photos : x # p => photos'[x] = photos[x]
  BY <1>1, <1>8, PhotoFacts
<1>11. /\ controllers' \in [Photos -> Uploads \cup {None}] /\ controllers'[p] = None
       /\ \A x \in Photos : x # p => controllers'[x] = controllers[x]
  BY <1>1, PhotoFacts
<1>12. z # <<>> => active = Concurrency
  <2>1. z # <<>> => pending # <<>>
    <3>1. z # <<>> => Len(z) > 0
      BY <1>5, EmptySeq
    <3>2. pending = <<>> => Len(pending) = 0
      OBVIOUS
    <3>3. Len(z) \in Nat
      BY <1>5, LenProperties
    <3> QED BY <1>5, <3>1, <3>2, <3>3
  <2> QED BY <1>2, <2>1
<1>13. QueueInv'
  BY <1>1, <1>5, <1>6, <1>12 DEF QueueInv
<1>14. Controls(w, controllers', taken, "Photos")
  <2>1. ASSUME NEW x \in Photos, controllers'[x] # None
        PROVE  /\ w[controllers'[x]].pc # "idle" /\ w[controllers'[x]].photo = x
               /\ w[controllers'[x]].here
    <3>1. x # p
      BY <1>11, <2>1
    <3>2. PICK b \in Uploads : b = controllers'[x] /\ b = controllers[x]
      BY <1>2, <1>11, <2>1, <3>1 DEF UploadTypes
    <3>3. upload[b].pc # "idle" /\ upload[b].photo = x /\ upload[b].here
      BY <1>2, <2>1, <3>2 DEF Controls
    <3>4. b # controllers[p]
      BY <1>2, <3>1, <3>3, Apart DEF Controls
    <3> QED BY <1>5, <3>2, <3>3, <3>4
  <2>2. ASSUME NEW b \in Uploads, w[b].pc # "idle"
        PROVE  /\ w[b].photo \in taken \ Originals
               /\ ~w[b].aborted => controllers'[w[b].photo] = b
    <3>1. CASE b = controllers[p]
      BY <1>2, <1>5, <2>2, <3>1 DEF Controls
    <3>2. CASE b # controllers[p]
      <4>1. w[b] = upload[b]
        BY <1>5, <3>2
      <4>2. /\ upload[b].photo \in taken \ Originals
            /\ ~upload[b].aborted => controllers[upload[b].photo] = b
        BY <1>2, <2>2, <4>1 DEF Controls
      <4>3. upload[b].photo \in Photos
        BY <1>2, <4>2 DEF UploadTypes
      <4>4. ~upload[b].aborted => upload[b].photo # p
        BY <3>2, <4>2
      <4> QED BY <1>11, <4>1, <4>2, <4>3, <4>4
    <3> QED BY <3>1, <3>2
  <2> QED BY <2>1, <2>2 DEF Controls
<1>15. RowsFit(photos', controllers', asset, deletes', taken)
  <2>1. ASSUME NEW x \in Photos
        PROVE  RowFits(x, photos'[x], controllers'[x] # None, asset, deletes', taken)
    <3>1. RowFits(x, photos[x], controllers[x] # None, asset, deletes, taken)
      BY PhotoFacts
    <3>2. CASE x # p
      <4>1. photos'[x] = photos[x] /\ controllers'[x] = controllers[x]
        BY <1>10, <1>11, <3>2
      <4>2. x \in deletes' <=> x \in deletes
        BY <1>1, <3>2
      <4> QED BY <3>1, <4>1, <4>2 DEF RowFits
    <3>3. CASE x = p
      <4>1. x \in taken
        BY <1>1, <3>1, <3>3 DEF RowFits
      <4>2. photos'[x] = row /\ controllers'[x] = None
        BY <1>10, <1>11, <3>3
      <4>3. CASE kept
        BY <1>8, <1>9, <3>3, <4>1, <4>2, <4>3 DEF RowFits
      <4>4. CASE ~kept
        <5>1. deletes' = deletes /\ row.status = "NONE"
          BY <1>1, <1>8, <4>4
        <5> QED BY <3>1, <4>1, <4>2, <5>1 DEF RowFits
      <4> QED BY <4>3, <4>4
    <3> QED BY <3>2, <3>3
  <2> QED BY <2>1 DEF RowsFit
<1>16. ControlInv'
  BY <1>1, <1>6, <1>14 DEF ControlInv
<1>17. RowInv'
  BY <1>1, <1>15, FormFacts DEF RowInv
<1>18. UploadTypes'
  BY <1>1, <1>2, <1>5, <1>6, <1>10, <1>11 DEF UploadTypes
<1> QED BY <1>13, <1>16, <1>17, <1>18 DEF UploadInv

LEMMA DeleteHandledKeeps ==
  ASSUME UploadInv, NEW p \in Photos, DeleteHandled(p)
  PROVE  UploadInv'
<1>1. /\ p \in deletes /\ deletes' = deletes \ {p} /\ photos' = photos
      /\ UNCHANGED <<wizard, taken, queue>>
  BY DEF DeleteHandled
<1>2. asset' \in [Photos -> {"PENDING_UPLOAD", "UPLOADED", "INVALID", "DELETED"}]
      /\ \A x \in Photos : x # p => asset'[x] = asset[x]
  BY PhotoFacts DEF DeleteHandled
<1>3. RowsFit(photos', controllers, asset', deletes', taken)
  <2>1. ASSUME NEW x \in Photos
        PROVE  RowFits(x, photos'[x], controllers[x] # None, asset', deletes', taken)
    <3>1. RowFits(x, photos[x], controllers[x] # None, asset, deletes, taken)
      BY PhotoFacts
    <3>2. CASE x # p
      <4>1. photos'[x] = photos[x] /\ asset'[x] = asset[x] /\ (x \in deletes' <=> x \in deletes)
        BY <1>1, <1>2, <3>2
      <4> QED BY <3>1, <4>1 DEF RowFits
    <3>3. CASE x = p
      BY <1>1, <3>1, <3>3 DEF RowFits
    <3> QED BY <3>2, <3>3
  <2> QED BY <2>1 DEF RowsFit
<1>4. wizard'.step \in {"Customize", "Review"} => Submittable'
  BY <1>1 DEF UploadInv, RowInv, Submittable, Chosen, Listed
<1>5. photos' \in [Photos -> Row] /\ deletes' \subseteq Photos
  BY <1>1, PhotoFacts
<1> QED BY <1>1, <1>2, <1>3, <1>4, <1>5, RowsOnly

(* A removal's end changes a row that cannot be submitted as it is.        *)
LEMMA RemovalEndKeeps ==
  ASSUME UploadInv, NEW p \in Photos, photos[p].status = "REMOVING", NEW row \in Row,
         row.status = "NONE" \/ (/\ row.status = "UPLOADED" /\ row.error
                                 /\ row.selected = photos[p].selected),
         photos' = [photos EXCEPT ![p] = row],
         UNCHANGED <<wizard, taken, queue, asset, deletes>>
  PROVE  UploadInv'
<1>1. /\ photos' \in [Photos -> Row] /\ photos'[p] = row
      /\ \A x \in Photos : x # p => photos'[x] = photos[x]
  BY PhotoFacts
<1>2. RowsFit(photos', controllers, asset', deletes', taken)
  <2>1. ASSUME NEW x \in Photos
        PROVE  RowFits(x, photos'[x], controllers[x] # None, asset, deletes, taken)
    <3>1. RowFits(x, photos[x], controllers[x] # None, asset, deletes, taken)
      BY PhotoFacts
    <3>2. CASE x # p
      BY <1>1, <3>1, <3>2
    <3>3. CASE x = p
      <4>1. x \notin Originals /\ controllers[x] = None /\ x \in taken
        BY <3>1, <3>3 DEF RowFits
      <4> QED BY <1>1, <3>3, <4>1 DEF RowFits
    <3> QED BY <3>2, <3>3
  <2> QED BY <2>1 DEF RowsFit
<1>3. ASSUME wizard'.step \in {"Customize", "Review"}
      PROVE  Submittable'
  <2>1. Submittable
    BY <1>3 DEF UploadInv, RowInv
  <2>2. ~photos[p].selected
    BY <2>1 DEF Submittable, Chosen, Listed
  <2>3. p \notin Chosen /\ p \notin Chosen'
    BY <1>1, <2>2 DEF Chosen, Listed
  <2>4. Chosen' = Chosen
    BY <1>1, <2>3 DEF Chosen, Listed
  <2>5. \A x \in Chosen : photos'[x] = photos[x]
    BY <1>1, <2>3 DEF Chosen, Listed
  <2> QED BY <2>1, <2>4, <2>5 DEF Submittable
<1>4. deletes' \subseteq Photos
      /\ asset' \in [Photos -> {"PENDING_UPLOAD", "UPLOADED", "INVALID", "DELETED"}]
  BY PhotoFacts
<1> QED BY <1>1, <1>2, <1>3, <1>4, RowsOnly

LEMMA RemovalsEndKeep ==
  ASSUME UploadInv, NEW p \in Photos, RemovalAnswered(p) \/ RemovalFails(p)
  PROVE  UploadInv'
<1>1. CASE RemovalAnswered(p)
  <2>1. /\ photos[p].status = "REMOVING" /\ photos' = [photos EXCEPT ![p] = NoRow]
        /\ UNCHANGED <<wizard, taken, queue, asset, deletes>>
    BY <1>1 DEF RemovalAnswered, server
  <2>2. NoRow \in Row /\ NoRow.status = "NONE"
    BY DEF NoRow, Row
  <2> QED BY <2>1, <2>2, RemovalEndKeeps
<1>2. CASE RemovalFails(p)
  <2>1. /\ photos[p].status = "REMOVING"
        /\ photos' = [photos EXCEPT ![p].status = "UPLOADED", ![p].error = TRUE]
        /\ UNCHANGED <<wizard, taken, queue, asset, deletes>>
    BY <1>2 DEF RemovalFails, server
  <2>2. PICK row : row = [photos[p] EXCEPT !.status = "UPLOADED", !.error = TRUE]
    OBVIOUS
  <2>3. photos[p] \in Row
    BY PhotoFacts
  <2>4. row \in Row /\ row.status = "UPLOADED" /\ row.error /\ row.selected = photos[p].selected
    BY <2>2, <2>3 DEF Row
  <2>5. photos' = [photos EXCEPT ![p] = row]
    BY <2>1, <2>2
  <2> QED BY <2>1, <2>4, <2>5, RemovalEndKeeps
<1> QED BY <1>1, <1>2

(* An upload, an action at a time.                                         *)
LEMMA UploadNextKeeps ==
  ASSUME UploadInv, NEW a \in Uploads, UploadNext(a)
  PROVE  UploadInv'
<1>1. /\ Controls(upload, controllers, taken, FormOf(wizard)) /\ upload \in [Uploads -> UploadState]
      /\ RowsFit(photos, controllers, asset, deletes, taken) /\ photos \in [Photos -> Row]
      /\ asset \in [Photos -> {"PENDING_UPLOAD", "UPLOADED", "INVALID", "DELETED"}]
      /\ taken \subseteq Photos
  BY DEF UploadInv, ControlInv, RowInv, UploadTypes
<1>2. upload[a].pc # "idle" => upload[a].photo \in Photos /\ upload[a].photo \notin Originals
  BY <1>1 DEF Controls
<1>3. ASSUME upload[a].pc \notin {"idle", "waiting"}, Settle(a, Rejected(a)), NEW s, asset' = s,
             s \in [Photos -> {"PENDING_UPLOAD", "UPLOADED", "INVALID", "DELETED"}],
             \A x \in Photos : asset[x] = "UPLOADED" => s[x] = "UPLOADED"
      PROVE  UploadInv'
  <2>1. PICK r : r = Rejected(a)
    OBVIOUS
  <2>2. /\ r \in [Photos -> Row] /\ RowsFit(r, controllers, s, deletes, taken)
        /\ FormOf(wizard) # "Photos" => r = photos
    BY <1>3, <2>1, RejectedFits
  <2>3. Settle(a, r)
    BY <1>3, <2>1
  <2> QED BY <1>3, <2>2, <2>3, SettleKeeps
<1>4. CASE IntentAnswered(a)
  <2>1. Sent(a) \in {"put", "unsent", "commit"}
    BY DEF Sent
  <2>2. PICK pc \in {"put", "unsent", "commit"} : pc = Sent(a)
    BY <2>1
  <2>3. /\ upload[a].pc \notin {"idle", "waiting"} /\ upload' = [upload EXCEPT ![a].pc = pc]
        /\ photos' = Reported(a, "UPLOADING")
        /\ UNCHANGED <<wizard, taken, controllers, pending, active, asset, deletes>>
    BY <1>4, <2>2 DEF IntentAnswered, server
  <2> QED BY <2>3, ProgressKeeps
<1>5. CASE PutDone(a)
  <2>1. /\ upload[a].pc \notin {"idle", "waiting"} /\ upload' = [upload EXCEPT ![a].pc = "commit"]
        /\ photos' = Reported(a, "FINALIZING")
        /\ UNCHANGED <<wizard, taken, controllers, pending, active, asset, deletes>>
    BY <1>5 DEF PutDone, server
  <2> QED BY <2>1, ProgressKeeps
<1>6. CASE IntentFails(a) \/ PutFails(a)
  <2>1. upload[a].pc \notin {"idle", "waiting"} /\ Settle(a, Rejected(a)) /\ asset' = asset
    BY <1>6 DEF IntentFails, PutFails
  <2> QED BY <1>1, <1>3, <2>1
<1>7. CASE CommitFails(a)
  <2> DEFINE p == upload[a].photo
             Outcome(status) ==
               [asset EXCEPT ![p] = IF @ = "PENDING_UPLOAD" THEN status ELSE @]
  <2>1. /\ upload[a].pc = "commit" /\ Settle(a, Rejected(a))
        /\ asset' \in {asset, Outcome("UPLOADED"), Outcome("INVALID")}
    BY <1>7 DEF CommitFails
  <2>2. PICK s : s = asset'
    OBVIOUS
  <2>3. ASSUME NEW status \in {"UPLOADED", "INVALID"}
        PROVE  /\ Outcome(status) \in [Photos -> {"PENDING_UPLOAD", "UPLOADED", "INVALID", "DELETED"}]
               /\ \A x \in Photos : asset[x] = "UPLOADED" => Outcome(status)[x] = "UPLOADED"
    BY <1>1, <1>2, <2>1
  <2>4. /\ s \in [Photos -> {"PENDING_UPLOAD", "UPLOADED", "INVALID", "DELETED"}]
        /\ \A x \in Photos : asset[x] = "UPLOADED" => s[x] = "UPLOADED"
    <3> HIDE DEF Outcome
    <3>1. s = asset \/ s = Outcome("UPLOADED") \/ s = Outcome("INVALID")
      BY <2>1, <2>2
    <3> QED BY <1>1, <2>3, <3>1
  <2> QED BY <1>3, <2>1, <2>2, <2>4
<1>8. CASE CommitAnswered(a)
  <2> DEFINE p == upload[a].photo
             row == [photos[p] EXCEPT !.status = "UPLOADED", !.asset = TRUE, !.error = FALSE]
             r == IF Current(a) THEN Updated(p, row) ELSE photos
  <2>1. /\ upload[a].pc = "commit" /\ asset' = [asset EXCEPT ![p] = "UPLOADED"] /\ Settle(a, r)
    BY <1>8 DEF CommitAnswered
  <2>2. p \in Photos
    BY <1>2, <2>1
  <2>3. row \in Row /\ row.status = "UPLOADED"
    <3>1. PICK old \in Row : old = photos[p]
      BY <1>1, <2>2
    <3>2. row = [old EXCEPT !.status = "UPLOADED", !.asset = TRUE, !.error = FALSE]
      BY <3>1
    <3> HIDE DEF row, p, r
    <3> QED BY <3>2 DEF Row
  <2>4. /\ asset' \in [Photos -> {"PENDING_UPLOAD", "UPLOADED", "INVALID", "DELETED"}]
        /\ asset'[p] = "UPLOADED" /\ \A x \in Photos : asset[x] = "UPLOADED" => asset'[x] = "UPLOADED"
    BY <1>1, <2>1, <2>2
  <2>5. PICK s : s = asset'
    OBVIOUS
  <2>6. PICK x : x = row
    OBVIOUS
  <2>7. /\ r \in [Photos -> Row] /\ RowsFit(r, controllers, s, deletes, taken)
        /\ FormOf(wizard) # "Photos" => r = photos
    <3>1. CASE Current(a)
      <4>1. PICK y : y = Updated(upload[a].photo, x)
        OBVIOUS
      <4>2. r = y
        BY <2>6, <3>1, <4>1
      <4>3. x \in Row /\ x.status = "UPLOADED"
        BY <2>3, <2>6
      <4>4. s[upload[a].photo] = "UPLOADED" /\ \A z \in Photos : asset[z] = "UPLOADED" => s[z] = "UPLOADED"
        BY <2>4, <2>5
      <4>5. y \in [Photos -> Row] /\ RowsFit(y, controllers, s, deletes, taken)
            /\ FormOf(wizard) = "Photos"
        BY <2>1, <3>1, <4>1, <4>3, <4>4, ReportFits
      <4> QED BY <4>2, <4>5
    <3>2. CASE ~Current(a)
      <4>1. RowsFit(photos, controllers, s, deletes, taken)
        BY <1>1, <2>4, <2>5, RowsStand
      <4> QED BY <1>1, <3>2, <4>1
    <3> QED BY <3>1, <3>2
  <2> HIDE DEF r
  <2> QED BY <2>1, <2>4, <2>5, <2>7, SettleKeeps
<1> QED BY <1>4, <1>5, <1>6, <1>7, <1>8 DEF UploadNext

LEMMA PhotoNextKeeps ==
  ASSUME UploadInv, wizard \in Wizard, PhotoNext
  PROVE  UploadInv'
BY AddPhotoKeeps, RetryKeeps, ReplaceKeeps, ToggleKeeps, RemoveKeeps, DeleteHandledKeeps,
   RemovalsEndKeep DEF PhotoNext

(* What the uploads and photos do leaves the dialog's requests alone.      *)
LEMMA RequestsSame ==
  ASSUME RequestInv, UNCHANGED <<wizard, call, vehicles, batches>>,
         owner' \in [Photos -> Vehicles \cup {None}]
  PROVE  RequestInv'
BY DEF RequestInv, DialogTypes, DialogInv, DialogFits, Owned, KeyInv, RequestFits, OncePerSession

LEMMA PhotoStepsRequests ==
  ASSUME UploadInv, RequestInv, PhotoNext \/ \E a \in Uploads : UploadNext(a)
  PROVE  RequestInv'
<1>1. owner \in [Photos -> Vehicles \cup {None}]
  BY DEF RequestInv, DialogTypes
<1>2. CASE PhotoNext
  <2>1. UNCHANGED <<wizard, call, vehicles, batches, owner>>
    BY <1>2 DEF PhotoNext, AddPhoto, Retry, Replace, Toggle, Remove, DeleteHandled,
                RemovalAnswered, RemovalFails, server
  <2> QED BY <1>1, <2>1, RequestsSame
<1>3. ASSUME NEW a \in Uploads, UploadNext(a)
      PROVE  RequestInv'
  <2>1. UNCHANGED <<wizard, call, vehicles, batches>>
    BY <1>3 DEF UploadNext, IntentAnswered, IntentFails, PutDone, PutFails, CommitAnswered,
                CommitFails, Settle, server
  <2>2. owner' = owner \/ Reserve(a)
    BY <1>3 DEF UploadNext, IntentAnswered, IntentFails, PutDone, PutFails, CommitAnswered,
                CommitFails, server
  <2>3. upload[a].vehicle \in Vehicles \cup {None}
    BY DEF UploadInv, UploadTypes, UploadState
  <2>4. owner' \in [Photos -> Vehicles \cup {None}]
    BY <1>1, <2>2, <2>3 DEF Reserve
  <2> QED BY <2>1, <2>4, RequestsSame
<1> QED BY <1>2, <1>3
-----------------------------------------------------------------------------
(* The dialog, an action at a time.  Its steps keep the fits of requests    *)
(* when the session passes, or stays with its dialog open.                 *)
LEMMA CallsStand ==
  ASSUME DialogTypes, KeyInv, wizard' \in Wizard, UNCHANGED <<vehicles, batches, owner>>,
         call' \in [Calls -> RequestState],
         \A c \in Calls : call'[c] = call[c] \/ call'[c].pc = "idle",
         \/ wizard'.session = wizard.session + 1
         \/ wizard'.session = wizard.session /\ (wizard.open => wizard'.open)
  PROVE  KeyInv' /\ DialogTypes'
<1>1. wizard.session \in Nat
  BY Apart DEF DialogTypes, Wizard
<1>2. ASSUME NEW c \in Calls
      PROVE  RequestFits(call'[c], wizard', vehicles')
  <2>1. RequestFits(call[c], wizard, vehicles) /\ call[c].session \in Nat
    BY Apart DEF KeyInv, DialogTypes, RequestState
  <2>2. CASE call'[c].pc = "idle"
    BY <2>2 DEF RequestFits
  <2>3. CASE call'[c] = call[c] /\ wizard'.session = wizard.session + 1
    BY <1>1, <2>1, <2>3 DEF RequestFits
  <2>4. CASE call'[c] = call[c] /\ wizard'.session = wizard.session /\ (wizard.open => wizard'.open)
    BY <1>1, <2>1, <2>4 DEF RequestFits
  <2> QED BY <2>2, <2>3, <2>4
<1>3. DialogTypes'
  BY DEF DialogTypes
<1> QED BY <1>2, <1>3 DEF KeyInv, OncePerSession

LEMMA RequestsBecome ==
  ASSUME RequestInv, NEW w \in Wizard, Becomes(w), DialogFits(w, vehicles),
         UNCHANGED <<vehicles, batches, owner>>, call' \in [Calls -> RequestState],
         \A c \in Calls : call'[c] = call[c] \/ call'[c].pc = "idle",
         w.session = wizard.session + 1 \/ (w.session = wizard.session /\ (wizard.open => w.open))
  PROVE  RequestInv'
<1>1. /\ wizard' \in Wizard /\ wizard'.open = w.open /\ wizard'.context = w.context
      /\ wizard'.session = w.session /\ wizard'.left = w.left /\ wizard'.vehicle = w.vehicle
  BY BecomesFacts
<1>2. DialogInv'
  BY <1>1 DEF DialogInv, DialogFits, Owned
<1>3. KeyInv' /\ DialogTypes'
  BY <1>1, CallsStand DEF RequestInv
<1> QED BY <1>2, <1>3 DEF RequestInv

(* The store's rows stay, or are emptied by a reset.                       *)
LEMMA NoneUnderWay ==
  ASSUME UploadInv, FormOf(wizard) # "Photos"
  PROVE  \A p \in Photos : controllers[p] = None
BY DEF UploadInv, UploadTypes, ControlInv, Controls

LEMMA UploadsBecome ==
  ASSUME UploadInv, NEW w \in Wizard, Becomes(w), UNCHANGED <<taken, asset, deletes>>,
         \/ photos' = photos
         \/ photos' = [p \in Photos |-> NoRow] /\ FormOf(w) # "Photos",
         w.step \in {"Customize", "Review"} => Submittable'
  PROVE  UploadInv'
<1>1. /\ FormOf(wizard') = FormOf(w) /\ wizard'.step = w.step
      /\ \/ FormOf(wizard) = "Photos" /\ FormOf(w) # "Photos" /\ Unmount
         \/ ~(FormOf(wizard) = "Photos" /\ FormOf(w) # "Photos") /\ UNCHANGED queue
  BY BecomesFacts
<1>2. CASE Unmount
  <2>1. photos' = photos \/ photos' = [p \in Photos |-> NoRow]
    OBVIOUS
  <2> QED BY <1>1, <1>2, <2>1, UnmountKeeps
<1>3. CASE ~(FormOf(wizard) = "Photos" /\ FormOf(w) # "Photos") /\ UNCHANGED queue
  <2>1. photos' \in [Photos -> Row] /\ RowsFit(photos', controllers, asset', deletes', taken)
    <3>1. CASE photos' = photos
      BY <3>1, PhotoFacts DEF RowsFit
    <3>2. CASE photos' = [p \in Photos |-> NoRow] /\ FormOf(w) # "Photos"
      <4>1. \A p \in Photos : controllers[p] = None
        BY <1>3, <3>2, NoneUnderWay
      <4>2. NoRow \in Row /\ NoRow.status = "NONE"
        BY DEF NoRow, Row
      <4>3. ASSUME NEW p \in Photos
            PROVE  RowFits(p, photos'[p], controllers[p] # None, asset, deletes, taken)
        <5>1. RowFits(p, photos[p], controllers[p] # None, asset, deletes, taken)
          BY PhotoFacts
        <5>2. photos'[p].status = "NONE" /\ controllers[p] = None
          BY <3>2, <4>1, <4>2
        <5> QED BY <5>1, <5>2 DEF RowFits
      <4> QED BY <3>2, <4>2, <4>3 DEF RowsFit
    <3> QED BY <3>1, <3>2
  <2>2. FormOf(wizard) = "Photos" => FormOf(wizard') = "Photos"
    BY <1>1, <1>3
  <2>3. deletes' \subseteq Photos
        /\ asset' \in [Photos -> {"PENDING_UPLOAD", "UPLOADED", "INVALID", "DELETED"}]
    BY PhotoFacts
  <2> QED BY <1>1, <1>3, <2>1, <2>2, <2>3, RowsOnly
<1> QED BY <1>1, <1>2, <1>3

LEMMA SameSubmittable ==
  ASSUME UploadInv, UNCHANGED photos, wizard.step \in {"Customize", "Review"}
  PROVE  Submittable'
BY DEF UploadInv, RowInv, Submittable, Chosen, Listed

(* The dialog and the store that a step leaves.                            *)
LEMMA WizardFacts ==
  ASSUME RequestInv
  PROVE  /\ wizard \in Wizard /\ DialogFits(wizard, vehicles) /\ wizard.session \in Nat
         /\ wizard.session <= MaxSessions
         /\ call \in [Calls -> RequestState] /\ vehicles[Existing].session = None
BY Apart DEF RequestInv, DialogTypes, DialogInv, KeyInv, Wizard

LEMMA ResetFacts ==
  ASSUME RequestInv, NEW w, w = Reset(wizard)
  PROVE  /\ w \in Wizard /\ w.open = wizard.open /\ w.context = wizard.context
         /\ w.session = wizard.session /\ w.left = wizard.left /\ w.step = "Details"
         /\ w.mode = "new" /\ w.vehicle = None
<1>1. wizard \in Wizard
  BY WizardFacts
<1> QED BY <1>1, Apart DEF Reset, Wizard, Steps

LEMMA TurnFacts ==
  ASSUME RequestInv, NEW s \in Steps, NEW w, w = [wizard EXCEPT !.step = s]
  PROVE  w \in Wizard /\ w.step = s /\ DialogFits(w, vehicles) /\ w.session = wizard.session
         /\ w.open = wizard.open
<1>1. wizard \in Wizard /\ DialogFits(wizard, vehicles)
  BY WizardFacts
<1>2. /\ w \in Wizard /\ w.step = s /\ w.open = wizard.open /\ w.context = wizard.context
      /\ w.session = wizard.session /\ w.left = wizard.left /\ w.vehicle = wizard.vehicle
  BY <1>1 DEF Wizard
<1> QED BY <1>1, <1>2 DEF DialogFits, Owned

LEMMA OpenNewKeeps ==
  ASSUME UploadInv, RequestInv, OpenNew
  PROVE  UploadInv' /\ RequestInv'
<1>1. PICK w : w = [wizard EXCEPT !.open = TRUE, !.context = "new"]
  OBVIOUS
<1>2. /\ ~wizard.open /\ wizard.session < MaxSessions /\ Becomes(w)
      /\ UNCHANGED <<photos, taken, call, vehicles, asset, owner, batches, deletes>>
  BY <1>1 DEF OpenNew, server
<1>3. /\ wizard \in Wizard /\ DialogFits(wizard, vehicles) /\ call \in [Calls -> RequestState]
  BY WizardFacts
<1>4. /\ w \in Wizard /\ w.open /\ w.context = "new" /\ w.session = wizard.session
      /\ w.left = wizard.left /\ w.step = wizard.step /\ w.vehicle = wizard.vehicle
  BY <1>1, <1>3 DEF Wizard, Contexts
<1>5. DialogFits(w, vehicles)
  BY <1>2, <1>3, <1>4 DEF DialogFits, Owned
<1>6. UploadInv'
  BY <1>2, <1>4, SameSubmittable, UploadsBecome
<1>7. RequestInv'
  BY <1>2, <1>3, <1>4, <1>5, RequestsBecome
<1> QED BY <1>6, <1>7

LEMMA OpenExistingKeeps ==
  ASSUME UploadInv, RequestInv, OpenExisting
  PROVE  UploadInv' /\ RequestInv'
<1>1. PICK x : x = Reset(wizard)
  OBVIOUS
<1>2. PICK w : w = [x EXCEPT !.open = TRUE, !.context = "existing", !.step = "Photos",
                             !.mode = "existing", !.vehicle = Existing]
  OBVIOUS
<1>3. /\ ~wizard.open /\ wizard.session < MaxSessions /\ Becomes(w)
      /\ UNCHANGED <<taken, call, vehicles, asset, owner, batches, deletes>>
  BY <1>1, <1>2 DEF OpenExisting, server
<1>4. x \in Wizard /\ x.session = wizard.session /\ x.left = wizard.left
  BY <1>1, ResetFacts
<1>5. /\ w \in Wizard /\ w.open /\ w.context = "existing" /\ w.session = wizard.session
      /\ w.left = wizard.left /\ w.step = "Photos" /\ w.vehicle = Existing
  BY <1>2, <1>4, Apart DEF Wizard, Contexts, Steps
<1>6. DialogFits(w, vehicles)
  <2>1. Owned(w, vehicles)
    <3>1. [session |-> w.session, context |-> w.context].context = "existing"
      BY <1>5
    <3> QED BY <1>5, <3>1 DEF Owned
  <2>2. DialogFits(wizard, vehicles)
    BY WizardFacts
  <2> QED BY <1>3, <1>5, <2>1, <2>2 DEF DialogFits
<1>7. RequestInv'
  BY <1>3, <1>5, <1>6, WizardFacts, RequestsBecome
<1>8. FormOf(wizard) # "Photos" /\ \A p \in Photos : controllers[p] = None
  BY <1>3, FormFacts, NoneUnderWay
<1>9. UNCHANGED queue /\ wizard'.step = "Photos"
  BY <1>3, <1>5, <1>8, BecomesFacts
<1>10. ASSUME NEW p \in Photos
       PROVE  /\ photos'[p] \in Row
              /\ RowFits(p, photos'[p], controllers[p] # None, asset, deletes, taken)
  <2>1. photos'[p] = IF p \in Originals
                     THEN [status |-> "UPLOADED", asset |-> TRUE, error |-> FALSE,
                           selected |-> p \notin Broken]
                     ELSE NoRow
    BY DEF OpenExisting
  <2> DEFINE sound == p \notin Broken
  <2>2. PICK b \in BOOLEAN : b = sound
    OBVIOUS
  <2>3. RowFits(p, photos[p], controllers[p] # None, asset, deletes, taken)
    BY PhotoFacts
  <2>4. controllers[p] = None
    BY <1>8
  <2>5. CASE p \in Originals
    <3>1. photos'[p] = [status |-> "UPLOADED", asset |-> TRUE, error |-> FALSE, selected |-> b]
      BY <2>1, <2>2, <2>5
    <3>2. photos'[p] \in Row /\ photos'[p].status = "UPLOADED" /\ ~photos'[p].error
      BY <3>1 DEF Row
    <3> QED BY <2>3, <2>4, <2>5, <3>2 DEF RowFits
  <2>6. CASE p \notin Originals
    <3>1. photos'[p] \in Row /\ photos'[p].status = "NONE"
      BY <2>1, <2>6 DEF NoRow, Row
    <3> QED BY <2>3, <2>4, <2>6, <3>1 DEF RowFits
  <2> QED BY <2>5, <2>6
<1>11. photos' \in [Photos -> Row]
  <2>1. photos' = [p \in Photos |-> photos'[p]]
    BY DEF OpenExisting
  <2> QED BY <1>10, <2>1
<1>12. RowsFit(photos', controllers, asset', deletes', taken)
  BY <1>3, <1>10 DEF RowsFit
<1>13. UploadInv'
  BY <1>3, <1>8, <1>9, <1>11, <1>12, PhotoFacts, RowsOnly
<1> QED BY <1>7, <1>13

(* Closing, whatever closes: a session of its own, nothing listed.         *)
LEMMA CloseKeeps ==
  ASSUME UploadInv, RequestInv, wizard.open, CloseWizard,
         UNCHANGED <<taken, asset, deletes, vehicles, batches, owner>>,
         call' \in [Calls -> RequestState],
         \A c \in Calls : call'[c] = call[c] \/ call'[c].pc = "idle"
  PROVE  UploadInv' /\ RequestInv'
<1>1. PICK x : x = Reset(wizard)
  OBVIOUS
<1>2. PICK w : w = [x EXCEPT !.open = FALSE, !.context = "new", !.session = @ + 1]
  OBVIOUS
<1>3. Becomes(w) /\ photos' = [p \in Photos |-> NoRow]
  BY <1>1, <1>2 DEF CloseWizard
<1>4. /\ x \in Wizard /\ x.session = wizard.session /\ x.left = wizard.left
      /\ x.step = "Details" /\ x.vehicle = None
  BY <1>1, ResetFacts
<1>5. /\ wizard.session \in Nat /\ wizard.session < MaxSessions
      /\ \A d \in wizard.left : d.session < wizard.session
  BY WizardFacts DEF DialogFits
<1>6. PICK n : n = wizard.session + 1
  OBVIOUS
<1>7. n \in 0..MaxSessions
  BY <1>5, <1>6, Apart
<1>8. w = [x EXCEPT !.open = FALSE, !.context = "new", !.session = n]
  BY <1>2, <1>4, <1>6
<1>9. /\ w \in Wizard /\ ~w.open /\ w.context = "new" /\ w.session = n
      /\ w.left = wizard.left /\ w.step = "Details" /\ w.vehicle = None
  BY <1>4, <1>7, <1>8 DEF Wizard, Contexts
<1>10. \A d \in wizard.left : d.session < n
  <2>1. wizard.left \subseteq Dialog
    BY WizardFacts DEF Wizard
  <2>2. \A d \in wizard.left : d.session \in Nat
    BY <2>1, Apart DEF Dialog
  <2> QED BY <1>5, <1>6, <2>2
<1>11. DialogFits(w, vehicles)
  BY <1>9, <1>10 DEF DialogFits, Owned
<1>12. UploadInv'
  BY <1>3, <1>9, FormFacts, UploadsBecome
<1>13. RequestInv'
  BY <1>3, <1>6, <1>9, <1>11, RequestsBecome
<1> QED BY <1>12, <1>13

LEMMA CloseStepKeeps ==
  ASSUME UploadInv, RequestInv, Close
  PROVE  UploadInv' /\ RequestInv'
<1>1. /\ wizard.open /\ CloseWizard /\ call' = call
      /\ UNCHANGED <<taken, asset, deletes, vehicles, batches, owner>>
  BY DEF Close, server
<1>2. call' \in [Calls -> RequestState] /\ \A c \in Calls : call'[c] = call[c]
  BY <1>1, WizardFacts
<1> QED BY <1>1, <1>2, CloseKeeps

(* A dialog that went away closes late, under the one that is open.        *)
LEMMA CloseLeftKeeps ==
  ASSUME UploadInv, RequestInv, NEW session, CloseLeft(session),
         UNCHANGED <<taken, asset, deletes, vehicles, batches, owner>>,
         call' \in [Calls -> RequestState],
         \A c \in Calls : call'[c] = call[c] \/ call'[c].pc = "idle"
  PROVE  UploadInv' /\ RequestInv'
<1>1. PICK x : x = Reset(wizard)
  OBVIOUS
<1>2. PICK rest : rest = {d \in wizard.left : d.session # session}
  OBVIOUS
<1>3. PICK w : w = [x EXCEPT !.left = rest]
  OBVIOUS
<1>4. /\ x \in Wizard /\ x.open = wizard.open /\ x.context = wizard.context
      /\ x.session = wizard.session /\ x.left = wizard.left /\ x.step = "Details"
      /\ x.vehicle = None
  BY <1>1, ResetFacts
<1>5. rest \subseteq wizard.left
  BY <1>2
<1>6. /\ w \in Wizard /\ w.open = wizard.open /\ w.context = wizard.context
      /\ w.session = wizard.session /\ w.left = rest /\ w.step = "Details" /\ w.vehicle = None
  BY <1>3, <1>4, <1>5 DEF Wizard
<1>7. Becomes(w) /\ photos' = [p \in Photos |-> NoRow]
  <2>1. w = [Reset(wizard) EXCEPT !.left = {d \in @ : d.session # session}]
    BY <1>1, <1>2, <1>3, <1>4
  <2> QED BY <2>1 DEF CloseLeft
<1>8. DialogFits(w, vehicles)
  BY <1>5, <1>6, WizardFacts DEF DialogFits, Owned
<1>9. FormOf(w) # "Photos"
  BY <1>6, FormFacts
<1>10. UploadInv'
  BY <1>6, <1>7, <1>9, UploadsBecome
<1>11. RequestInv'
  BY <1>6, <1>7, <1>8, RequestsBecome
<1> QED BY <1>10, <1>11

LEMMA LeaveKeeps ==
  ASSUME UploadInv, RequestInv, Leave
  PROVE  UploadInv' /\ RequestInv'
<1>1. PICK n : n = wizard.session + 1
  OBVIOUS
<1>2. PICK away : away = wizard.left \cup {ThisDialog}
  OBVIOUS
<1>3. PICK w : w = [wizard EXCEPT !.open = FALSE, !.context = "new", !.session = n, !.left = away]
  OBVIOUS
<1>4. /\ wizard.open /\ n < MaxSessions /\ Becomes(w)
      /\ UNCHANGED <<photos, taken, call, vehicles, asset, owner, batches, deletes>>
  BY <1>1, <1>2, <1>3 DEF Leave, server
<1>5. /\ wizard \in Wizard /\ DialogFits(wizard, vehicles) /\ wizard.session \in Nat
      /\ MaxSessions \in Nat /\ call \in [Calls -> RequestState]
  BY WizardFacts, Apart
<1>6. n \in 0..MaxSessions /\ wizard.session < n
  BY <1>1, <1>4, <1>5
<1>7. ThisDialog \in Dialog /\ ThisDialog.session = wizard.session
      /\ ThisDialog.context = wizard.context
  BY <1>5 DEF ThisDialog, Dialog, Wizard
<1>8. away \in SUBSET Dialog /\ wizard.left \subseteq Dialog
  BY <1>2, <1>5, <1>7 DEF Wizard
<1>9. /\ w \in Wizard /\ ~w.open /\ w.context = "new" /\ w.session = n /\ w.left = away
      /\ w.step = wizard.step /\ w.vehicle = wizard.vehicle
  BY <1>3, <1>5, <1>6, <1>8 DEF Wizard, Contexts
<1>10. \A d \in away : d.session < n
  <2>1. ASSUME NEW d \in wizard.left
        PROVE  d.session < n
    <3>1. d.session < wizard.session /\ d.session \in Nat
      BY <1>5, <1>8, Apart DEF DialogFits, Dialog
    <3> QED BY <1>1, <1>5, <3>1
  <2> QED BY <1>2, <1>6, <1>7, <2>1
<1>11. Owned(w, vehicles)
  <2>1. Owned(wizard, vehicles)
    BY <1>5 DEF DialogFits
  <2>2. {[session |-> wizard.session, context |-> wizard.context]} \cup wizard.left = away
    BY <1>2 DEF ThisDialog
  <2> QED BY <1>9, <2>1, <2>2 DEF Owned
<1>12. DialogFits(w, vehicles)
  BY <1>9, <1>10, <1>11 DEF DialogFits
<1>13. UploadInv'
  BY <1>4, <1>9, SameSubmittable, UploadsBecome
<1>14. RequestInv'
  BY <1>1, <1>4, <1>5, <1>9, <1>12, RequestsBecome
<1> QED BY <1>13, <1>14

LEMMA SetDetailsKeeps ==
  ASSUME UploadInv, RequestInv, NEW d \in Details, SetDetails(d)
  PROVE  UploadInv' /\ RequestInv'
<1>1. PICK w : w = [wizard EXCEPT !.details = d]
  OBVIOUS
<1>2. wizard \in Wizard /\ call \in [Calls -> RequestState] /\ DialogFits(wizard, vehicles)
  BY WizardFacts
<1>3. /\ w \in Wizard /\ w.open = wizard.open /\ w.context = wizard.context
      /\ w.session = wizard.session /\ w.left = wizard.left /\ w.step = wizard.step
      /\ w.vehicle = wizard.vehicle /\ w.mode = wizard.mode
  BY <1>1, <1>2 DEF Wizard
<1>4. FormOf(w) = FormOf(wizard)
  BY <1>3 DEF FormOf
<1>5. /\ wizard' = w
      /\ UNCHANGED <<photos, taken, queue, call, vehicles, asset, owner, batches, deletes>>
  BY <1>1 DEF SetDetails, server
<1>6. Becomes(w)
  BY <1>4, <1>5 DEF Becomes, Shown
<1>7. DialogFits(w, vehicles)
  BY <1>2, <1>3 DEF DialogFits, Owned
<1>8. UploadInv'
  BY <1>3, <1>5, <1>6, SameSubmittable, UploadsBecome
<1>9. RequestInv'
  BY <1>2, <1>3, <1>5, <1>6, <1>7, RequestsBecome
<1> QED BY <1>8, <1>9

(* A button that leads to another step.                                    *)
LEMMA TurnKeeps ==
  ASSUME UploadInv, RequestInv, NEW from \in Steps, NEW to \in Steps, Turn(from, to),
         to \in {"Customize", "Review"} => Ready \/ from \in {"Customize", "Review"}
  PROVE  UploadInv' /\ RequestInv'
<1>1. PICK w : w = [wizard EXCEPT !.step = to]
  OBVIOUS
<1>2. /\ wizard.step = from /\ Becomes(w)
      /\ UNCHANGED <<photos, taken, call, vehicles, asset, owner, batches, deletes>>
  BY <1>1, ShownFacts DEF Turn, server
<1>3. w \in Wizard /\ w.step = to /\ DialogFits(w, vehicles) /\ w.session = wizard.session
      /\ w.open = wizard.open
  BY <1>1, TurnFacts
<1>4. w.step \in {"Customize", "Review"} => Submittable'
  <2>1. Ready => Submittable'
    BY <1>2 DEF Ready, Submittable, Chosen, Listed
  <2> QED BY <1>2, <1>3, <2>1, SameSubmittable
<1>5. UploadInv'
  BY <1>2, <1>3, <1>4, UploadsBecome
<1>6. RequestInv'
  BY <1>2, <1>3, WizardFacts, RequestsBecome
<1> QED BY <1>5, <1>6

LEMMA TurnsKeep ==
  ASSUME UploadInv, RequestInv,
         Continue \/ BackToDetails \/ BackToPhotos \/ ToReview \/ BackFromReview
  PROVE  UploadInv' /\ RequestInv'
<1>1. PICK from \in Steps, to \in Steps :
        Turn(from, to) /\ (to \in {"Customize", "Review"} => Ready \/ from \in {"Customize", "Review"})
  BY DEF Continue, BackToDetails, BackToPhotos, ToReview, BackFromReview, Steps
<1> QED BY <1>1, TurnKeeps
-----------------------------------------------------------------------------
(* The dialog's requests, an action at a time.                             *)
SameButPending(w) ==
  /\ w \in Wizard /\ w.open = wizard.open /\ w.context = wizard.context
  /\ w.session = wizard.session /\ w.left = wizard.left /\ w.step = wizard.step
  /\ w.vehicle = wizard.vehicle /\ w.mode = wizard.mode

LEMMA PendingFacts ==
  ASSUME RequestInv, NEW c \in Calls \cup {None}, NEW w, w = [wizard EXCEPT !.pending = c]
  PROVE  SameButPending(w)
<1>1. wizard \in Wizard
  BY WizardFacts
<1> QED BY <1>1 DEF SameButPending, Wizard

LEMMA HeardFacts ==
  ASSUME RequestInv, NEW c \in Calls
  PROVE  SameButPending(Heard(c))
<1>1. wizard.pending \in Calls \cup {None}
  BY WizardFacts DEF Wizard
<1>2. PICK x \in Calls \cup {None} : x = IF wizard.pending = c THEN None ELSE wizard.pending
  BY <1>1
<1>3. Heard(c) = [wizard EXCEPT !.pending = x]
  BY <1>2 DEF Heard
<1> QED BY <1>3, PendingFacts

LEMMA CallChange ==
  ASSUME RequestInv, NEW c \in Calls, NEW k \in RequestState, call' = [call EXCEPT ![c] = k],
         SameButPending(wizard'), vehicles' \in [Vehicles -> Draft], batches' \subseteq Accepted,
         \A v \in Vehicles : vehicles[v].session # None =>
           vehicles'[v].session = vehicles[v].session,
         \A v \in Vehicles : vehicles'[v].key = vehicles'[v].session,
         vehicles'[Existing].session = None, owner' = owner,
         \A b \in batches' : b.key = b.session, OncePerSession',
         RequestFits(k, wizard, vehicles')
  PROVE  RequestInv'
<1>1. /\ DialogTypes /\ DialogInv /\ wizard.session \in Nat
      /\ \A d \in Calls : call[d].session \in Nat
      /\ \A d \in Calls : RequestFits(call[d], wizard, vehicles)
  BY Apart DEF RequestInv, KeyInv, DialogTypes, Wizard, RequestState
<1>2. /\ call' \in [Calls -> RequestState] /\ call'[c] = k
      /\ \A d \in Calls : d # c => call'[d] = call[d]
  BY <1>1 DEF DialogTypes
<1>3. /\ wizard' \in Wizard /\ wizard'.open = wizard.open /\ wizard'.context = wizard.context
      /\ wizard'.session = wizard.session /\ wizard'.left = wizard.left
      /\ wizard'.vehicle = wizard.vehicle
  BY DEF SameButPending
<1>4. ASSUME NEW d \in Calls
      PROVE  RequestFits(call'[d], wizard', vehicles')
  <2>1. CASE d = c
    BY <1>2, <1>3, <2>1 DEF RequestFits
  <2>2. CASE d # c
    BY <1>1, <1>2, <1>3, <2>2, Apart DEF RequestFits
  <2> QED BY <2>1, <2>2
<1>5. DialogTypes'
  BY <1>1, <1>2, <1>3 DEF DialogTypes
<1>6. DialogInv'
  <2>1. ASSUME wizard.vehicle # None, wizard.vehicle # Existing,
               NEW d \in {[session |-> wizard.session, context |-> wizard.context]} \cup wizard.left,
               d.session = vehicles[wizard.vehicle].session
        PROVE  d.session = vehicles'[wizard.vehicle].session
    <3>1. wizard.vehicle \in Vehicles /\ wizard.left \subseteq Dialog
      BY <1>1, <2>1 DEF DialogTypes, Wizard
    <3>2. d.session \in Nat
      BY <1>1, <3>1, Apart DEF Dialog
    <3> QED BY <2>1, <3>1, <3>2, Apart
  <2>2. Owned(wizard, vehicles)
    BY <1>1 DEF DialogInv, DialogFits
  <2>3. Owned(wizard, vehicles')
    BY <2>1, <2>2 DEF Owned
  <2>4. Owned(wizard', vehicles')
    BY <1>3, <2>3 DEF Owned
  <2> QED BY <1>1, <1>3, <2>4 DEF DialogInv, DialogFits
<1>7. KeyInv'
  BY <1>4 DEF KeyInv
<1> QED BY <1>5, <1>6, <1>7 DEF RequestInv

(* One that changes the request, and what its form waits for, only.        *)
LEMMA CallOnly ==
  ASSUME RequestInv, NEW c \in Calls, NEW k \in RequestState, call' = [call EXCEPT ![c] = k],
         SameButPending(wizard'), UNCHANGED <<vehicles, batches, owner>>,
         RequestFits(k, wizard, vehicles)
  PROVE  RequestInv'
<1>1. /\ vehicles' \in [Vehicles -> Draft] /\ batches' \subseteq Accepted /\ OncePerSession'
      /\ \A v \in Vehicles : vehicles'[v].key = vehicles'[v].session
      /\ vehicles'[Existing].session = None /\ \A b \in batches' : b.key = b.session
  BY DEF RequestInv, DialogTypes, KeyInv, OncePerSession
<1> QED BY <1>1, CallChange

LEMMA SameWizard ==
  ASSUME RequestInv, wizard' = wizard
  PROVE  SameButPending(wizard')
BY WizardFacts DEF SameButPending

LEMMA CallFacts ==
  ASSUME RequestInv, NEW c \in Calls
  PROVE  /\ call[c] \in RequestState /\ NoCall \in RequestState /\ NoCall.pc = "idle"
         /\ RequestFits(call[c], wizard, vehicles) /\ wizard \in Wizard
         /\ vehicles \in [Vehicles -> Draft] /\ batches \subseteq Accepted
         /\ wizard.session \in Nat /\ call[c].session \in Nat
<1>1. NoCall \in RequestState /\ NoCall.pc = "idle"
  BY Apart DEF NoCall, RequestState
<1> QED BY <1>1, Apart DEF RequestInv, DialogTypes, KeyInv, Wizard, RequestState

(* What an answer makes of a request.                                      *)
LEMMA AnswerFacts ==
  ASSUME RequestInv, NEW c \in Calls, NEW answer \in {"ok", "refused"},
         NEW v \in Vehicles \cup {None}, AnswerWith(c, answer, v)
  PROVE  \E k \in RequestState :
           /\ call' = [call EXCEPT ![c] = k]
           /\ \/ k.pc = "idle"
              \/ /\ k.pc = answer /\ k.vehicle = v /\ k.kind = call[c].kind
                 /\ k.session = call[c].session /\ k.key = call[c].key /\ k.body = call[c].body
<1> DEFINE k == IF call[c].heard THEN [call[c] EXCEPT !.pc = answer, !.vehicle = v] ELSE NoCall
<1>1. call' = [call EXCEPT ![c] = k]
  BY DEF AnswerWith
<1>2. k \in RequestState
      /\ \/ k.pc = "idle"
         \/ /\ k.pc = answer /\ k.vehicle = v /\ k.kind = call[c].kind
            /\ k.session = call[c].session /\ k.key = call[c].key /\ k.body = call[c].body
  <2>1. CASE call[c].heard
    <3>1. k = [call[c] EXCEPT !.pc = answer, !.vehicle = v]
      BY <2>1
    <3> HIDE DEF k
    <3> QED BY <3>1, CallFacts DEF RequestState
  <2>2. CASE ~call[c].heard
    BY <2>2, CallFacts
  <2> QED BY <2>1, <2>2
<1> HIDE DEF k
<1> QED BY <1>1, <1>2

LEMMA RequestKeeps ==
  ASSUME RequestInv, NEW c \in Calls, NEW kind \in {"create", "update", "process"}, NEW body,
         Request(c, kind, body), wizard.open,
         body \in IF kind = "process" THEN SUBSET Photos ELSE Details,
         kind = "update" => wizard.vehicle # None
  PROVE  RequestInv'
<1>1. PICK k : k = [pc |-> "sent", kind |-> kind, session |-> wizard.session, key |-> Key,
                    vehicle |-> wizard.vehicle, body |-> body, heard |-> TRUE]
  OBVIOUS
<1>2. call' = [call EXCEPT ![c] = k] /\ UNCHANGED <<vehicles, batches, owner>>
      /\ wizard' = [wizard EXCEPT !.pending = c]
  BY <1>1 DEF Request, server
<1>3. wizard \in Wizard /\ wizard.session \in Nat
  BY CallFacts
<1>4. /\ k \in RequestState /\ k.pc = "sent" /\ k.kind = kind /\ k.session = wizard.session
      /\ k.key = wizard.session /\ k.vehicle = wizard.vehicle /\ k.body = body
  BY <1>1, <1>3 DEF Key, RequestState, Wizard
<1>5. kind = "update" => wizard.vehicle \in Vehicles
  BY <1>3 DEF Wizard
<1>6. RequestFits(k, wizard, vehicles)
  BY <1>3, <1>4, <1>5 DEF RequestFits
<1>7. SameButPending(wizard')
  BY <1>2, PendingFacts
<1> QED BY <1>2, <1>4, <1>6, <1>7, CallOnly

LEMMA SentKeeps ==
  ASSUME RequestInv, NEW c \in Calls, SaveDetails(c) \/ Process(c)
  PROVE  RequestInv'
<1>1. wizard \in Wizard
  BY CallFacts
<1>2. CASE SaveDetails(c)
  <2>1. PICK kind \in {"create", "update"} :
          /\ Request(c, kind, wizard.details) /\ Shown("Details")
          /\ kind = "update" => wizard.vehicle # None
    BY <1>2 DEF SaveDetails
  <2>2. wizard.open /\ wizard.details \in Details
    BY <1>1, <2>1, ShownFacts DEF Wizard, Steps
  <2> QED BY <2>1, <2>2, RequestKeeps
<1>3. CASE Process(c)
  <2>1. Chosen \in SUBSET Photos
    BY DEF Chosen, Listed
  <2>2. Request(c, "process", Chosen) /\ Shown("Review")
    BY <1>3 DEF Process
  <2>3. wizard.open
    BY <2>2, ShownFacts DEF Steps
  <2>4. PICK body : body = Chosen
    OBVIOUS
  <2> QED BY <2>1, <2>2, <2>3, <2>4, RequestKeeps
<1> QED BY <1>2, <1>3

LEMMA GiveUpKeeps ==
  ASSUME RequestInv, NEW c \in Calls, GiveUp(c)
  PROVE  RequestInv'
<1> DEFINE k == IF call[c].pc \in {"ok", "refused"} THEN NoCall
                ELSE [call[c] EXCEPT !.heard = FALSE]
<1>1. /\ call' = [call EXCEPT ![c] = k] /\ UNCHANGED <<vehicles, batches, owner>>
      /\ wizard' = Heard(c)
  BY DEF GiveUp, server
<1>2. k \in RequestState /\ RequestFits(k, wizard, vehicles)
  <2>1. CASE call[c].pc \in {"ok", "refused"}
    BY <2>1, CallFacts DEF RequestFits
  <2>2. CASE call[c].pc \notin {"ok", "refused"}
    <3>1. k = [call[c] EXCEPT !.heard = FALSE]
      BY <2>2
    <3> HIDE DEF k
    <3>2. /\ k \in RequestState /\ k.pc = call[c].pc /\ k.kind = call[c].kind
          /\ k.session = call[c].session /\ k.key = call[c].key
          /\ k.vehicle = call[c].vehicle /\ k.body = call[c].body
      BY <3>1, CallFacts DEF RequestState
    <3> QED BY <3>2, CallFacts DEF RequestFits
  <2> QED BY <2>1, <2>2
<1>3. SameButPending(wizard')
  BY <1>1, HeardFacts
<1> HIDE DEF k
<1> QED BY <1>1, <1>2, <1>3, CallOnly

LEMMA FindByKeyKeeps ==
  ASSUME RequestInv, NEW c \in Calls, FindByKey(c)
  PROVE  RequestInv'
<1>1. PICK k : k = [call[c] EXCEPT !.pc = "insert"]
  OBVIOUS
<1>2. /\ call' = [call EXCEPT ![c] = k] /\ UNCHANGED <<wizard, vehicles, batches, owner>>
      /\ call[c].kind = "create" /\ call[c].pc = "sent"
  BY <1>1 DEF FindByKey, server
<1>3. /\ k \in RequestState /\ k.pc = "insert" /\ k.kind = call[c].kind
      /\ k.session = call[c].session /\ k.key = call[c].key /\ k.body = call[c].body
  BY <1>1, CallFacts DEF RequestState
<1>4. RequestFits(k, wizard, vehicles)
  BY <1>2, <1>3, CallFacts DEF RequestFits
<1> QED BY <1>2, <1>3, <1>4, SameWizard, CallOnly

LEMMA RefusedOrReplayed ==
  ASSUME RequestInv, NEW c \in Calls, CallFails(c) \/ ReplayCreate(c)
  PROVE  RequestInv'
<1>1. CASE CallFails(c)
  <2>1. /\ call[c].pc # "idle" /\ AnswerWith(c, "refused", None)
        /\ UNCHANGED <<wizard, vehicles, batches, owner>>
    BY <1>1 DEF CallFails, server
  <2>2. PICK k \in RequestState :
           /\ call' = [call EXCEPT ![c] = k]
           /\ \/ k.pc = "idle"
              \/ /\ k.pc = "refused" /\ k.vehicle = None /\ k.kind = call[c].kind
                 /\ k.session = call[c].session /\ k.key = call[c].key /\ k.body = call[c].body
    BY <2>1, AnswerFacts
  <2>3. RequestFits(k, wizard, vehicles)
    BY <2>1, <2>2, CallFacts DEF RequestFits
  <2> QED BY <2>1, <2>2, <2>3, SameWizard, CallOnly
<1>2. CASE ReplayCreate(c)
  <2>1. PICK v \in Vehicles, answer \in {"ok", "refused"} :
          vehicles[v].key = call[c].key /\ AnswerWith(c, answer, v)
    BY <1>2 DEF ReplayCreate, Reserved
  <2>2. /\ call[c].pc # "idle" /\ call[c].kind = "create"
        /\ UNCHANGED <<wizard, vehicles, batches, owner>>
    BY <1>2 DEF ReplayCreate, server
  <2>3. PICK k \in RequestState :
           /\ call' = [call EXCEPT ![c] = k]
           /\ \/ k.pc = "idle"
              \/ /\ k.pc = answer /\ k.vehicle = v /\ k.kind = call[c].kind
                 /\ k.session = call[c].session /\ k.key = call[c].key /\ k.body = call[c].body
    BY <2>1, AnswerFacts
  <2>4. vehicles[v].session = call[c].session
    BY <2>1, <2>2, CallFacts DEF RequestInv, KeyInv, RequestFits
  <2>5. RequestFits(k, wizard, vehicles)
    BY <2>2, <2>3, <2>4, CallFacts DEF RequestFits
  <2> QED BY <2>2, <2>3, <2>5, SameWizard, CallOnly
<1> QED BY <1>1, <1>2

LEMMA InsertVehicleKeeps ==
  ASSUME RequestInv, NEW c \in Calls, InsertVehicle(c)
  PROVE  RequestInv'
<1>1. PICK v : v = CHOOSE w \in Unused : TRUE
  OBVIOUS
<1>2. /\ call[c].pc = "insert" /\ Reserved(call[c].key) = {} /\ Unused # {}
      /\ UNCHANGED <<wizard, batches, owner>>
  BY DEF InsertVehicle
<1>3. v \in Vehicles /\ vehicles[v].session = None /\ v # Existing
  <2>1. v \in Unused
    BY <1>1, <1>2
  <2> QED BY <2>1 DEF Unused, NoVehicle
<1>4. PICK d : d = [key |-> call[c].key, session |-> call[c].session,
                    details |-> call[c].body, draft |-> TRUE]
  OBVIOUS
<1>5. vehicles' = [vehicles EXCEPT ![v] = d] /\ AnswerWith(c, "ok", v)
  BY <1>1, <1>4 DEF InsertVehicle
<1>6. PICK k \in RequestState :
         /\ call' = [call EXCEPT ![c] = k]
         /\ \/ k.pc = "idle"
            \/ /\ k.pc = "ok" /\ k.vehicle = v /\ k.kind = call[c].kind
               /\ k.session = call[c].session /\ k.key = call[c].key /\ k.body = call[c].body
  BY <1>3, <1>5, AnswerFacts
<1>7. /\ RequestFits(call[c], wizard, vehicles) /\ call[c] \in RequestState
      /\ call[c].session \in Nat /\ vehicles \in [Vehicles -> Draft]
  BY CallFacts
<1>8. /\ call[c].kind = "create" /\ call[c].body \in Details /\ call[c].key = call[c].session
  BY <1>2, <1>7 DEF RequestFits
<1>9. d \in Draft /\ d.key = call[c].key /\ d.session = call[c].session
  BY <1>4, <1>7, <1>8 DEF Draft, RequestState
<1>10. /\ vehicles' \in [Vehicles -> Draft] /\ vehicles'[v] = d
       /\ \A w \in Vehicles : w # v => vehicles'[w] = vehicles[w]
  BY <1>3, <1>5, <1>7, <1>9
<1>11. \A w \in Vehicles : vehicles[w].key = vehicles[w].session /\ vehicles[w].session # call[c].session
  BY <1>2, <1>8 DEF RequestInv, KeyInv, Reserved
<1>12. \A w \in Vehicles : vehicles'[w].key = vehicles'[w].session
  BY <1>8, <1>9, <1>10, <1>11
<1>13. \A w \in Vehicles : vehicles[w].session # None => vehicles'[w].session = vehicles[w].session
  BY <1>3, <1>10
<1>14. OncePerSession'
  <2>1. OncePerSession
    BY DEF RequestInv, KeyInv
  <2> QED BY <1>2, <1>9, <1>10, <1>11, <2>1 DEF OncePerSession
<1>15. RequestFits(k, wizard, vehicles')
  <2>1. vehicles'[v].session = call[c].session
    BY <1>9, <1>10
  <2> QED BY <1>2, <1>3, <1>6, <1>7, <1>8, <2>1 DEF RequestFits
<1>16. vehicles'[Existing].session = None
  BY <1>3, <1>10, Apart DEF RequestInv, KeyInv
<1>17. batches' \subseteq Accepted /\ \A b \in batches' : b.key = b.session
  BY <1>2 DEF RequestInv, DialogTypes, KeyInv
<1> QED BY <1>2, <1>6, <1>10, <1>12, <1>13, <1>14, <1>15, <1>16, <1>17, SameWizard, CallChange

LEMMA UpdateDraftKeeps ==
  ASSUME RequestInv, NEW c \in Calls, UpdateDraft(c)
  PROVE  RequestInv'
<1>1. PICK v : v = call[c].vehicle
  OBVIOUS
<1>2. /\ call[c].pc = "sent" /\ call[c].kind = "update"
      /\ vehicles' = [vehicles EXCEPT ![v].details = call[c].body]
      /\ AnswerWith(c, "ok", v) /\ UNCHANGED <<wizard, batches, owner>>
  BY <1>1 DEF UpdateDraft
<1>3. /\ RequestFits(call[c], wizard, vehicles) /\ vehicles \in [Vehicles -> Draft]
  BY CallFacts
<1>4. v \in Vehicles /\ call[c].body \in Details
  BY <1>1, <1>2, <1>3 DEF RequestFits
<1>5. PICK k \in RequestState :
         /\ call' = [call EXCEPT ![c] = k]
         /\ \/ k.pc = "idle"
            \/ /\ k.pc = "ok" /\ k.vehicle = v /\ k.kind = call[c].kind
               /\ k.session = call[c].session /\ k.key = call[c].key /\ k.body = call[c].body
  BY <1>2, <1>4, AnswerFacts
<1>6. PICK d : d = [vehicles[v] EXCEPT !.details = call[c].body]
  OBVIOUS
<1>7. d \in Draft /\ d.key = vehicles[v].key /\ d.session = vehicles[v].session
  BY <1>3, <1>4, <1>6 DEF Draft
<1>8. vehicles' = [vehicles EXCEPT ![v] = d]
  BY <1>2, <1>6
<1>9. /\ vehicles' \in [Vehicles -> Draft]
      /\ \A w \in Vehicles : vehicles'[w].key = vehicles[w].key
                             /\ vehicles'[w].session = vehicles[w].session
  BY <1>3, <1>4, <1>7, <1>8
<1>10. /\ \A w \in Vehicles : vehicles'[w].key = vehicles'[w].session
       /\ vehicles'[Existing].session = None
       /\ OncePerSession' /\ batches' \subseteq Accepted /\ \A b \in batches' : b.key = b.session
  BY <1>2, <1>9, Apart DEF RequestInv, DialogTypes, KeyInv, OncePerSession
<1>11. RequestFits(k, wizard, vehicles')
  BY <1>2, <1>3, <1>4, <1>5, <1>9 DEF RequestFits
<1> QED BY <1>2, <1>5, <1>9, <1>10, <1>11, SameWizard, CallChange

LEMMA ReserveBatchKeeps ==
  ASSUME RequestInv, NEW c \in Calls, ReserveBatch(c)
  PROVE  RequestInv'
<1>1. PICK b : b = [key |-> call[c].key, session |-> call[c].session,
                    vehicle |-> call[c].vehicle, photos |-> call[c].body]
  OBVIOUS
<1>2. PICK v : v = call[c].vehicle
  OBVIOUS
<1>3. /\ call[c].pc = "sent" /\ call[c].kind = "process" /\ AnswerWith(c, "ok", v)
      /\ UNCHANGED <<wizard, owner>>
      /\ \/ UNCHANGED <<batches, vehicles>>
         \/ /\ {o \in batches : o.key = b.key} = {} /\ batches' = batches \cup {b}
            /\ vehicles' = [vehicles EXCEPT ![v].draft = FALSE]
  BY <1>1, <1>2 DEF ReserveBatch
<1>4. /\ RequestFits(call[c], wizard, vehicles) /\ vehicles \in [Vehicles -> Draft]
      /\ call[c] \in RequestState /\ batches \subseteq Accepted
  BY CallFacts
<1>5. /\ call[c].key = call[c].session /\ call[c].body \in SUBSET Photos
      /\ v \in Vehicles \cup {None}
  BY <1>2, <1>3, <1>4 DEF RequestFits, RequestState
<1>6. b \in Accepted /\ b.key = b.session
  BY <1>1, <1>4, <1>5 DEF Accepted, RequestState
<1>7. PICK k \in RequestState :
         /\ call' = [call EXCEPT ![c] = k]
         /\ \/ k.pc = "idle"
            \/ /\ k.pc = "ok" /\ k.vehicle = v /\ k.kind = call[c].kind
               /\ k.session = call[c].session /\ k.key = call[c].key /\ k.body = call[c].body
  BY <1>3, <1>5, AnswerFacts
<1>8. /\ vehicles' \in [Vehicles -> Draft]
      /\ \A w \in Vehicles : vehicles'[w].key = vehicles[w].key
                             /\ vehicles'[w].session = vehicles[w].session
  <2>1. CASE vehicles' = vehicles
    BY <1>4, <2>1
  <2>2. CASE vehicles' = [vehicles EXCEPT ![v].draft = FALSE]
    <3>1. CASE v \in Vehicles
      <4>1. PICK d : d = [vehicles[v] EXCEPT !.draft = FALSE]
        OBVIOUS
      <4>2. d \in Draft /\ d.key = vehicles[v].key /\ d.session = vehicles[v].session
        BY <1>4, <3>1, <4>1 DEF Draft
      <4>3. vehicles' = [vehicles EXCEPT ![v] = d]
        BY <2>2, <4>1
      <4> QED BY <1>4, <3>1, <4>2, <4>3
    <3>2. CASE v \notin Vehicles
      BY <1>4, <2>2, <3>2
    <3> QED BY <3>1, <3>2
  <2> QED BY <1>3, <2>1, <2>2
<1>9. /\ batches' \subseteq Accepted /\ \A o \in batches' : o.key = o.session
      /\ \A o \in batches' : o \in batches \/ o = b
  BY <1>3, <1>4, <1>6 DEF RequestInv, KeyInv
<1>10. OncePerSession'
  <2>1. /\ OncePerSession /\ \A o \in batches : o.key = o.session
    BY DEF RequestInv, KeyInv
  <2>2. \A x, o \in batches' : x.session = o.session => x = o
    <3>1. CASE batches' = batches
      BY <2>1, <3>1 DEF OncePerSession
    <3>2. CASE /\ {o \in batches : o.key = b.key} = {} /\ batches' = batches \cup {b}
      <4>1. \A o \in batches : o.session # b.session
        BY <1>6, <2>1, <3>2
      <4> QED BY <2>1, <3>2, <4>1 DEF OncePerSession
    <3> QED BY <1>3, <3>1, <3>2
  <2> QED BY <1>8, <2>1, <2>2 DEF OncePerSession
<1>11. /\ \A w \in Vehicles : vehicles'[w].key = vehicles'[w].session
       /\ vehicles'[Existing].session = None
  BY <1>8, Apart DEF RequestInv, KeyInv
<1>12. RequestFits(k, wizard, vehicles')
  BY <1>3, <1>4, <1>7 DEF RequestFits
<1> QED BY <1>3, <1>7, <1>8, <1>9, <1>10, <1>11, <1>12, SameWizard, CallChange

(* The answer arrives: its dialog is open, went away, or was closed.       *)
LEMMA AnsweredKeeps ==
  ASSUME UploadInv, RequestInv, NEW c \in Calls, Answered(c)
  PROVE  UploadInv' /\ RequestInv'
<1>1. /\ call[c].pc \in {"ok", "refused"} /\ call' = [call EXCEPT ![c] = NoCall]
      /\ UNCHANGED <<taken, vehicles, asset, owner, batches, deletes>>
  BY DEF Answered, server
<1>2. /\ call[c] \in RequestState /\ NoCall \in RequestState /\ NoCall.pc = "idle"
      /\ RequestFits(call[c], wizard, vehicles) /\ wizard \in Wizard
      /\ call \in [Calls -> RequestState] /\ DialogFits(wizard, vehicles)
  BY CallFacts, WizardFacts
<1>3. /\ call' \in [Calls -> RequestState]
      /\ \A d \in Calls : call'[d] = call[d] \/ call'[d].pc = "idle"
  BY <1>1, <1>2
<1>4. PICK h : h = Heard(c)
  OBVIOUS
<1>5. /\ h \in Wizard /\ h.open = wizard.open /\ h.context = wizard.context
      /\ h.session = wizard.session /\ h.left = wizard.left /\ h.step = wizard.step
      /\ h.vehicle = wizard.vehicle
  BY <1>4, HeardFacts DEF SameButPending
<1>6. CASE /\ call[c].pc = "ok" /\ SameSession(c) /\ call[c].kind = "process"
           /\ IF call[c].session = wizard.session THEN CloseWizard ELSE CloseLeft(call[c].session)
  <2>1. CASE call[c].session = wizard.session
    <3>1. wizard.open /\ CloseWizard
      BY <1>2, <1>6, <2>1 DEF RequestFits
    <3> QED BY <1>1, <1>3, <3>1, CloseKeeps
  <2>2. CASE call[c].session # wizard.session
    BY <1>1, <1>3, <1>6, <2>2, CloseLeftKeeps
  <2> QED BY <2>1, <2>2
<1>7. CASE /\ call[c].pc = "ok" /\ SameSession(c) /\ call[c].kind # "process"
           /\ Becomes([Heard(c) EXCEPT !.step = "Photos",
                         !.vehicle = IF call[c].kind = "create" THEN call[c].vehicle ELSE @])
           /\ UNCHANGED photos
  <2>1. PICK v : v = IF call[c].kind = "create" THEN call[c].vehicle ELSE wizard.vehicle
    OBVIOUS
  <2>2. PICK w : w = [h EXCEPT !.step = "Photos", !.vehicle = v]
    OBVIOUS
  <2>3. Becomes(w)
    BY <1>4, <1>5, <1>7, <2>1, <2>2
  <2>4. v \in Vehicles \cup {None}
    BY <1>2, <2>1 DEF RequestState, Wizard
  <2>5. /\ w \in Wizard /\ w.open = wizard.open /\ w.context = wizard.context
        /\ w.session = wizard.session /\ w.left = wizard.left /\ w.step = "Photos"
        /\ w.vehicle = v
    BY <1>5, <2>2, <2>4 DEF Wizard, Steps
  <2>6. Owned(w, vehicles)
    <3>1. CASE call[c].kind = "create"
      <4>1. v \in Vehicles /\ vehicles[v].session = call[c].session
        BY <1>2, <1>7, <2>1, <3>1 DEF RequestFits
      <4>2. call[c].session # None
        BY CallFacts, Apart
      <4>3. v # Existing
        BY <4>1, <4>2, WizardFacts
      <4>4. PICK d \in {[session |-> wizard.session, context |-> wizard.context]} \cup wizard.left :
              d.session = call[c].session
        BY <1>7 DEF SameSession, Unclosed, ThisDialog
      <4> QED BY <2>5, <4>1, <4>3, <4>4 DEF Owned
    <3>2. CASE call[c].kind # "create"
      BY <1>2, <2>1, <2>5, <3>2 DEF DialogFits, Owned
    <3> QED BY <3>1, <3>2
  <2>7. DialogFits(w, vehicles)
    BY <1>2, <2>5, <2>6 DEF DialogFits
  <2>8. UploadInv'
    BY <1>1, <1>7, <2>3, <2>5, UploadsBecome
  <2>9. RequestInv'
    BY <1>1, <1>3, <2>3, <2>5, <2>7, RequestsBecome
  <2> QED BY <2>8, <2>9
<1>8. CASE Becomes(Heard(c)) /\ UNCHANGED photos
  <2>1. Becomes(h)
    BY <1>4, <1>8
  <2>2. DialogFits(h, vehicles)
    BY <1>2, <1>5 DEF DialogFits, Owned
  <2>3. UploadInv'
    BY <1>1, <1>5, <1>8, <2>1, SameSubmittable, UploadsBecome
  <2>4. RequestInv'
    BY <1>1, <1>3, <1>5, <2>1, <2>2, RequestsBecome
  <2> QED BY <2>3, <2>4
<1> QED BY <1>6, <1>7, <1>8 DEF Answered

LEMMA CallNextKeeps ==
  ASSUME UploadInv, RequestInv, NEW c \in Calls, CallNext(c)
  PROVE  UploadInv' /\ RequestInv'
<1>1. CASE Answered(c)
  BY <1>1, AnsweredKeeps
<1>2. CASE ~Answered(c)
  <2>1. RequestInv'
    BY <1>2, SentKeeps, GiveUpKeeps, FindByKeyKeeps, RefusedOrReplayed, InsertVehicleKeeps,
       UpdateDraftKeeps, ReserveBatchKeeps DEF CallNext
  <2>2. UNCHANGED <<photos, taken, queue, asset, deletes>>
    BY <1>2 DEF CallNext, SaveDetails, Process, Request, GiveUp, CallFails, FindByKey,
                ReplayCreate, InsertVehicle, UpdateDraft, ReserveBatch, server
  <2>3. wizard' = wizard \/ wizard' = [wizard EXCEPT !.pending = c] \/ wizard' = Heard(c)
    BY <1>2 DEF CallNext, SaveDetails, Process, Request, GiveUp, CallFails, FindByKey,
                ReplayCreate, InsertVehicle, UpdateDraft, ReserveBatch
  <2>4. SameButPending(wizard')
    <3>1. CASE wizard' = wizard
      BY <3>1, SameWizard
    <3>2. CASE wizard' = [wizard EXCEPT !.pending = c]
      BY <3>2, PendingFacts
    <3>3. CASE wizard' = Heard(c)
      BY <3>3, HeardFacts
    <3> QED BY <2>3, <3>1, <3>2, <3>3
  <2>5. FormOf(wizard') = FormOf(wizard) /\ wizard'.step = wizard.step
    BY <2>4 DEF SameButPending, FormOf
  <2>6. UploadInv'
    BY <2>2, <2>5, UploadsSame
  <2> QED BY <2>1, <2>6
<1> QED BY <1>1, <1>2
-----------------------------------------------------------------------------
LEMMA Initially ==
  ASSUME Init
  PROVE  WizardInv
<1> USE DEF Init
<1>1. UploadTypes
  <2>1. NoRow \in Row /\ NoUpload \in UploadState
    BY DEF NoRow, Row, NoUpload, UploadState
  <2>2. pending \in Seq(Uploads) /\ active \in 0..Concurrency
    BY Apart
  <2>3. asset \in [Photos -> {"PENDING_UPLOAD", "UPLOADED", "INVALID", "DELETED"}]
    OBVIOUS
  <2> QED BY <2>1, <2>2, <2>3, Apart DEF UploadTypes
<1>2. QueueInv
  <2>1. Held(upload) = {}
    BY DEF Held, NoUpload
  <2>2. IsFiniteSet(Held(upload)) /\ active = Cardinality(Held(upload)) /\ active <= Concurrency
    <3>1. IsFiniteSet(Held(upload)) /\ Cardinality(Held(upload)) = 0
      BY <2>1, FS_EmptySet
    <3>2. active = 0 /\ active <= Concurrency
      BY Apart
    <3> QED BY <3>1, <3>2
  <2>3. \A i : i \notin 1..Len(pending)
    OBVIOUS
  <2>4. \A a \in Uploads : upload[a].pc # "waiting"
    BY DEF NoUpload
  <2> QED BY <2>2, <2>3, <2>4 DEF QueueInv, QueueFits
<1>3. ControlInv
  BY DEF ControlInv, Controls, NoUpload
<1>4. RowInv
  <2>1. \A p \in Photos : RowFits(p, photos[p], controllers[p] # None, asset, deletes, taken)
    BY DEF RowFits, NoRow
  <2> QED BY <2>1 DEF RowInv, RowsFit
<1>5. PICK n : n = 0
  OBVIOUS
<1>6. NoCall \in RequestState /\ NoCall.pc = "idle" /\ NoVehicle \in Draft
  BY Apart DEF NoCall, RequestState, NoVehicle, Draft
<1>7. DialogTypes
  <2>1. n \in 0..MaxSessions
    BY <1>5, Apart
  <2>2. wizard = [open |-> FALSE, context |-> "new", session |-> n, pending |-> None, left |-> {},
                  step |-> "Details", mode |-> "new", vehicle |-> None, details |-> Blank]
    BY <1>5
  <2>3. wizard \in Wizard
    BY <2>1, <2>2, Apart DEF Wizard, Steps, Contexts
  <2>4. owner \in [Photos -> Vehicles \cup {None}]
    BY Apart
  <2> QED BY <1>6, <2>3, <2>4 DEF DialogTypes
<1>8. DialogInv
  BY DEF DialogInv, DialogFits, Owned
<1>9. KeyInv
  BY <1>6, Apart DEF KeyInv, RequestFits, OncePerSession, NoVehicle
<1> QED BY <1>1, <1>2, <1>3, <1>4, <1>7, <1>8, <1>9 DEF WizardInv, UploadInv, RequestInv

LEMMA Step ==
  ASSUME WizardInv, [Next]_vars
  PROVE  WizardInv'
<1>1. UploadInv /\ RequestInv /\ wizard \in Wizard
  BY DEF WizardInv, RequestInv, DialogTypes
<1>2. CASE PhotoNext \/ \E a \in Uploads : UploadNext(a)
  BY <1>1, <1>2, PhotoNextKeeps, UploadNextKeeps, PhotoStepsRequests DEF WizardInv
<1>3. CASE \E c \in Calls : CallNext(c)
  BY <1>1, <1>3, CallNextKeeps DEF WizardInv
<1>4. CASE \E d \in Details : SetDetails(d)
  BY <1>1, <1>4, SetDetailsKeeps DEF WizardInv
<1>5. CASE OpenNew \/ OpenExisting \/ Close \/ Leave
  BY <1>1, <1>5, OpenNewKeeps, OpenExistingKeeps, CloseStepKeeps, LeaveKeeps DEF WizardInv
<1>6. CASE Continue \/ BackToDetails \/ BackToPhotos \/ ToReview \/ BackFromReview
  BY <1>1, <1>6, TurnsKeep DEF WizardInv
<1>7. CASE UNCHANGED vars
  <2>1. UNCHANGED <<wizard, photos, taken, queue, call, vehicles, asset, owner, batches, deletes>>
    BY <1>7 DEF vars, server
  <2>2. owner' \in [Photos -> Vehicles \cup {None}]
    BY <1>1, <2>1 DEF RequestInv, DialogTypes
  <2> QED BY <1>1, <2>1, <2>2, UploadsSame, RequestsSame DEF WizardInv
<1> QED BY <1>2, <1>3, <1>4, <1>5, <1>6, <1>7 DEF Next

(* The invariant of the dialog, its uploads and its requests.              *)
THEOREM WizardInvariance == Spec => []WizardInv
<1>1. Init => WizardInv
  BY Initially
<1>2. WizardInv /\ [Next]_vars => WizardInv'
  BY Step
<1> QED BY <1>1, <1>2, PTL DEF Spec

(* Every variable keeps its type.                                          *)
THEOREM TypeCorrectness == Spec => []TypeOK
<1>1. WizardInv => TypeOK
  BY Typed DEF WizardInv, UploadInv, RequestInv
<1> QED BY <1>1, WizardInvariance, PTL

(* The scheduler's count is the uploads of its step that run, at most as    *)
(* many as it has slots, and nobody waits for a slot that is free           *)
(* (create-upload-scheduler.ts).                                           *)
THEOREM SlotsAreTrue == Spec => []SlotsMatch
<1>1. WizardInv => SlotsMatch
  <2> SUFFICES ASSUME WizardInv PROVE SlotsMatch
    OBVIOUS
  <2>1. /\ QueueFits(upload, pending, active) /\ pending \in Seq(Uploads)
        /\ pending # <<>> => active = Concurrency
    BY DEF WizardInv, UploadInv, QueueInv, UploadTypes
  <2>2. {a \in Live : upload[a].here /\ upload[a].pc # "waiting"} = Held(upload)
    BY DEF Live, Held
  <2>3. DOMAIN pending = 1..Len(pending)
    BY <2>1, LenProperties
  <2> QED BY <2>1, <2>2, <2>3 DEF SlotsMatch, QueueFits
<1> QED BY <1>1, WizardInvariance, PTL

(* Only a photo of the list that the dialog shows is uploaded, and once at a*)
(* time.                                                                   *)
THEOREM OnlyWantedUploads == Spec => []UploadsAreWanted
<1>1. WizardInv => UploadsAreWanted
  <2> SUFFICES ASSUME WizardInv, NEW a \in Live, ~upload[a].aborted
               PROVE  /\ Shown("Photos") /\ upload[a].photo \in Listed
                      /\ \A b \in Live : upload[b].photo = upload[a].photo /\ ~upload[b].aborted
                                           => a = b
    BY DEF UploadsAreWanted
  <2>1. /\ Controls(upload, controllers, taken, FormOf(wizard)) /\ taken \subseteq Photos
        /\ RowsFit(photos, controllers, asset, deletes, taken)
    BY DEF WizardInv, UploadInv, UploadTypes, ControlInv, RowInv
  <2>2. a \in Uploads /\ a # None /\ upload[a].pc # "idle"
    BY Apart DEF Live
  <2>3. PICK p \in Photos : p = upload[a].photo /\ controllers[p] = a
    BY <2>1, <2>2 DEF Controls
  <2>4. upload[a].here
    BY <2>1, <2>2, <2>3 DEF Controls
  <2>5. Shown("Photos")
    BY <2>1, <2>2, <2>4 DEF Controls, Shown
  <2>6. RowFits(p, photos[p], controllers[p] # None, asset, deletes, taken)
    BY <2>1 DEF RowsFit
  <2>7. p \in Listed
    BY <2>2, <2>3, <2>6 DEF RowFits, Listed
  <2>8. ASSUME NEW b \in Live, upload[b].photo = upload[a].photo, ~upload[b].aborted
        PROVE  a = b
    BY <2>1, <2>3, <2>8 DEF Controls, Live
  <2> QED BY <2>3, <2>5, <2>7, <2>8
<1> QED BY <1>1, WizardInvariance, PTL

(* Past the photos step every selected photo is stored, although answers of *)
(* commits and removals get lost (handleContinue).                         *)
THEOREM StoredPhotosContinue == Spec => []ContinuesWithStoredPhotos
<1>1. WizardInv => ContinuesWithStoredPhotos
  <2> SUFFICES ASSUME WizardInv, wizard.step \in {"Customize", "Review"}
               PROVE  Chosen # {} /\ \A p \in Chosen : asset[p] = "UPLOADED"
    BY DEF ContinuesWithStoredPhotos
  <2>1. Submittable /\ RowsFit(photos, controllers, asset, deletes, taken)
    BY DEF WizardInv, UploadInv, RowInv
  <2> QED BY <2>1 DEF Submittable, RowsFit, RowFits, Chosen, Listed
<1> QED BY <1>1, WizardInvariance, PTL

(* The store's vehicle is of a dialog nobody closed, be it open or gone with*)
(* its page: after closeWizard neither the store nor a late answer brings   *)
(* the closed dialog's vehicle to the next one.                            *)
THEOREM OwnVehicle == Spec => []VehicleOfSession
<1>1. WizardInv => VehicleOfSession
  BY VehicleOwned DEF WizardInv, RequestInv, DialogInv, DialogFits
<1> QED BY <1>1, WizardInvariance, PTL

(* One dialog creates one vehicle and one batch at most, however often a    *)
(* request is repeated under its Idempotency-Key.                          *)
THEOREM CreatedOnce == Spec => []OncePerSession
<1>1. WizardInv => OncePerSession
  BY DEF WizardInv, RequestInv, KeyInv
<1> QED BY <1>1, WizardInvariance, PTL
=============================================================================
