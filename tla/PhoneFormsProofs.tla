-------------------------- MODULE PhoneFormsProofs --------------------------
(***************************************************************************)
(* Proofs about PhoneForms for any number of pages, numbers, challenges and *)
(* requests: types, what a code field belongs to, the cookie of a page, and *)
(* that a spent request is left alone.                                      *)
(***************************************************************************)
EXTENDS PhoneForms, TLAPS

(* What holds of a page p with state pg and handlers fl, given the         *)
(* challenges ch, the requests rq, those over and the cookie b.            *)

(* A handler runs in its stage with its buttons disabled, so it runs alone *)
(* on what it captured.                                                    *)
RunsAlone(p, pg, fl) ==
  /\ fl["start"].at \in {"idle", "reserve", "load", "send"}
  /\ fl["resend"].at \in {"idle", "reserve", "load", "retry", "send"}
  /\ fl["verify"].at \in {"idle", "verify", "submit"}
  /\ fl["create"].at \in {"idle", "create"}
  /\ fl["start"].at # "idle" => pg.stage = "EnterPhone" /\ pg.pending
  /\ fl["resend"].at # "idle" =>
       p \in SignInPages /\ pg.stage = "VerifyOtp" /\ pg.resending /\ ~pg.pending
  /\ fl["verify"].at # "idle" => pg.stage = "VerifyOtp" /\ pg.pending /\ ~pg.resending
  /\ fl["create"].at # "idle" => pg.stage = "CreateAccount" /\ pg.pending

(* The request of a page was opened by its own widget.                     *)
OwnRequest(p, pg, rq) ==
  /\ pg.request # 0 => pg.request \in DOMAIN rq /\ rq[pg.request].page = p
  /\ ~pg.widget /\ p \notin SignInPages => pg.request = 0

(* The last request that page p opened is for number n.                    *)
LastIsFor(p, n, rq) ==
  \E r \in DOMAIN rq :
    /\ rq[r] = [number |-> n, page |-> p]
    /\ \A q \in DOMAIN rq : rq[q].page = p => q <= r

CodeFits(p, pg, ch, rq, ov, b) ==
  pg.stage = "VerifyOtp" =>
    /\ pg.number \in Numbers
    /\ pg.challenge \in DOMAIN ch /\ ch[pg.challenge].number = pg.number
    /\ pg.request # 0 => rq[pg.request].number = pg.number
    /\ p \in SignInPages => LastIsFor(p, pg.number, rq)
    /\ b # 0 /\ ch[b].page = p => pg.challenge = b
    /\ p \in SignInPages /\ pg.request \in ov => pg.spent

HandlersFit(p, pg, fl, ch, b) ==
  /\ fl["start"].at # "idle" =>
       /\ fl["start"].number \in Numbers
       /\ fl["start"].sends => pg.widget
       /\ ~fl["start"].sends =>
            pg.request = 0 /\ fl["start"].at = "reserve" /\ p \notin SignInPages
  /\ fl["start"].at \in {"load", "send"} =>
       /\ fl["start"].challenge \in DOMAIN ch
       /\ ch[fl["start"].challenge].number = fl["start"].number
       /\ b # 0 /\ ch[b].page = p => fl["start"].challenge = b
  /\ fl["resend"].at # "idle" =>
       /\ fl["resend"].number = pg.number /\ fl["resend"].request = pg.request
       /\ fl["resend"].spent = pg.spent /\ fl["resend"].sends
       /\ fl["resend"].at = "retry" => ~pg.spent
  /\ fl["verify"].at = "verify" => fl["verify"].request = pg.request /\ ~pg.spent

Form(p, pg, fl, ch, rq, ov, b) ==
  /\ RunsAlone(p, pg, fl)
  /\ OwnRequest(p, pg, rq)
  /\ CodeFits(p, pg, ch, rq, ov, b)
  /\ HandlersFit(p, pg, fl, ch, b)

FormInv ==
  /\ TypeOK
  /\ cookies.binding \in 0..Len(challenge)
  /\ \A p \in Pages : Form(p, page[p], flow[p], challenge, request, over, cookies.binding)
-----------------------------------------------------------------------------
LEMMA FormInvInit == Init => FormInv
<1> SUFFICES ASSUME Init PROVE FormInv
  OBVIOUS
<1>1. Blank \in Page /\ Idle \in Flow
  BY DEF Blank, Page, Stages, Idle, Flow
<1>2. TypeOK
  BY <1>1 DEF Init, TypeOK
<1>3. ASSUME NEW p \in Pages
      PROVE  Form(p, page[p], flow[p], challenge, request, over, cookies.binding)
  BY DEF Init, Form, RunsAlone, OwnRequest, CodeFits, HandlersFit, Blank, Idle, Flows
<1> QED BY <1>2, <1>3 DEF FormInv, Init

-----------------------------------------------------------------------------
(* What a page's step does to what pages share, and that no other page     *)
(* minds.                                                                  *)

LEMMA ChallengeGrows ==
  ASSUME FormInv, NEW p \in Pages, NEW n \in Numbers, NEW q \in Pages \ {p}
  PROVE  LET ch == Append(challenge, [number |-> n, page |-> p]) IN
         Form(q, page[q], flow[q], ch, request, over, Len(ch))
<1> DEFINE ch == Append(challenge, [number |-> n, page |-> p])
<1>1. challenge \in Seq(Challenge) /\ Form(q, page[q], flow[q], challenge, request, over, cookies.binding)
  BY DEF FormInv, TypeOK
<1>2. /\ Len(ch) = Len(challenge) + 1 /\ DOMAIN challenge \subseteq DOMAIN ch
      /\ \A c \in DOMAIN challenge : ch[c] = challenge[c]
      /\ ch[Len(ch)].page = p
  BY <1>1
<1> HIDE DEF ch
<1>3. Form(q, page[q], flow[q], ch, request, over, Len(ch))
  BY <1>1, <1>2 DEF Form, CodeFits, HandlersFit
<1> QED BY <1>3 DEF ch

LEMMA RequestGrows ==
  ASSUME FormInv, NEW p \in Pages, NEW n \in Numbers, NEW q \in Pages \ {p}
  PROVE  Form(q, page[q], flow[q], challenge,
              Append(request, [number |-> n, page |-> p]), over, cookies.binding)
<1> DEFINE rq == Append(request, [number |-> n, page |-> p])
<1>1. /\ request \in Seq(Request)
      /\ Form(q, page[q], flow[q], challenge, request, over, cookies.binding)
  BY DEF FormInv, TypeOK
<1>2. /\ Len(rq) = Len(request) + 1 /\ DOMAIN rq = 1..Len(rq) /\ DOMAIN request = 1..Len(request)
      /\ \A r \in DOMAIN request : rq[r] = request[r]
      /\ rq[Len(rq)].page = p
  BY <1>1
<1> HIDE DEF rq
<1>3. ASSUME NEW m, LastIsFor(q, m, request) PROVE LastIsFor(q, m, rq)
  BY <1>2, <1>3 DEF LastIsFor
<1>4. OwnRequest(q, page[q], rq)
  BY <1>1, <1>2 DEF Form, OwnRequest
<1>5. CodeFits(q, page[q], challenge, rq, over, cookies.binding)
  BY <1>1, <1>2, <1>3 DEF Form, CodeFits, OwnRequest
<1> QED BY <1>1, <1>4, <1>5 DEF Form, rq

LEMMA OverGrows ==
  ASSUME FormInv, NEW r \in DOMAIN request, NEW q \in Pages, request[r].page # q
  PROVE  Form(q, page[q], flow[q], challenge, request, over \cup {r}, cookies.binding)
<1>1. /\ request \in Seq(Request)
      /\ Form(q, page[q], flow[q], challenge, request, over, cookies.binding)
  BY DEF FormInv, TypeOK
<1>2. page[q].request # r
  BY <1>1 DEF Form, OwnRequest
<1> QED BY <1>1, <1>2 DEF Form, CodeFits

LEMMA CookieClears ==
  ASSUME FormInv, NEW q \in Pages
  PROVE  Form(q, page[q], flow[q], challenge, request, over, 0)
BY DEF FormInv, Form, CodeFits, HandlersFit

(* A step of page p is good if its own form is, and nobody else minds.     *)
LEMMA PageMoves ==
  ASSUME FormInv, NEW p \in Pages, NEW pg \in Page, NEW fl \in [Flows -> Flow],
         page' = [page EXCEPT ![p] = pg], flow' = [flow EXCEPT ![p] = fl],
         challenge' \in Seq(Challenge), request' \in Seq(Request), over' \subseteq DOMAIN request',
         cookies' \in [binding: Nat, verified: Nat], cookies'.binding \in 0..Len(challenge'),
         \A q \in Pages \ {p} :
           Form(q, page[q], flow[q], challenge', request', over', cookies'.binding),
         Form(p, pg, fl, challenge', request', over', cookies'.binding)
  PROVE  FormInv'
<1>1. page \in [Pages -> Page] /\ flow \in [Pages -> [Flows -> Flow]]
  BY DEF FormInv, TypeOK
<1>2. TypeOK'
  BY <1>1 DEF TypeOK
<1>3. ASSUME NEW q \in Pages
      PROVE  Form(q, page'[q], flow'[q], challenge', request', over', cookies'.binding)
  BY <1>1
<1> QED BY <1>2, <1>3 DEF FormInv

(* A step that leaves the challenges, the requests and the cookie, or      *)
(* clears the cookie.                                                      *)
LEMMA PageMovesAlone ==
  ASSUME FormInv, NEW p \in Pages, NEW pg \in Page, NEW fl \in [Flows -> Flow],
         page' = [page EXCEPT ![p] = pg], flow' = [flow EXCEPT ![p] = fl],
         UNCHANGED <<challenge, request, over>>,
         cookies' \in [binding: Nat, verified: Nat], cookies'.binding \in {0, cookies.binding},
         Form(p, pg, fl, challenge, request, over, cookies'.binding)
  PROVE  FormInv'
<1>1. TypeOK /\ cookies.binding \in 0..Len(challenge)
  BY DEF FormInv
<1>2. \A q \in Pages \ {p} :
        Form(q, page[q], flow[q], challenge, request, over, cookies'.binding)
  BY CookieClears DEF FormInv
<1>3. cookies'.binding \in 0..Len(challenge)
  BY <1>1 DEF TypeOK
<1>4. challenge \in Seq(Challenge) /\ request \in Seq(Request) /\ over \subseteq DOMAIN request
  BY <1>1 DEF TypeOK
<1> QED BY <1>2, <1>3, <1>4, PageMoves

LEMMA PageFacts ==
  ASSUME FormInv, NEW p \in Pages
  PROVE  /\ page[p] \in Page /\ flow[p] \in [Flows -> Flow]
         /\ page \in [Pages -> Page] /\ flow \in [Pages -> [Flows -> Flow]]
         /\ challenge \in Seq(Challenge) /\ request \in Seq(Request)
         /\ cookies \in [binding: Nat, verified: Nat] /\ over \subseteq DOMAIN request
         /\ cookies.binding \in 0..Len(challenge)
         /\ Form(p, page[p], flow[p], challenge, request, over, cookies.binding)
BY DEF FormInv, TypeOK

LEMMA IdleTypes == Idle \in Flow /\ Idle.at = "idle" /\ Blank \in Page
BY DEF Idle, Flow, Blank, Page, Stages

(* Without a handler a form is good if its request and its code field are. *)
LEMMA AtRest ==
  ASSUME NEW p, NEW pg, NEW fl, NEW ch, NEW rq, NEW ov, NEW b,
         \A f \in Flows : fl[f].at = "idle",
         OwnRequest(p, pg, rq), CodeFits(p, pg, ch, rq, ov, b)
  PROVE  Form(p, pg, fl, ch, rq, ov, b)
BY DEF Form, RunsAlone, HandlersFit, Flows

(* The handler that ends was the only one.                                 *)
LEMMA NoneLeft ==
  ASSUME FormInv, NEW p \in Pages, NEW f \in Flows, flow[p][f].at # "idle"
  PROVE  LET fl == [flow[p] EXCEPT ![f] = Idle] IN
         /\ fl \in [Flows -> Flow]
         /\ \A g \in Flows : fl[g].at = "idle"
<1>1. flow[p] \in [Flows -> Flow] /\ RunsAlone(p, page[p], flow[p])
  BY PageFacts DEF Form
<1>2. \A g \in Flows \ {f} : flow[p][g].at = "idle"
  BY <1>1 DEF RunsAlone, Flows
<1> QED BY <1>1, <1>2, IdleTypes

(* What a handler leaves of pg when it ends.                               *)
LEMMA EndTypes ==
  ASSUME NEW f \in Flows, NEW pg \in Page
  PROVE  /\ Finally(f, pg) \in Page
         /\ \A p, rq : OwnRequest(p, pg, rq) => OwnRequest(p, Finally(f, pg), rq)
         /\ \A p, ch, rq, ov, b :
               CodeFits(p, pg, ch, rq, ov, b) => CodeFits(p, Finally(f, pg), ch, rq, ov, b)
<1> DEFINE fpg == Finally(f, pg)
<1>1. fpg \in Page
  BY DEF Finally, Page
<1>2. /\ fpg.stage = pg.stage /\ fpg.number = pg.number /\ fpg.challenge = pg.challenge
      /\ fpg.request = pg.request /\ fpg.spent = pg.spent /\ fpg.widget = pg.widget
  BY DEF Finally, Page
<1> HIDE DEF fpg
<1>3. \A p, rq : OwnRequest(p, pg, rq) => OwnRequest(p, fpg, rq)
  BY <1>2 DEF OwnRequest
<1>4. \A p, ch, rq, ov, b : CodeFits(p, pg, ch, rq, ov, b) => CodeFits(p, fpg, ch, rq, ov, b)
  BY <1>2 DEF CodeFits
<1> QED BY <1>1, <1>3, <1>4 DEF fpg

(* A handler of page p ends, leaving of it pg, and the rest or a cleared   *)
(* cookie.                                                                 *)
LEMMA EndKeeps ==
  ASSUME FormInv, NEW p \in Pages, NEW f \in Flows, flow[p][f].at # "idle",
         NEW pg \in Page, End(p, f, pg), UNCHANGED <<challenge, request, over>>,
         cookies' \in [binding: Nat, verified: Nat], cookies'.binding \in {0, cookies.binding},
         OwnRequest(p, pg, request), CodeFits(p, pg, challenge, request, over, cookies'.binding)
  PROVE  FormInv'
<1> DEFINE fl == [flow[p] EXCEPT ![f] = Idle]
<1>1. flow \in [Pages -> [Flows -> Flow]]
  BY PageFacts
<1>2. page' = [page EXCEPT ![p] = Finally(f, pg)] /\ flow' = [flow EXCEPT ![p] = fl]
  BY <1>1 DEF End
<1>3. fl \in [Flows -> Flow] /\ \A g \in Flows : fl[g].at = "idle"
  BY NoneLeft
<1> HIDE DEF fl
<1>4. /\ Finally(f, pg) \in Page
      /\ OwnRequest(p, Finally(f, pg), request)
      /\ CodeFits(p, Finally(f, pg), challenge, request, over, cookies'.binding)
  BY EndTypes
<1>5. Form(p, Finally(f, pg), fl, challenge, request, over, cookies'.binding)
  BY <1>3, <1>4, AtRest
<1> QED BY <1>2, <1>3, <1>4, <1>5, PageMovesAlone
-----------------------------------------------------------------------------
(* Clicks                                                                  *)

LEMMA LoadKeeps ==
  ASSUME FormInv, NEW p \in Pages, LoadPage(p)
  PROVE  FormInv'
<1> DEFINE fl == [f \in Flows |-> Idle]
<1>1. PICK s \in {"EnterPhone", "AccountChoices"} :
        page' = [page EXCEPT ![p] = [Blank EXCEPT !.stage = s]]
  BY DEF LoadPage
<1> DEFINE pg == [Blank EXCEPT !.stage = s]
<1>2. pg \in Page /\ pg.stage # "VerifyOtp" /\ pg.request = 0
  BY DEF Blank, Page, Stages
<1>3. fl \in [Flows -> Flow] /\ \A f \in Flows : fl[f].at = "idle"
  BY IdleTypes
<1>4. /\ page' = [page EXCEPT ![p] = pg] /\ flow' = [flow EXCEPT ![p] = fl]
      /\ UNCHANGED <<cookies, challenge, request, over>>
  BY <1>1 DEF LoadPage
<1> HIDE DEF pg, fl
<1>5. Form(p, pg, fl, challenge, request, over, cookies.binding)
  BY <1>2, <1>3, AtRest DEF OwnRequest, CodeFits
<1> QED BY <1>2, <1>3, <1>4, <1>5, PageFacts, PageMovesAlone

(* A click or an answer that starts no handler and ends none.              *)
LEMMA ShowKeeps ==
  ASSUME FormInv, NEW p \in Pages, NEW pg \in Page,
         page' = [page EXCEPT ![p] = pg], UNCHANGED <<flow, cookies, challenge, request, over>>,
         Form(p, pg, flow[p], challenge, request, over, cookies.binding)
  PROVE  FormInv'
<1> DEFINE fl == flow[p]
<1>1. fl \in [Flows -> Flow] /\ flow' = [flow EXCEPT ![p] = fl]
  BY PageFacts
<1> HIDE DEF fl
<1>2. Form(p, pg, fl, challenge, request, over, cookies.binding)
  BY DEF fl
<1> QED BY <1>1, <1>2, PageFacts, PageMovesAlone

LEMMA ResolveKeeps ==
  ASSUME FormInv, NEW p \in Pages, ResolveWidget(p)
  PROVE  FormInv'
<1> DEFINE pg == [page[p] EXCEPT !.widget = TRUE]
<1>1. page[p] \in Page /\ page \in [Pages -> Page]
      /\ Form(p, page[p], flow[p], challenge, request, over, cookies.binding)
  BY PageFacts
<1>2. pg \in Page /\ page' = [page EXCEPT ![p] = pg]
  BY <1>1 DEF ResolveWidget, Page
<1>3. pg.widget /\ \A x \in DOMAIN page[p] : x # "widget" => pg[x] = page[p][x]
  BY <1>1 DEF Page
<1>4. /\ pg.stage = page[p].stage /\ pg.number = page[p].number
      /\ pg.challenge = page[p].challenge /\ pg.request = page[p].request
      /\ pg.spent = page[p].spent /\ pg.pending = page[p].pending
      /\ pg.resending = page[p].resending
  BY <1>1 DEF Page
<1> HIDE DEF pg
<1>5. Form(p, pg, flow[p], challenge, request, over, cookies.binding)
  BY <1>1, <1>3, <1>4 DEF Form, RunsAlone, OwnRequest, CodeFits, HandlersFit
<1> QED BY <1>2, <1>5, ShowKeeps DEF ResolveWidget

(* The buttons whose handlers are one step are enabled when no handler runs *)
(* that they could disturb.                                                *)
LEMMA Unoccupied ==
  ASSUME FormInv, NEW p \in Pages,
         \/ ~Busy(p)
         \/ ~page[p].pending /\ page[p].stage # "VerifyOtp"
         \/ ~page[p].pending /\ p \notin SignInPages
  PROVE  \A f \in Flows : flow[p][f].at = "idle"
BY PageFacts DEF Form, RunsAlone, Busy, Flows

LEMMA TurnKeeps ==
  ASSUME FormInv, NEW p \in Pages, NEW pg \in Page, pg.stage # "VerifyOtp",
         page' = [page EXCEPT ![p] = pg], UNCHANGED <<flow, cookies, challenge, request, over>>,
         \A f \in Flows : flow[p][f].at = "idle",
         OwnRequest(p, pg, request)
  PROVE  FormInv'
<1>1. CodeFits(p, pg, challenge, request, over, cookies.binding)
  BY DEF CodeFits
<1>2. Form(p, pg, flow[p], challenge, request, over, cookies.binding)
  BY <1>1, AtRest
<1> QED BY <1>2, ShowKeeps

LEMMA LeavesCode ==
  ASSUME FormInv, NEW p \in Pages, ChangeNumber(p) \/ Cancel(p)
  PROVE  FormInv'
<1>1. page[p] \in Page /\ page \in [Pages -> Page] /\ OwnRequest(p, page[p], request)
  BY PageFacts DEF Form
<1>2. CASE ChangeNumber(p)
  <2> DEFINE pg == [page[p] EXCEPT !.stage = "EnterPhone", !.challenge = 0,
                                   !.request = 0, !.spent = FALSE]
  <2>1. pg \in Page /\ pg.stage # "VerifyOtp" /\ pg.request = 0
    BY <1>1 DEF Page, Stages
  <2>2. page' = [page EXCEPT ![p] = pg] /\ UNCHANGED <<flow, cookies, challenge, request, over>>
    BY <1>1, <1>2 DEF ChangeNumber
  <2>3. \A f \in Flows : flow[p][f].at = "idle"
    BY <1>2, Unoccupied DEF ChangeNumber
  <2> HIDE DEF pg
  <2> QED BY <2>1, <2>2, <2>3, TurnKeeps DEF OwnRequest
<1>3. CASE Cancel(p)
  <2> DEFINE pg == [page[p] EXCEPT !.stage = "EnterPhone", !.challenge = 0]
  <2>1. /\ pg \in Page /\ pg.stage # "VerifyOtp"
        /\ pg.request = page[p].request /\ pg.widget = page[p].widget
    BY <1>1 DEF Page, Stages
  <2>2. page' = [page EXCEPT ![p] = pg] /\ UNCHANGED <<flow, cookies, challenge, request, over>>
    BY <1>1, <1>3 DEF Cancel
  <2>3. \A f \in Flows : flow[p][f].at = "idle"
    BY <1>3, Unoccupied, ConstantsAssumption DEF Cancel
  <2> HIDE DEF pg
  <2> QED BY <1>1, <2>1, <2>2, <2>3, TurnKeeps DEF OwnRequest
<1> QED BY <1>2, <1>3

LEMMA ChoicesKeep ==
  ASSUME FormInv, NEW p \in Pages,
         NEW from \in {"AccountChoices", "CreateAccount"},
         NEW to \in {"AccountChoices", "CreateAccount"}, Turn(p, from, to)
  PROVE  FormInv'
<1>1. page[p] \in Page /\ page \in [Pages -> Page] /\ OwnRequest(p, page[p], request)
  BY PageFacts DEF Form
<1> DEFINE pg == [page[p] EXCEPT !.stage = to]
<1>2. pg \in Page
  BY <1>1 DEF Page, Stages
<1>3. /\ pg.stage # "VerifyOtp"
      /\ pg.request = page[p].request /\ pg.widget = page[p].widget
  BY <1>1 DEF Page
<1>4. \A f \in Flows : flow[p][f].at = "idle"
  <2>1. ~page[p].pending /\ page[p].stage # "VerifyOtp"
    BY DEF Turn
  <2> QED BY <2>1, Unoccupied
<1>5. page' = [page EXCEPT ![p] = pg] /\ UNCHANGED <<flow, cookies, challenge, request, over>>
  BY <1>1 DEF Turn
<1> HIDE DEF pg
<1>6. OwnRequest(p, pg, request)
  BY <1>1, <1>3 DEF OwnRequest
<1> QED BY <1>2, <1>3, <1>4, <1>5, <1>6, TurnKeeps

(* A click that starts handler f, running alone on what it captured.       *)
LEMMA BeginKeeps ==
  ASSUME FormInv, NEW p \in Pages, NEW f \in Flows, NEW h \in Flow, Begin(p, f, h),
         \A g \in Flows : flow[p][g].at = "idle",
         f = "start" => /\ page[p].stage = "EnterPhone" /\ h.at = "reserve" /\ h.number \in Numbers
                        /\ h.sends => page[p].widget
                        /\ ~h.sends => page[p].request = 0 /\ p \notin SignInPages,
         f = "resend" => /\ p \in SignInPages /\ page[p].stage = "VerifyOtp" /\ ~page[p].pending
                         /\ h.at = "reserve" /\ h.sends
                         /\ h.number = page[p].number /\ h.request = page[p].request
                         /\ h.spent = page[p].spent,
         f = "verify" => /\ page[p].stage = "VerifyOtp" /\ ~page[p].resending
                         /\ h.at = "verify" /\ h.request = page[p].request /\ ~page[p].spent,
         f = "create" => page[p].stage = "CreateAccount" /\ h.at = "create"
  PROVE  FormInv'
<1>1. /\ page[p] \in Page /\ flow[p] \in [Flows -> Flow]
      /\ page \in [Pages -> Page] /\ flow \in [Pages -> [Flows -> Flow]]
      /\ Form(p, page[p], flow[p], challenge, request, over, cookies.binding)
      /\ cookies \in [binding: Nat, verified: Nat]
  BY PageFacts
<1> DEFINE pg == IF f = "resend" THEN [page[p] EXCEPT !.resending = TRUE]
                                 ELSE [page[p] EXCEPT !.pending = TRUE]
           fl == [flow[p] EXCEPT ![f] = h]
<1>2. pg \in Page /\ fl \in [Flows -> Flow]
  BY <1>1 DEF Page
<1>3. /\ pg.stage = page[p].stage /\ pg.number = page[p].number
      /\ pg.challenge = page[p].challenge /\ pg.request = page[p].request
      /\ pg.spent = page[p].spent /\ pg.widget = page[p].widget
  BY <1>1 DEF Page
<1>4. /\ pg.pending = (page[p].pending \/ f # "resend")
      /\ pg.resending = (page[p].resending \/ f = "resend")
  <2>1. CASE f = "resend"
    BY <1>1, <2>1 DEF Page
  <2>2. CASE f # "resend"
    BY <1>1, <2>2 DEF Page
  <2> QED BY <2>1, <2>2
<1>5. fl[f] = h /\ \A g \in Flows \ {f} : fl[g].at = "idle"
  BY <1>1
<1>6. /\ page' = [page EXCEPT ![p] = pg] /\ flow' = [flow EXCEPT ![p] = fl]
      /\ UNCHANGED <<cookies, challenge, request, over>>
  BY <1>1 DEF Begin
<1> HIDE DEF pg, fl
<1>7. RunsAlone(p, pg, fl)
  BY <1>3, <1>4, <1>5 DEF RunsAlone, Flows
<1>8. OwnRequest(p, pg, request) /\ CodeFits(p, pg, challenge, request, over, cookies.binding)
  BY <1>1, <1>3 DEF Form, OwnRequest, CodeFits
<1>9. HandlersFit(p, pg, fl, challenge, cookies.binding)
  BY <1>3, <1>5 DEF HandlersFit, Flows
<1>10. Form(p, pg, fl, challenge, request, over, cookies.binding)
  BY <1>7, <1>8, <1>9 DEF Form
<1> QED BY <1>1, <1>2, <1>6, <1>10, PageMovesAlone

LEMMA StartKeeps ==
  ASSUME FormInv, NEW p \in Pages, NEW n \in Numbers, StartVerification(p, n)
  PROVE  FormInv'
<1> DEFINE h == [Idle EXCEPT !.at = "reserve", !.number = n, !.sends = page[p].widget]
<1>1. page[p] \in Page /\ OwnRequest(p, page[p], request)
  BY PageFacts DEF Form
<1>2. h \in Flow /\ h.at = "reserve" /\ h.number = n /\ h.sends = page[p].widget
  BY <1>1 DEF Idle, Flow, Page
<1>3. /\ Begin(p, "start", h) /\ page[p].stage = "EnterPhone" /\ ~page[p].pending
      /\ p \in SignInPages => page[p].widget
  BY DEF StartVerification, CanStart
<1> HIDE DEF h
<1>4. \A g \in Flows : flow[p][g].at = "idle"
  BY <1>3, Unoccupied
<1> QED BY <1>1, <1>2, <1>3, <1>4, BeginKeeps DEF OwnRequest, Flows

LEMMA ResendKeeps ==
  ASSUME FormInv, NEW p \in Pages, ResendOtp(p)
  PROVE  FormInv'
<1> DEFINE h == [Idle EXCEPT !.at = "reserve", !.number = page[p].number,
                             !.request = page[p].request,
                             !.spent = page[p].spent, !.sends = TRUE]
<1>1. page[p] \in Page
  BY PageFacts
<1>2. /\ h \in Flow /\ h.at = "reserve" /\ h.number = page[p].number /\ h.sends
      /\ h.request = page[p].request /\ h.spent = page[p].spent
  BY <1>1 DEF Idle, Flow, Page
<1>3. Begin(p, "resend", h) /\ p \in SignInPages /\ page[p].stage = "VerifyOtp" /\ ~Busy(p)
  BY DEF ResendOtp
<1> HIDE DEF h
<1>4. \A g \in Flows : flow[p][g].at = "idle"
  BY <1>3, Unoccupied
<1> QED BY <1>2, <1>3, <1>4, BeginKeeps DEF Busy, Flows

LEMMA VerifyKeeps ==
  ASSUME FormInv, NEW p \in Pages, VerifyOtp(p)
  PROVE  FormInv'
<1> DEFINE h == [Idle EXCEPT !.at = "verify", !.number = page[p].number,
                             !.challenge = page[p].challenge,
                             !.request = page[p].request]
<1>1. page[p] \in Page
  BY PageFacts
<1>2. h \in Flow /\ h.at = "verify" /\ h.request = page[p].request
  BY <1>1 DEF Idle, Flow, Page
<1>3. Begin(p, "verify", h) /\ page[p].stage = "VerifyOtp" /\ ~Busy(p) /\ ~page[p].spent
  BY DEF VerifyOtp
<1> HIDE DEF h
<1>4. \A g \in Flows : flow[p][g].at = "idle"
  BY <1>3, Unoccupied
<1> QED BY <1>2, <1>3, <1>4, BeginKeeps DEF Busy, Flows

LEMMA SubmitKeeps ==
  ASSUME FormInv, NEW p \in Pages, SubmitAccount(p)
  PROVE  FormInv'
<1> DEFINE h == [Idle EXCEPT !.at = "create", !.challenge = cookies.verified,
                             !.binding = cookies.binding]
<1>1. cookies \in [binding: Nat, verified: Nat]
  BY PageFacts
<1>2. h \in Flow /\ h.at = "create"
  BY <1>1 DEF Idle, Flow
<1>3. Begin(p, "create", h) /\ page[p].stage = "CreateAccount" /\ ~page[p].pending
  BY DEF SubmitAccount
<1> HIDE DEF h
<1>4. \A g \in Flows : flow[p][g].at = "idle"
  BY <1>3, Unoccupied
<1> QED BY <1>2, <1>3, <1>4, BeginKeeps DEF Flows
-----------------------------------------------------------------------------
(* Answers                                                                 *)

(* A handler ends in a stage without a code field.                         *)
LEMMA EndsIn ==
  ASSUME FormInv, NEW p \in Pages, NEW f \in Flows, flow[p][f].at # "idle",
         NEW s \in Stages \ {"VerifyOtp"}, End(p, f, [page[p] EXCEPT !.stage = s]),
         UNCHANGED <<challenge, request, over>>,
         cookies' \in [binding: Nat, verified: Nat], cookies'.binding \in {0, cookies.binding}
  PROVE  FormInv'
<1>1. page[p] \in Page /\ OwnRequest(p, page[p], request)
  BY PageFacts DEF Form
<1> DEFINE pg == [page[p] EXCEPT !.stage = s]
<1>2. /\ pg \in Page /\ pg.stage # "VerifyOtp"
      /\ pg.request = page[p].request /\ pg.widget = page[p].widget
  BY <1>1 DEF Page
<1>3. End(p, f, pg)
  OBVIOUS
<1> HIDE DEF pg
<1>4. OwnRequest(p, pg, request) /\ CodeFits(p, pg, challenge, request, over, cookies'.binding)
  BY <1>1, <1>2 DEF OwnRequest, CodeFits
<1> QED BY <1>2, <1>3, <1>4, EndKeeps

(* A handler ends with nothing but its finally clause.                     *)
LEMMA EndsOnly ==
  ASSUME FormInv, NEW p \in Pages, NEW f \in Flows, flow[p][f].at # "idle",
         End(p, f, page[p]), UNCHANGED <<cookies, challenge, request, over>>
  PROVE  FormInv'
<1>1. /\ page[p] \in Page /\ OwnRequest(p, page[p], request)
      /\ CodeFits(p, page[p], challenge, request, over, cookies.binding)
      /\ cookies \in [binding: Nat, verified: Nat]
  BY PageFacts DEF Form
<1> QED BY <1>1, EndKeeps

LEMMA VerifiedKeeps ==
  ASSUME FormInv, NEW p \in Pages, Verified(p)
  PROVE  FormInv'
<1>1. cookies \in [binding: Nat, verified: Nat] /\ flow[p]["verify"] \in Flow
  BY PageFacts DEF Flows
<1>2. flow[p]["verify"].at # "idle" /\ UNCHANGED <<challenge, request, over>>
  BY DEF Verified
<1>3. CASE /\ cookies' = [binding |-> 0, verified |-> 0]
           /\ End(p, "verify", [page[p] EXCEPT !.stage = "Authenticated"])
  BY <1>2, <1>3, EndsIn DEF Flows, Stages
<1>4. CASE /\ cookies' = [cookies EXCEPT !.verified = flow[p]["verify"].challenge]
           /\ End(p, "verify", [page[p] EXCEPT !.stage = "AccountChoices"])
  <2>1. cookies' \in [binding: Nat, verified: Nat] /\ cookies'.binding = cookies.binding
    BY <1>1, <1>4 DEF Flow
  <2> QED BY <1>2, <1>4, <2>1, EndsIn DEF Flows, Stages
<1> QED BY <1>3, <1>4 DEF Verified

LEMMA LinkedKeeps ==
  ASSUME FormInv, NEW p \in Pages, Linked(p)
  PROVE  FormInv'
<1>1. cookies \in [binding: Nat, verified: Nat]
  BY PageFacts
<1> QED BY <1>1, EndsIn DEF Linked, Flows, Stages

LEMMA CreatedKeeps ==
  ASSUME FormInv, NEW p \in Pages, AccountCreated(p)
  PROVE  FormInv'
BY EndsIn DEF AccountCreated, Flows, Stages

LEMMA NotCreatedKeeps ==
  ASSUME FormInv, NEW p \in Pages, AccountNotCreated(p)
  PROVE  FormInv'
<1>1. cookies \in [binding: Nat, verified: Nat]
  BY PageFacts
<1>2. PICK s \in {"EnterPhone", "CreateAccount"} :
        End(p, "create", [page[p] EXCEPT !.stage = s])
  BY DEF AccountNotCreated
<1>3. s \in Stages \ {"VerifyOtp"}
  BY DEF Stages
<1> QED BY <1>1, <1>2, <1>3, EndsIn DEF AccountNotCreated, Flows

(* Every answer that is a failure.                                         *)
LEMMA FailureKeeps ==
  ASSUME FormInv, NEW p \in Pages, NEW f \in Flows,
         \/ ReserveFails(p, f) \/ LoadFails(p, f) \/ CallFails(p, f)
         \/ (f = "verify" /\ NotVerified(p))
  PROVE  FormInv'
BY EndsOnly DEF ReserveFails, LoadFails, CallFails, NotVerified, Calling

LEMMA ProvedKeeps ==
  ASSUME FormInv, NEW p \in Pages, Proved(p)
  PROVE  FormInv'
<1>1. /\ page[p] \in Page /\ flow[p] \in [Flows -> Flow]
      /\ page \in [Pages -> Page] /\ flow \in [Pages -> [Flows -> Flow]]
      /\ cookies \in [binding: Nat, verified: Nat] /\ request \in Seq(Request)
      /\ Form(p, page[p], flow[p], challenge, request, over, cookies.binding)
  BY PageFacts
<1>2. PICK r \in DOMAIN request :
        flow' = [flow EXCEPT ![p]["verify"] =
                   [flow[p]["verify"] EXCEPT !.at = "submit", !.request = r,
                                             !.binding = cookies.binding]]
  BY DEF Proved, Meant
<1> DEFINE h == [flow[p]["verify"] EXCEPT !.at = "submit", !.request = r,
                                          !.binding = cookies.binding]
           fl == [flow[p] EXCEPT !["verify"] = h]
           pg == page[p]
<1>3. h \in Flow /\ h.at = "submit"
  <2>1. flow[p]["verify"] \in Flow
    BY <1>1 DEF Flows
  <2>2. r \in Nat /\ cookies.binding \in Nat
    BY <1>1
  <2> QED BY <2>1, <2>2 DEF Flow
<1> HIDE DEF h
<1>4. /\ fl \in [Flows -> Flow] /\ fl["verify"] = h
      /\ \A g \in Flows \ {"verify"} : fl[g] = flow[p][g]
  BY <1>1, <1>3 DEF Flows
<1>5. flow' = [flow EXCEPT ![p] = fl] /\ page' = [page EXCEPT ![p] = pg]
  BY <1>1, <1>2 DEF Proved, h
<1> HIDE DEF fl
<1>6. flow[p]["verify"].at = "verify" /\ UNCHANGED <<cookies, challenge, request, over>>
  BY DEF Proved
<1>7. Form(p, pg, fl, challenge, request, over, cookies.binding)
  <2>1. RunsAlone(p, pg, fl)
    BY <1>1, <1>3, <1>4, <1>6 DEF Form, RunsAlone, Flows
  <2>2. HandlersFit(p, pg, fl, challenge, cookies.binding)
    BY <1>1, <1>3, <1>4, <1>6 DEF Form, HandlersFit, Flows
  <2> QED BY <1>1, <2>1, <2>2 DEF Form
<1> HIDE DEF pg
<1>8. pg \in Page
  BY <1>1 DEF pg
<1> QED BY <1>1, <1>4, <1>5, <1>6, <1>7, <1>8, PageMovesAlone

(* The request that a resend or a verification means is the page's own, is *)
(* the one the page has an id of, if any, and for a sign-in page is for    *)
(* the number of the code field.                                           *)
LEMMA MeantIsOwn ==
  ASSUME FormInv, NEW p \in Pages, NEW f \in {"resend", "verify"},
         flow[p][f].at \in {"retry", "verify"}, NEW r \in Meant(p, flow[p][f])
  PROVE  /\ r \in DOMAIN request /\ request[r].page = p
         /\ page[p].request # 0 => r = page[p].request
         /\ p \in SignInPages => request[r].number = page[p].number
<1>1. /\ request \in Seq(Request)
      /\ Form(p, page[p], flow[p], challenge, request, over, cookies.binding)
  BY PageFacts
<1>2. flow[p][f].request = page[p].request /\ page[p].stage = "VerifyOtp"
  BY <1>1 DEF Form, RunsAlone, HandlersFit
<1>3. r \in DOMAIN request /\ IsMeant(p, flow[p][f], r)
  BY DEF Meant
<1>4. CASE page[p].request # 0
  BY <1>1, <1>2, <1>3, <1>4 DEF IsMeant, Form, OwnRequest, CodeFits
<1>5. CASE page[p].request = 0
  <2>1. request[r].page = p /\ \A q \in DOMAIN request : request[q].page = p => q <= r
    BY <1>2, <1>3, <1>5 DEF IsMeant
  <2>2. ASSUME p \in SignInPages
        PROVE  request[r].number = page[p].number
    <3>1. PICK q \in DOMAIN request :
            /\ request[q] = [number |-> page[p].number, page |-> p]
            /\ \A x \in DOMAIN request : request[x].page = p => x <= q
      BY <1>1, <1>2, <2>2 DEF Form, CodeFits, LastIsFor
    <3>2. q <= r /\ r <= q /\ q \in Nat /\ r \in Nat
      BY <1>1, <1>3, <2>1, <3>1
    <3>3. q = r
      BY <3>2
    <3> QED BY <3>1, <3>3
  <2> QED BY <1>3, <1>5, <2>1, <2>2
<1> QED BY <1>4, <1>5

LEMMA RetriedKeeps ==
  ASSUME FormInv, NEW p \in Pages, Retried(p)
  PROVE  FormInv'
<1>1. /\ page[p] \in Page /\ request \in Seq(Request) /\ over \subseteq DOMAIN request
      /\ Form(p, page[p], flow[p], challenge, request, over, cookies.binding)
      /\ cookies \in [binding: Nat, verified: Nat]
  BY PageFacts
<1>2. flow[p]["resend"].at = "retry" /\ UNCHANGED <<cookies, challenge, request, over>>
  BY DEF Retried
<1>3. PICK r \in Meant(p, flow[p]["resend"]) :
        /\ r \notin over
        /\ \E id \in {flow[p]["resend"].request, r} :
             End(p, "resend", WithCode("resend", page[p], flow[p]["resend"], id))
  BY DEF Retried
<1>4. PICK id \in {flow[p]["resend"].request, r} :
        End(p, "resend", [page[p] EXCEPT !.request = id, !.spent = FALSE])
  BY <1>3 DEF WithCode
<1>5. /\ flow[p]["resend"].request = page[p].request
      /\ page[p].stage = "VerifyOtp" /\ p \in SignInPages
  BY <1>1, <1>2 DEF Form, RunsAlone, HandlersFit
<1>6. /\ r \in DOMAIN request /\ request[r].page = p
      /\ page[p].request # 0 => r = page[p].request
      /\ request[r].number = page[p].number
  BY <1>2, <1>5, MeantIsOwn
<1> DEFINE pg == [page[p] EXCEPT !.request = id, !.spent = FALSE]
<1>7. id \in Nat /\ id \in {0, r} /\ 0 \notin over
  BY <1>1, <1>4, <1>5, <1>6 DEF Page
<1>8. /\ pg \in Page /\ pg.request = id /\ pg.stage = page[p].stage /\ pg.number = page[p].number
      /\ pg.challenge = page[p].challenge /\ pg.widget = page[p].widget /\ pg.spent = FALSE
  BY <1>1, <1>7 DEF Page
<1>9. End(p, "resend", pg)
  BY <1>4
<1> HIDE DEF pg
<1>10. OwnRequest(p, pg, request)
  BY <1>5, <1>6, <1>7, <1>8 DEF OwnRequest
<1>11. CodeFits(p, pg, challenge, request, over, cookies.binding)
  BY <1>1, <1>3, <1>5, <1>6, <1>7, <1>8 DEF Form, CodeFits
<1> QED BY <1>1, <1>2, <1>8, <1>9, <1>10, <1>11, EndKeeps DEF Flows

LEMMA ToldOverKeeps ==
  ASSUME FormInv, NEW p \in Pages, NEW f \in {"resend", "verify"}, CallTellsOver(p, f)
  PROVE  FormInv'
<1>1. /\ page[p] \in Page /\ request \in Seq(Request) /\ over \subseteq DOMAIN request
      /\ challenge \in Seq(Challenge) /\ flow \in [Pages -> [Flows -> Flow]]
      /\ Form(p, page[p], flow[p], challenge, request, over, cookies.binding)
      /\ cookies \in [binding: Nat, verified: Nat] /\ cookies.binding \in 0..Len(challenge)
  BY PageFacts
<1>2. /\ flow[p][f].at \in {"retry", "verify"} /\ flow[p][f].at # "idle" /\ f \in Flows
      /\ UNCHANGED <<cookies, challenge, request>>
      /\ End(p, f, [page[p] EXCEPT !.spent = p \in SignInPages])
  BY DEF CallTellsOver, Flows
<1>3. PICK r \in Meant(p, flow[p][f]) : over' = over \cup {r}
  BY DEF CallTellsOver
<1>4. r \in DOMAIN request /\ request[r].page = p
  BY <1>2, MeantIsOwn
<1>5. ASSUME NEW q \in Pages \ {p}
      PROVE  Form(q, page[q], flow[q], challenge', request', over', cookies'.binding)
  BY <1>2, <1>3, <1>4, OverGrows
<1> DEFINE pg == [page[p] EXCEPT !.spent = p \in SignInPages]
           fpg == Finally(f, pg)
           fl == [flow[p] EXCEPT ![f] = Idle]
<1>6. /\ pg \in Page /\ pg.spent = (p \in SignInPages)
      /\ pg.request = page[p].request /\ pg.stage = page[p].stage
      /\ pg.number = page[p].number /\ pg.challenge = page[p].challenge
      /\ pg.widget = page[p].widget
  <2> DEFINE told == p \in SignInPages
  <2>1. told \in BOOLEAN
    OBVIOUS
  <2> HIDE DEF told
  <2>2. LET new == [page[p] EXCEPT !.spent = told] IN
        /\ new \in Page /\ new.spent = told
        /\ new.request = page[p].request /\ new.stage = page[p].stage
        /\ new.number = page[p].number /\ new.challenge = page[p].challenge
        /\ new.widget = page[p].widget
    BY <1>1, <2>1 DEF Page
  <2> QED BY <2>2 DEF told
<1>7. /\ fl \in [Flows -> Flow] /\ \A g \in Flows : fl[g].at = "idle"
  BY <1>2, NoneLeft
<1>8. page' = [page EXCEPT ![p] = fpg] /\ flow' = [flow EXCEPT ![p] = fl]
  BY <1>1, <1>2 DEF End
<1> HIDE DEF pg, fl
<1>9. OwnRequest(p, pg, request) /\ CodeFits(p, pg, challenge, request, over', cookies.binding)
  BY <1>1, <1>6 DEF Form, OwnRequest, CodeFits
<1>10. /\ fpg \in Page /\ OwnRequest(p, fpg, request)
       /\ CodeFits(p, fpg, challenge, request, over', cookies.binding)
  BY <1>2, <1>6, <1>9, EndTypes
<1> HIDE DEF fpg
<1>11. Form(p, fpg, fl, challenge, request, over', cookies.binding)
  BY <1>7, <1>10, AtRest
<1>12. over' \subseteq DOMAIN request'
  BY <1>1, <1>2, <1>3, <1>4
<1> QED BY <1>1, <1>2, <1>5, <1>7, <1>8, <1>10, <1>11, <1>12, PageMoves

(* What the challenge a page reserves is.                                  *)
LEMMA NewChallengeFacts ==
  ASSUME FormInv, NEW p \in Pages, NEW n \in Numbers, NewChallenge(p, n)
  PROVE  /\ challenge' \in Seq(Challenge) /\ Len(challenge') = Len(challenge) + 1
         /\ Len(challenge') \in DOMAIN challenge' /\ Len(challenge') \in Nat
         /\ challenge'[Len(challenge')].number = n
         /\ cookies' \in [binding: Nat, verified: Nat] /\ cookies'.binding = Len(challenge')
         /\ \A q \in Pages \ {p} :
              Form(q, page[q], flow[q], challenge', request, over, cookies'.binding)
<1>1. challenge \in Seq(Challenge) /\ cookies \in [binding: Nat, verified: Nat]
  BY PageFacts
<1> DEFINE c == [number |-> n, page |-> p]
<1>2. c \in Challenge
  BY DEF Challenge
<1>3. challenge' = Append(challenge, c)
  BY DEF NewChallenge
<1>4. \A q \in Pages \ {p} :
        Form(q, page[q], flow[q], challenge', request, over, Len(challenge'))
  BY <1>3, ChallengeGrows
<1>5. c.number = n
  OBVIOUS
<1> HIDE DEF c
<1>6. /\ challenge' \in Seq(Challenge) /\ Len(challenge') = Len(challenge) + 1
      /\ Len(challenge') \in DOMAIN challenge' /\ Len(challenge') \in Nat
      /\ challenge'[Len(challenge')] = c
  BY <1>1, <1>2, <1>3
<1>7. cookies' \in [binding: Nat, verified: Nat] /\ cookies'.binding = Len(challenge')
  BY <1>1, <1>6 DEF NewChallenge
<1> QED BY <1>4, <1>5, <1>6, <1>7

LEMMA ReservedKeeps ==
  ASSUME FormInv, NEW p \in Pages, NEW f \in {"start", "resend"}, Reserved(p, f)
  PROVE  FormInv'
<1>1. /\ page[p] \in Page /\ flow[p] \in [Flows -> Flow]
      /\ page \in [Pages -> Page] /\ flow \in [Pages -> [Flows -> Flow]]
      /\ request \in Seq(Request) /\ over \subseteq DOMAIN request
      /\ Form(p, page[p], flow[p], challenge, request, over, cookies.binding)
  BY PageFacts
<1>2. /\ flow[p][f].at = "reserve" /\ flow[p][f].sends /\ f \in Flows
      /\ NewChallenge(p, flow[p][f].number) /\ UNCHANGED <<request, over>>
      /\ page' = [page EXCEPT ![p] = Adopted(f, page[p], Len(challenge'))]
  BY <1>1 DEF Reserved, Flows
<1> DEFINE n == flow[p][f].number
           k == Len(challenge')
           pg == Adopted(f, page[p], k)
<1>3. /\ n \in Numbers
      /\ f = "resend" => p \in SignInPages /\ page[p].stage = "VerifyOtp" /\ n = page[p].number
      /\ f = "start" => page[p].stage = "EnterPhone"
  BY <1>1, <1>2 DEF Form, RunsAlone, HandlersFit, CodeFits
<1>4. /\ challenge' \in Seq(Challenge) /\ k \in DOMAIN challenge' /\ k \in Nat
      /\ challenge'[k].number = n /\ k = Len(challenge')
      /\ cookies' \in [binding: Nat, verified: Nat] /\ cookies'.binding = k
      /\ cookies'.binding \in 0..Len(challenge')
      /\ \A q \in Pages \ {p} :
           Form(q, page[q], flow[q], challenge', request', over', cookies'.binding)
  BY <1>2, <1>3, NewChallengeFacts
<1>5. PICK m \in Onward(flow[p][f], f, page[p].loaded) :
        flow' = [flow EXCEPT ![p][f] = [flow[p][f] EXCEPT !.at = m, !.challenge = k]]
  BY DEF Reserved
<1> DEFINE h == [flow[p][f] EXCEPT !.at = m, !.challenge = k]
           fl == [flow[p] EXCEPT ![f] = h]
<1>6. /\ m \in {"load", "retry", "send"}
      /\ f = "start" => m \in {"load", "send"}
      /\ m = "retry" => f = "resend" /\ ~flow[p][f].spent
  BY <1>5 DEF Onward, Methods
<1>7. h \in Flow
  <2>1. flow[p][f] \in Flow
    BY <1>1, <1>2
  <2>2. k \in Nat /\ m \in {"load", "retry", "send"}
    BY <1>4, <1>6
  <2> HIDE DEF k
  <2> QED BY <2>1, <2>2 DEF Flow
<1>8. /\ h.at = m /\ h.challenge = k /\ h.number = n /\ h.sends
      /\ h.request = flow[p][f].request /\ h.spent = flow[p][f].spent
  <2>1. flow[p][f] \in Flow
    BY <1>1, <1>2
  <2> HIDE DEF k
  <2> QED BY <2>1, <1>2 DEF Flow
<1>9. /\ pg \in Page /\ pg.stage = page[p].stage /\ pg.number = page[p].number
      /\ pg.request = page[p].request /\ pg.spent = page[p].spent
      /\ pg.widget = page[p].widget /\ pg.pending = page[p].pending
      /\ pg.resending = page[p].resending
      /\ f = "resend" => pg.challenge = k
  <2> HIDE DEF k
  <2>1. CASE f = "resend"
    BY <1>1, <1>4, <2>1 DEF Adopted, Page
  <2>2. CASE f = "start"
    BY <1>1, <2>2 DEF Adopted, Page
  <2> QED BY <2>1, <2>2
<1>10. page' = [page EXCEPT ![p] = pg] /\ flow' = [flow EXCEPT ![p] = fl]
  BY <1>1, <1>2, <1>5
<1> HIDE DEF h
<1>11. /\ fl \in [Flows -> Flow] /\ fl[f] = h
       /\ \A g \in Flows \ {f} : fl[g] = flow[p][g]
  <2>1. flow[p] \in [Flows -> Flow] /\ f \in Flows
    BY <1>1, <1>2
  <2> QED BY <2>1, <1>7
<1> HIDE DEF fl, pg, k
<1>12. RunsAlone(p, pg, fl)
  BY <1>1, <1>2, <1>6, <1>8, <1>9, <1>11 DEF Form, RunsAlone, Flows
<1>13. OwnRequest(p, pg, request')
  BY <1>1, <1>2, <1>9 DEF Form, OwnRequest
<1>14. CodeFits(p, pg, challenge', request', over', cookies'.binding)
  <2>1. CASE f = "start"
    BY <1>3, <1>9, <2>1 DEF CodeFits
  <2>2. CASE f = "resend"
    BY <1>1, <1>2, <1>3, <1>4, <1>9, <2>2 DEF Form, CodeFits
  <2> QED BY <2>1, <2>2
<1>15. HandlersFit(p, pg, fl, challenge', cookies'.binding)
  <2>1. CASE f = "start"
    BY <1>1, <1>2, <1>3, <1>4, <1>6, <1>8, <1>9, <1>11, <2>1 DEF Form, RunsAlone, HandlersFit, Flows
  <2>2. CASE f = "resend"
    BY <1>1, <1>2, <1>3, <1>4, <1>6, <1>8, <1>9, <1>11, <2>2 DEF Form, RunsAlone, HandlersFit, Flows
  <2> QED BY <2>1, <2>2
<1>16. Form(p, pg, fl, challenge', request', over', cookies'.binding)
  BY <1>12, <1>13, <1>14, <1>15 DEF Form
<1>17. request' \in Seq(Request) /\ over' \subseteq DOMAIN request'
  BY <1>1, <1>2
<1> QED BY <1>4, <1>9, <1>10, <1>11, <1>16, <1>17, PageMoves

LEMMA LoadedKeeps ==
  ASSUME FormInv, NEW p \in Pages, NEW f \in {"start", "resend"}, Loaded(p, f)
  PROVE  FormInv'
<1>1. /\ page[p] \in Page /\ flow[p] \in [Flows -> Flow] /\ f \in Flows
      /\ page \in [Pages -> Page] /\ flow \in [Pages -> [Flows -> Flow]]
      /\ cookies \in [binding: Nat, verified: Nat]
      /\ Form(p, page[p], flow[p], challenge, request, over, cookies.binding)
  BY PageFacts DEF Flows
<1>2. /\ flow[p][f].at = "load" /\ UNCHANGED <<cookies, challenge, request, over>>
      /\ page' = [page EXCEPT ![p] = [page[p] EXCEPT !.loaded = TRUE]]
  BY <1>1 DEF Loaded
<1>3. PICK m \in Methods(flow[p][f], f) :
        flow' = [flow EXCEPT ![p] = [flow[p] EXCEPT ![f] = [flow[p][f] EXCEPT !.at = m]]]
  BY <1>1 DEF Loaded
<1>4. m \in {"retry", "send"} /\ (m = "retry" => f = "resend" /\ ~flow[p][f].spent)
  BY <1>3 DEF Methods
<1> DEFINE h == [flow[p][f] EXCEPT !.at = m]
           fl == [flow[p] EXCEPT ![f] = h]
           pg == [page[p] EXCEPT !.loaded = TRUE]
<1>5. /\ h \in Flow /\ h.at = m /\ h.challenge = flow[p][f].challenge
      /\ h.number = flow[p][f].number /\ h.sends = flow[p][f].sends
      /\ h.request = flow[p][f].request /\ h.spent = flow[p][f].spent
  <2>1. flow[p][f] \in Flow
    BY <1>1
  <2> QED BY <2>1, <1>4 DEF Flow
<1>6. /\ pg \in Page /\ pg.stage = page[p].stage /\ pg.number = page[p].number
      /\ pg.challenge = page[p].challenge /\ pg.request = page[p].request
      /\ pg.spent = page[p].spent /\ pg.widget = page[p].widget
      /\ pg.pending = page[p].pending /\ pg.resending = page[p].resending
  BY <1>1 DEF Page
<1> HIDE DEF h
<1>7. /\ fl \in [Flows -> Flow] /\ fl[f] = h
      /\ \A g \in Flows \ {f} : fl[g] = flow[p][g]
  BY <1>1, <1>5
<1>8. page' = [page EXCEPT ![p] = pg] /\ flow' = [flow EXCEPT ![p] = fl]
  BY <1>2, <1>3 DEF h
<1> HIDE DEF fl, pg
<1>9. RunsAlone(p, pg, fl)
  BY <1>1, <1>2, <1>4, <1>5, <1>6, <1>7 DEF Form, RunsAlone, Flows
<1>10. OwnRequest(p, pg, request) /\ CodeFits(p, pg, challenge, request, over, cookies.binding)
  BY <1>1, <1>6 DEF Form, OwnRequest, CodeFits
<1>11. HandlersFit(p, pg, fl, challenge, cookies.binding)
  BY <1>1, <1>2, <1>4, <1>5, <1>6, <1>7 DEF Form, RunsAlone, HandlersFit, Flows
<1>12. Form(p, pg, fl, challenge, request, over, cookies.binding)
  BY <1>9, <1>10, <1>11 DEF Form
<1> QED BY <1>1, <1>2, <1>6, <1>7, <1>8, <1>12, PageMovesAlone

(* A handler ends with a code field, and nobody minds what has become of   *)
(* what pages share.                                                       *)
LEMMA EndsWithCode ==
  ASSUME FormInv, NEW p \in Pages, NEW f \in Flows, flow[p][f].at # "idle",
         NEW pg \in Page, End(p, f, pg),
         challenge' \in Seq(Challenge), request' \in Seq(Request), over' \subseteq DOMAIN request',
         cookies' \in [binding: Nat, verified: Nat], cookies'.binding \in 0..Len(challenge'),
         \A q \in Pages \ {p} :
           Form(q, page[q], flow[q], challenge', request', over', cookies'.binding),
         OwnRequest(p, pg, request'),
         CodeFits(p, pg, challenge', request', over', cookies'.binding)
  PROVE  FormInv'
<1> DEFINE fpg == Finally(f, pg)
           fl == [flow[p] EXCEPT ![f] = Idle]
<1>1. flow \in [Pages -> [Flows -> Flow]]
  BY PageFacts
<1>2. fl \in [Flows -> Flow] /\ \A g \in Flows : fl[g].at = "idle"
  BY NoneLeft
<1>3. page' = [page EXCEPT ![p] = fpg] /\ flow' = [flow EXCEPT ![p] = fl]
  BY <1>1 DEF End
<1>4. /\ fpg \in Page /\ OwnRequest(p, fpg, request')
      /\ CodeFits(p, fpg, challenge', request', over', cookies'.binding)
  BY EndTypes
<1> HIDE DEF fl, fpg
<1>5. Form(p, fpg, fl, challenge', request', over', cookies'.binding)
  BY <1>2, <1>4, AtRest
<1> QED BY <1>2, <1>3, <1>4, <1>5, PageMoves

LEMMA UnsentKeeps ==
  ASSUME FormInv, NEW p \in Pages, ReservedUnsent(p)
  PROVE  FormInv'
<1> DEFINE n == flow[p]["start"].number
           k == Len(challenge')
           pg == CodeStep(page[p], n, k, page[p].request)
<1>1. /\ page[p] \in Page /\ request \in Seq(Request) /\ over \subseteq DOMAIN request
      /\ Form(p, page[p], flow[p], challenge, request, over, cookies.binding)
  BY PageFacts
<1>2. /\ flow[p]["start"].at = "reserve" /\ ~flow[p]["start"].sends /\ NewChallenge(p, n)
      /\ UNCHANGED <<request, over>> /\ End(p, "start", pg) /\ "start" \in Flows
  BY DEF ReservedUnsent, Flows
<1>3. n \in Numbers /\ page[p].request = 0 /\ p \notin SignInPages /\ page[p].request \in Nat
  BY <1>1, <1>2 DEF Form, HandlersFit
<1>4. /\ challenge' \in Seq(Challenge) /\ k \in DOMAIN challenge' /\ k \in Nat
      /\ challenge'[k].number = n
      /\ cookies' \in [binding: Nat, verified: Nat] /\ cookies'.binding = k
      /\ cookies'.binding \in 0..Len(challenge')
      /\ \A q \in Pages \ {p} :
           Form(q, page[q], flow[q], challenge', request', over', cookies'.binding)
  BY <1>2, <1>3, NewChallengeFacts
<1>5. pg = CodeStep(page[p], n, k, page[p].request)
  OBVIOUS
<1> HIDE DEF pg, n, k
<1>6. /\ pg \in Page /\ pg.stage = "VerifyOtp" /\ pg.number = n /\ pg.challenge = k
      /\ pg.request = 0
  <2>1. page[p] \in Page /\ n \in Numbers /\ k \in Nat /\ page[p].request \in Nat
    BY <1>1, <1>3, <1>4
  <2> QED BY <2>1, <1>3, <1>5 DEF CodeStep, Page, Stages
<1>7. OwnRequest(p, pg, request')
  BY <1>6 DEF OwnRequest
<1>8. CodeFits(p, pg, challenge', request', over', cookies'.binding)
  BY <1>3, <1>4, <1>6 DEF CodeFits
<1> QED BY <1>1, <1>2, <1>4, <1>6, <1>7, <1>8, EndsWithCode

(* What the request a page opens is.                                       *)
LEMMA NewRequestFacts ==
  ASSUME FormInv, NEW p \in Pages, NEW n \in Numbers,
         request' = Append(request, [number |-> n, page |-> p])
  PROVE  /\ request' \in Seq(Request) /\ DOMAIN request \subseteq DOMAIN request'
         /\ Len(request') \in DOMAIN request' /\ Len(request') \in Nat
         /\ Len(request') \notin DOMAIN request
         /\ request'[Len(request')] = [number |-> n, page |-> p]
         /\ LastIsFor(p, n, request')
         /\ \A q \in Pages \ {p} :
              Form(q, page[q], flow[q], challenge, request', over, cookies.binding)
<1>1. request \in Seq(Request)
  BY PageFacts
<1> DEFINE r == [number |-> n, page |-> p]
<1>2. r \in Request
  BY DEF Request
<1>3. request' = Append(request, r)
  OBVIOUS
<1>4. \A q \in Pages \ {p} :
        Form(q, page[q], flow[q], challenge, request', over, cookies.binding)
  BY <1>3, RequestGrows
<1> HIDE DEF r
<1>5. /\ request' \in Seq(Request) /\ DOMAIN request \subseteq DOMAIN request'
      /\ Len(request') \in DOMAIN request' /\ Len(request') \in Nat
      /\ Len(request') \notin DOMAIN request
      /\ request'[Len(request')] = r
      /\ \A q \in DOMAIN request' : q <= Len(request')
  BY <1>1, <1>2, <1>3
<1>6. LastIsFor(p, n, request')
  BY <1>5 DEF LastIsFor, r
<1> QED BY <1>4, <1>5, <1>6 DEF r

LEMMA SentKeeps ==
  ASSUME FormInv, NEW p \in Pages, NEW f \in {"start", "resend"}, Sent(p, f)
  PROVE  FormInv'
<1> DEFINE fl == flow[p][f]
           n == flow[p][f].number
<1>1. /\ page[p] \in Page /\ fl \in Flow /\ over \subseteq DOMAIN request
      /\ request \in Seq(Request) /\ challenge \in Seq(Challenge)
      /\ cookies \in [binding: Nat, verified: Nat] /\ cookies.binding \in 0..Len(challenge)
      /\ Form(p, page[p], flow[p], challenge, request, over, cookies.binding)
  BY PageFacts DEF Flows
<1>2. /\ fl.at = "send" /\ f \in Flows /\ UNCHANGED <<cookies, challenge, over>>
      /\ request' = Append(request, [number |-> n, page |-> p])
  BY DEF Sent, Flows
<1>3. /\ n \in Numbers
      /\ f = "resend" => p \in SignInPages /\ page[p].stage = "VerifyOtp" /\ n = page[p].number
      /\ f = "start" => page[p].widget
  BY <1>1, <1>2 DEF Form, RunsAlone, HandlersFit, CodeFits
<1>4. /\ request' \in Seq(Request) /\ DOMAIN request \subseteq DOMAIN request'
      /\ Len(request') \in DOMAIN request' /\ Len(request') \in Nat
      /\ Len(request') \notin DOMAIN request
      /\ request'[Len(request')] = [number |-> n, page |-> p]
      /\ LastIsFor(p, n, request')
      /\ \A q \in Pages \ {p} :
           Form(q, page[q], flow[q], challenge', request', over', cookies'.binding)
  BY <1>2, <1>3, NewRequestFacts
<1>5. PICK id \in {0, Len(request')} : End(p, f, WithCode(f, page[p], fl, id))
  BY DEF Sent
<1>6. /\ id \in Nat /\ id \notin over
      /\ id # 0 => id \in DOMAIN request' /\ request'[id].page = p /\ request'[id].number = n
  BY <1>1, <1>4, <1>5
<1> DEFINE pg == WithCode(f, page[p], fl, id)
<1>7. /\ pg \in Page /\ pg.stage = "VerifyOtp" /\ pg.number = n
      /\ pg.request = id /\ pg.spent = FALSE /\ pg.widget = page[p].widget
      /\ pg.challenge \in DOMAIN challenge /\ challenge[pg.challenge].number = n
      /\ cookies.binding # 0 /\ challenge[cookies.binding].page = p
           => pg.challenge = cookies.binding
  <2>1. CASE f = "start"
    <3>1. /\ fl.challenge \in DOMAIN challenge /\ challenge[fl.challenge].number = n
          /\ cookies.binding # 0 /\ challenge[cookies.binding].page = p
               => fl.challenge = cookies.binding
      BY <1>1, <1>2, <2>1 DEF Form, HandlersFit
    <3>2. fl.challenge \in Nat
      BY <1>1 DEF Flow
    <3>3. pg = CodeStep(page[p], n, fl.challenge, id)
      BY <2>1 DEF WithCode
    <3> HIDE DEF pg, fl, n
    <3>4. /\ pg \in Page /\ pg.stage = "VerifyOtp" /\ pg.number = n
          /\ pg.challenge = fl.challenge /\ pg.request = id /\ pg.spent = FALSE
          /\ pg.widget = page[p].widget
      <4>1. page[p] \in Page /\ n \in Numbers /\ id \in Nat
        BY <1>1, <1>3, <1>6
      <4> QED BY <4>1, <3>2, <3>3 DEF CodeStep, Page, Stages
    <3> QED BY <3>1, <3>4
  <2>2. CASE f = "resend"
    <3>1. pg = [page[p] EXCEPT !.request = id, !.spent = FALSE]
      BY <2>2 DEF WithCode
    <3>2. /\ pg \in Page /\ pg.stage = page[p].stage /\ pg.number = page[p].number
          /\ pg.request = id /\ pg.spent = FALSE /\ pg.widget = page[p].widget
          /\ pg.challenge = page[p].challenge
      BY <1>1, <1>6, <3>1 DEF Page
    <3> HIDE DEF pg
    <3> QED BY <1>1, <1>3, <2>2, <3>2 DEF Form, CodeFits
  <2> QED BY <2>1, <2>2
<1>8. End(p, f, pg)
  BY <1>5
<1> HIDE DEF pg
<1>9. OwnRequest(p, pg, request')
  BY <1>3, <1>6, <1>7 DEF OwnRequest
<1>10. CodeFits(p, pg, challenge', request', over', cookies'.binding)
  BY <1>2, <1>3, <1>4, <1>6, <1>7 DEF CodeFits
<1>11. over' \subseteq DOMAIN request' /\ challenge' \in Seq(Challenge)
       /\ cookies' \in [binding: Nat, verified: Nat] /\ cookies'.binding \in 0..Len(challenge')
  BY <1>1, <1>2, <1>4
<1>12. flow[p][f].at # "idle"
  BY <1>2
<1> QED BY <1>2, <1>4, <1>7, <1>8, <1>9, <1>10, <1>11, <1>12, EndsWithCode
-----------------------------------------------------------------------------
LEMMA FormInvNext == FormInv /\ [Next]_vars => FormInv'
<1> SUFFICES ASSUME FormInv, [Next]_vars PROVE FormInv'
  OBVIOUS
<1>1. ASSUME NEW p \in Pages, Click(p) PROVE FormInv'
  <2>1. CASE \E n \in Numbers : StartVerification(p, n)
    BY <2>1, StartKeeps
  <2>2. CASE ChooseCreate(p) \/ BackToChoices(p)
    BY <2>2, ChoicesKeep DEF ChooseCreate, BackToChoices
  <2> QED BY <1>1, <2>1, <2>2, LoadKeeps, ResolveKeeps, ResendKeeps, VerifyKeeps,
             LeavesCode, SubmitKeeps DEF Click
<1>2. ASSUME NEW p \in Pages, Fetch(p) PROVE FormInv'
  <2>1. CASE \E f \in {"start", "resend"} : Reserved(p, f) \/ ReserveFails(p, f)
    BY <2>1, ReservedKeeps, FailureKeeps DEF Flows
  <2>2. CASE NotVerified(p)
    BY <2>2, FailureKeeps DEF Flows
  <2> QED BY <1>2, <2>1, <2>2, UnsentKeeps, VerifiedKeeps, LinkedKeeps, CreatedKeeps,
             NotCreatedKeeps DEF Fetch
<1>3. ASSUME NEW p \in Pages, Widget(p) PROVE FormInv'
  BY <1>3, SentKeeps, RetriedKeeps, ProvedKeeps, ToldOverKeeps DEF Widget
<1>4. ASSUME NEW p \in Pages, TimeOut(p) PROVE FormInv'
  BY <1>4, FailureKeeps DEF TimeOut, Flows
<1>5. ASSUME NEW p \in Pages, Script(p) PROVE FormInv'
  BY <1>5, LoadedKeeps, FailureKeeps DEF Script, Flows
<1>6. CASE UNCHANGED vars
  BY <1>6 DEF vars, FormInv, TypeOK
<1> QED BY <1>1, <1>2, <1>3, <1>4, <1>5, <1>6 DEF Next

(* FormInv is an invariant of the pages.                                   *)
THEOREM FormInvariance == Spec => []FormInv
<1> QED BY FormInvInit, FormInvNext, PTL DEF Spec

(* The variables keep their types, whatever the pages, clicks and answers. *)
THEOREM TypeCorrectness == Spec => []TypeOK
<1>1. FormInv => TypeOK
  BY DEF FormInv
<1> QED BY <1>1, FormInvariance, PTL

(* Whatever is resent, changed or reloaded, a code field asks for the code *)
(* of the number it shows, and its challenge is of that number.            *)
THEOREM CodeStepsAgree == Spec => []CodeStepAgrees
<1>1. FormInv => CodeStepAgrees
  BY DEF FormInv, Form, CodeFits, LastIsFor, CodeStepAgrees
<1> QED BY <1>1, FormInvariance, PTL

(* No page spoils its own verification: if the browser's cookie is of a    *)
(* page that shows a code field, it is of the challenge that page will     *)
(* name, also after a resend that sent nothing.                            *)
THEOREM CookiesBind == Spec => []CookieBindsTheForm
<1>1. FormInv => CookieBindsTheForm
  BY DEF FormInv, Form, CodeFits, CookieBindsTheForm
<1> QED BY <1>1, FormInvariance, PTL

(* A sign-in page that was told its request is over never asks the         *)
(* provider to retry or to verify it again.                                *)
THEOREM SpentReplaced == Spec => []SpentIsReplaced
<1>1. FormInv => SpentIsReplaced
  <2> SUFFICES ASSUME FormInv, NEW p \in SignInPages, NEW f \in Flows,
                      flow[p][f].at \in {"retry", "verify"}
               PROVE  flow[p][f].request \notin over
    BY DEF SpentIsReplaced
  <2>1. p \in Pages /\ Form(p, page[p], flow[p], challenge, request, over, cookies.binding)
    BY PageFacts DEF Pages
  <2>2. f \in {"resend", "verify"} /\ page[p].stage = "VerifyOtp"
    BY <2>1 DEF Form, RunsAlone, Flows
  <2>3. flow[p][f].request = page[p].request /\ ~page[p].spent
    BY <2>1, <2>2 DEF Form, RunsAlone, HandlersFit
  <2> QED BY <2>1, <2>2, <2>3 DEF Form, CodeFits
<1> QED BY <1>1, FormInvariance, PTL
=============================================================================
