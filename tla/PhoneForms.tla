----------------------------- MODULE PhoneForms -----------------------------
(***************************************************************************)
(* The pages of one browser that prove a phone number: the sign-in form,   *)
(* with its resend, account choices and account creation, and the form of  *)
(* the profile that connects a number.  They share the browser's cookies.  *)
(* A challenge is reserved at the server, a code is sent, resent and        *)
(* verified by the provider's widget in the page, and the proof is          *)
(* submitted to the server.  SignIn has the server in detail; here it      *)
(* refuses what a form got wrong, and may refuse anything, as expired,     *)
(* claimed, limited or taken.                                              *)
(*                                                                          *)
(* A handler of a page runs to its next await, which is one step here, and  *)
(* an event finds the buttons as the last step left them.  The code typed,  *)
(* messages, focus and the resend countdown, which may always be over, are  *)
(* left out, and so is the local driver that sends no code.                 *)
(***************************************************************************)
EXTENDS Naturals, Sequences

CONSTANTS SignInPages, ConnectPages, Numbers,
          MaxChallenges,   \* bound: challenges the server's limits leave
          MaxRequests,     \* bound: requests the provider opens
          None

ASSUME ConstantsAssumption ==
  /\ SignInPages \cap ConnectPages = {}
  /\ MaxChallenges \in Nat /\ MaxRequests \in Nat
  /\ None \notin Numbers

VARIABLES page,       \* the state of each page's form
          flow,       \* its handlers between two awaits
          cookies,    \* the browser's: 0 is no cookie
          challenge,  \* server: the browser's challenges, in order
          request,    \* provider: its verification requests, in order
          over        \* provider: its requests that are over, as the page was told

vars    == <<page, flow, cookies, challenge, request, over>>
-----------------------------------------------------------------------------
Pages  == SignInPages \cup ConnectPages
Flows  == {"start", "resend", "verify", "create"}
Stages == {"EnterPhone", "VerifyOtp", "AccountChoices", "CreateAccount", "Authenticated"}

(* The widget is what the server configures; the provider's script is      *)
(* loaded when a code is first sent.                                       *)
Page == [widget: BOOLEAN, loaded: BOOLEAN, stage: Stages, number: Numbers \cup {None},
         challenge: Nat, request: Nat, spent: BOOLEAN, pending: BOOLEAN, resending: BOOLEAN]

Blank == [widget |-> FALSE, loaded |-> FALSE, stage |-> "EnterPhone", number |-> None,
          challenge |-> 0, request |-> 0, spent |-> FALSE, pending |-> FALSE,
          resending |-> FALSE]

(* What a handler captured: at the click its number, request, whether that *)
(* was spent and whether there is a widget to send with; then the          *)
(* challenge it got; and the cookies its last request carries.             *)
Flow == [at: {"idle", "reserve", "load", "send", "retry", "verify", "submit", "create"},
         number: Numbers \cup {None}, challenge: Nat, request: Nat, binding: Nat,
         sends: BOOLEAN, spent: BOOLEAN]

Idle == [at |-> "idle", number |-> None, challenge |-> 0, request |-> 0, binding |-> 0,
         sends |-> FALSE, spent |-> FALSE]

Challenge == [number: Numbers, page: Pages]
Request   == [number: Numbers, page: Pages]

TypeOK ==
  /\ page \in [Pages -> Page]
  /\ flow \in [Pages -> [Flows -> Flow]]
  /\ cookies \in [binding: Nat, verified: Nat]
  /\ challenge \in Seq(Challenge)
  /\ request \in Seq(Request)
  /\ over \subseteq DOMAIN request

Init ==
  /\ page = [p \in Pages |-> Blank]
  /\ flow = [p \in Pages |-> [f \in Flows |-> Idle]]
  /\ cookies = [binding |-> 0, verified |-> 0]
  /\ challenge = <<>> /\ request = <<>>
  /\ over = {}
-----------------------------------------------------------------------------
(* The page                                                                *)

(* findVerified for the browser's two cookies, unless it expired.          *)
SetUpPending == cookies.verified # 0 /\ cookies.verified = cookies.binding

(* The page is loaded, also again; what it awaited is not heard.           *)
LoadPage(p) ==
  /\ \E s \in {"EnterPhone", "AccountChoices"} :
       /\ s = "AccountChoices" => p \in SignInPages /\ SetUpPending
       /\ page' = [page EXCEPT ![p] = [Blank EXCEPT !.stage = s]]
  /\ flow' = [flow EXCEPT ![p] = [f \in Flows |-> Idle]]
  /\ UNCHANGED <<cookies, challenge, request, over>>

(* The page hears that it has a widget, or never does.  A disabled one     *)
(* hides the sign-in form, as none; the connect form takes it, and its     *)
(* calls fail as any may.                                                  *)
ResolveWidget(p) ==
  /\ ~page[p].widget
  /\ page' = [page EXCEPT ![p].widget = TRUE]
  /\ UNCHANGED <<flow, cookies, challenge, request, over>>

Busy(p) == page[p].pending \/ page[p].resending

(* A click starts handler f of page p.                                     *)
Begin(p, f, fl) ==
  /\ flow' = [flow EXCEPT ![p][f] = fl]
  /\ page' = [page EXCEPT ![p] = IF f = "resend" THEN [@ EXCEPT !.resending = TRUE]
                                                 ELSE [@ EXCEPT !.pending = TRUE]]
  /\ UNCHANGED <<cookies, challenge, request, over>>

(* It ends, whatever happened, by its finally clause.                      *)
Finally(f, pg) == IF f = "resend" THEN [pg EXCEPT !.resending = FALSE]
                                  ELSE [pg EXCEPT !.pending = FALSE]

End(p, f, pg) ==
  /\ flow' = [flow EXCEPT ![p][f] = Idle]
  /\ page' = [page EXCEPT ![p] = Finally(f, pg)]
-----------------------------------------------------------------------------
(* A code is asked for                                                     *)

(* Variant: the button does not wait for the widget.                       *)
StartsBeforeWidget(p) == page[p].stage = "EnterPhone" /\ ~page[p].pending

(* The sign-in form's button waits for the widget, the connect form's      *)
(* does not.                                                               *)
CanStart(p) == /\ page[p].stage = "EnterPhone" /\ ~page[p].pending
               /\ p \in SignInPages => page[p].widget

StartVerification(p, n) ==
  /\ CanStart(p)
  /\ Begin(p, "start", [Idle EXCEPT !.at = "reserve", !.number = n,
                                    !.sends = page[p].widget])

ResendOtp(p) ==
  /\ p \in SignInPages /\ page[p].stage = "VerifyOtp" /\ ~Busy(p)
  /\ Begin(p, "resend", [Idle EXCEPT !.at = "reserve", !.number = page[p].number,
                                     !.request = page[p].request,
                                     !.spent = page[p].spent, !.sends = TRUE])

(* The code field is shown for the challenge c and the request r.          *)
CodeStep(pg, n, c, r) ==
  [pg EXCEPT !.stage = "VerifyOtp", !.number = n, !.challenge = c, !.request = r, !.spent = FALSE]

(* The server creates a challenge of number n and replaces the cookie.     *)
NewChallenge(p, n) ==
  /\ Len(challenge) < MaxChallenges
  /\ challenge' = Append(challenge, [number |-> n, page |-> p])
  /\ cookies' = [cookies EXCEPT !.binding = Len(challenge')]

(* Variant: a resend takes its challenge over when the code was sent.      *)
AdoptedLate(f, pg, c) == pg

(* Variant: a resend forgets that the request is spent before it is        *)
(* replaced.                                                               *)
AdoptedUnspent(f, pg, c) ==
  IF f = "resend" THEN [pg EXCEPT !.challenge = c, !.spent = FALSE] ELSE pg

(* A resend takes its challenge over at once, a start at its end.          *)
Adopted(f, pg, c) == IF f = "resend" THEN [pg EXCEPT !.challenge = c] ELSE pg

(* A resend retries a request that is not spent, if the widget has a       *)
(* channel to retry on; the others send.                                   *)
Methods(fl, f) == IF f = "resend" /\ ~fl.spent THEN {"retry", "send"} ELSE {"send"}

(* Where a handler goes on with its challenge: an await of the script once *)
(* loaded is none.                                                         *)
Onward(fl, f, loaded) == IF loaded THEN Methods(fl, f) ELSE {"load"}

Reserved(p, f) ==
  LET fl == flow[p][f] IN
  /\ fl.at = "reserve" /\ fl.sends
  /\ NewChallenge(p, fl.number)
  /\ page' = [page EXCEPT ![p] = Adopted(f, @, Len(challenge'))]
  /\ \E m \in Onward(fl, f, page[p].loaded) :
       flow' = [flow EXCEPT ![p][f] = [fl EXCEPT !.at = m, !.challenge = Len(challenge')]]
  /\ UNCHANGED <<request, over>>

(* The script's methods are exposed.                                       *)
Loaded(p, f) ==
  LET fl == flow[p][f] IN
  /\ fl.at = "load"
  /\ page' = [page EXCEPT ![p].loaded = TRUE]
  /\ \E m \in Methods(fl, f) : flow' = [flow EXCEPT ![p][f].at = m]
  /\ UNCHANGED <<cookies, challenge, request, over>>

(* The script reports an error or its methods are not exposed in time; the *)
(* next send loads it again.                                               *)
LoadFails(p, f) ==
  /\ flow[p][f].at = "load"
  /\ End(p, f, page[p])
  /\ UNCHANGED <<cookies, challenge, request, over>>

(* The connect form, clicked before the widget resolved, goes on without.  *)
ReservedUnsent(p) ==
  LET fl == flow[p]["start"] IN
  /\ fl.at = "reserve" /\ ~fl.sends
  /\ NewChallenge(p, fl.number)
  /\ End(p, "start", CodeStep(page[p], fl.number, Len(challenge'), page[p].request))
  /\ UNCHANGED <<request, over>>

(* Refused, not answered, or answered with what is no challenge.           *)
ReserveFails(p, f) ==
  /\ flow[p][f].at = "reserve"
  /\ End(p, f, page[p])
  /\ UNCHANGED <<cookies, challenge, request, over>>

(* What a sent code leaves in the page; the provider may not report an id. *)
WithCode(f, pg, fl, id) ==
  IF f = "resend" THEN [pg EXCEPT !.request = id, !.spent = FALSE]
                  ELSE CodeStep(pg, fl.number, fl.challenge, id)

Sent(p, f) ==
  LET fl == flow[p][f] IN
  /\ fl.at = "send" /\ Len(request) < MaxRequests
  /\ request' = Append(request, [number |-> fl.number, page |-> p])
  /\ \E id \in {0, Len(request')} : End(p, f, WithCode(f, page[p], fl, id))
  /\ UNCHANGED <<cookies, challenge, over>>

(* The request a call is about: the one whose id it has, or, without an    *)
(* id, the last that the widget of the page opened.                        *)
IsMeant(p, fl, r) ==
  IF fl.request # 0 THEN r = fl.request
  ELSE /\ request[r].page = p
       /\ \A q \in DOMAIN request : request[q].page = p => q <= r

Meant(p, fl) == {r \in DOMAIN request : IsMeant(p, fl, r)}

(* The request is kept, and its id may now be reported.                    *)
Retried(p) ==
  LET fl == flow[p]["resend"] IN
  /\ fl.at = "retry"
  /\ \E r \in Meant(p, fl) :
       /\ r \notin over
       /\ \E id \in {fl.request, r} : End(p, "resend", WithCode("resend", page[p], fl, id))
  /\ UNCHANGED <<cookies, challenge, request, over>>

Calling == {"send", "retry", "verify"}

(* Variant: only what sends a code is bounded in time.                     *)
OnlySendsTimeOut(p, f) ==
  /\ flow[p][f].at \in Calling \ {"verify"}
  /\ End(p, f, page[p])
  /\ UNCHANGED <<cookies, challenge, request, over>>

(* A call of the widget fails, or nothing is heard of it for its time:     *)
(* the request may still be verified.                                      *)
CallFails(p, f) ==
  /\ flow[p][f].at \in Calling
  /\ End(p, f, page[p])
  /\ UNCHANGED <<cookies, challenge, request, over>>

(* The provider's answer says that the request is over (a terminal         *)
(* category): it expired, or too many codes were wrong.  The connect form  *)
(* does not remember that.                                                 *)
CallTellsOver(p, f) ==
  LET fl == flow[p][f] IN
  /\ fl.at \in {"retry", "verify"}
  /\ \E r \in Meant(p, fl) : over' = over \cup {r}
  /\ End(p, f, [page[p] EXCEPT !.spent = p \in SignInPages])
  /\ UNCHANGED <<cookies, challenge, request>>
-----------------------------------------------------------------------------
(* The code is verified                                                    *)

(* canVerify; the connect form lets one try whatever was told.             *)
VerifyOtp(p) ==
  /\ page[p].stage = "VerifyOtp" /\ ~Busy(p) /\ page[p].widget /\ ~page[p].spent
  /\ Begin(p, "verify", [Idle EXCEPT !.at = "verify", !.number = page[p].number,
                                     !.challenge = page[p].challenge,
                                     !.request = page[p].request])

(* The provider's token proves the number of the request; it is submitted. *)
Proved(p) ==
  LET fl == flow[p]["verify"] IN
  /\ fl.at = "verify"
  /\ \E r \in Meant(p, fl) :
       /\ r \notin over
       /\ flow' = [flow EXCEPT ![p]["verify"] =
                     [fl EXCEPT !.at = "submit", !.request = r, !.binding = cookies.binding]]
  /\ UNCHANGED <<page, cookies, challenge, request, over>>

(* claimVerification and the provider's answer about the token.            *)
Acceptable(fl) ==
  /\ fl.binding = fl.challenge
  /\ challenge[fl.challenge].number = fl.number
  /\ request[fl.request].number = fl.number

(* An account signs in, or the number waits for one.                       *)
Verified(p) ==
  LET fl == flow[p]["verify"] IN
  /\ p \in SignInPages /\ fl.at = "submit" /\ Acceptable(fl)
  /\ \/ /\ cookies' = [binding |-> 0, verified |-> 0]
        /\ End(p, "verify", [page[p] EXCEPT !.stage = "Authenticated"])
     \/ /\ cookies' = [cookies EXCEPT !.verified = fl.challenge]
        /\ End(p, "verify", [page[p] EXCEPT !.stage = "AccountChoices"])
  /\ UNCHANGED <<challenge, request, over>>

(* The connect form's submission links the number; no cookie changes.      *)
Linked(p) ==
  LET fl == flow[p]["verify"] IN
  /\ p \in ConnectPages /\ fl.at = "submit" /\ Acceptable(fl)
  /\ End(p, "verify", [page[p] EXCEPT !.stage = "Authenticated"])
  /\ UNCHANGED <<cookies, challenge, request, over>>

(* Refused, or not heard.                                                  *)
NotVerified(p) ==
  /\ flow[p]["verify"].at = "submit"
  /\ End(p, "verify", page[p])
  /\ UNCHANGED <<cookies, challenge, request, over>>

(* Variant: the number may be changed while a code is resent.              *)
ChangeNumberAnytime(p) ==
  /\ p \in SignInPages /\ page[p].stage = "VerifyOtp" /\ ~page[p].pending
  /\ page' = [page EXCEPT ![p] = [@ EXCEPT !.stage = "EnterPhone", !.challenge = 0,
                                           !.request = 0, !.spent = FALSE]]
  /\ UNCHANGED <<flow, cookies, challenge, request, over>>

ChangeNumber(p) ==
  /\ p \in SignInPages /\ page[p].stage = "VerifyOtp" /\ ~Busy(p)
  /\ page' = [page EXCEPT ![p] = [@ EXCEPT !.stage = "EnterPhone", !.challenge = 0,
                                           !.request = 0, !.spent = FALSE]]
  /\ UNCHANGED <<flow, cookies, challenge, request, over>>

(* The connect form's: its request is kept.                                *)
Cancel(p) ==
  /\ p \in ConnectPages /\ page[p].stage = "VerifyOtp" /\ ~page[p].pending
  /\ page' = [page EXCEPT ![p] = [@ EXCEPT !.stage = "EnterPhone", !.challenge = 0]]
  /\ UNCHANGED <<flow, cookies, challenge, request, over>>
-----------------------------------------------------------------------------
(* A proved number gets an account                                         *)

Turn(p, from, to) ==
  /\ page[p].stage = from /\ ~page[p].pending
  /\ page' = [page EXCEPT ![p].stage = to]
  /\ UNCHANGED <<flow, cookies, challenge, request, over>>

ChooseCreate(p)  == Turn(p, "AccountChoices", "CreateAccount")
BackToChoices(p) == Turn(p, "CreateAccount", "AccountChoices")

(* The request carries both cookies.                                       *)
SubmitAccount(p) ==
  /\ page[p].stage = "CreateAccount" /\ ~page[p].pending
  /\ Begin(p, "create", [Idle EXCEPT !.at = "create", !.challenge = cookies.verified,
                                     !.binding = cookies.binding])

AccountCreated(p) ==
  LET fl == flow[p]["create"] IN
  /\ fl.at = "create" /\ fl.challenge # 0 /\ fl.binding = fl.challenge
  /\ cookies' = [binding |-> 0, verified |-> 0]
  /\ End(p, "create", [page[p] EXCEPT !.stage = "Authenticated"])
  /\ UNCHANGED <<challenge, request, over>>

(* No verification, or the number is taken: the number is asked for again. *)
(* Other refusals, and no answer, leave the form as it is.                 *)
AccountNotCreated(p) ==
  /\ flow[p]["create"].at = "create"
  /\ \E s \in {"EnterPhone", "CreateAccount"} :
       End(p, "create", [page[p] EXCEPT !.stage = s])
  /\ UNCHANGED <<cookies, challenge, request, over>>
-----------------------------------------------------------------------------
Click(p) ==
  \/ LoadPage(p) \/ ResolveWidget(p)
  \/ \E n \in Numbers : StartVerification(p, n)
  \/ ResendOtp(p) \/ VerifyOtp(p) \/ ChangeNumber(p) \/ Cancel(p)
  \/ ChooseCreate(p) \/ BackToChoices(p) \/ SubmitAccount(p)

(* The server's answers to the handlers of p, or their absence.            *)
Fetch(p) ==
  \/ \E f \in {"start", "resend"} : Reserved(p, f) \/ ReserveFails(p, f)
  \/ ReservedUnsent(p)
  \/ Verified(p) \/ Linked(p) \/ NotVerified(p)
  \/ AccountCreated(p) \/ AccountNotCreated(p)

(* The provider's answers.                                                 *)
Widget(p) ==
  \/ \E f \in {"start", "resend"} : Sent(p, f)
  \/ Retried(p) \/ Proved(p)
  \/ \E f \in {"resend", "verify"} : CallTellsOver(p, f)

(* The script, or nothing: its load has no timer, and a widget that throws *)
(* when it is started leaves the promise as it is.                         *)
Script(p) == \E f \in {"start", "resend"} : Loaded(p, f) \/ LoadFails(p, f)

TimeOut(p) == \E f \in {"start", "resend", "verify"} : CallFails(p, f)

Next == \E p \in Pages : Click(p) \/ Fetch(p) \/ Script(p) \/ Widget(p) \/ TimeOut(p)

Spec == Init /\ [][Next]_vars

(* Requests to the server end, and a call of the widget has its timer; the *)
(* provider need not answer, and its script need not load or fail to.      *)
LiveSpec == Spec /\ \A p \in Pages : WF_vars(Fetch(p) \/ TimeOut(p))
-----------------------------------------------------------------------------
AwaitsScript(p) == ~page[p].loaded /\ \E f \in Flows : flow[p][f].at = "load"

(* Whoever types a code types it for the number that is shown: the         *)
(* challenge and the provider's request of the form are that number's, and *)
(* the sign-in form had a code sent to it.  No late resend, changed number *)
(* or reloaded page mixes two numbers.                                     *)
CodeStepAgrees ==
  \A p \in Pages : page[p].stage = "VerifyOtp" =>
    /\ page[p].challenge \in DOMAIN challenge
    /\ challenge[page[p].challenge].number = page[p].number
    /\ page[p].request # 0 => request[page[p].request].number = page[p].number
    /\ p \in SignInPages =>
         \E r \in DOMAIN request : request[r] = [number |-> page[p].number, page |-> p]

(* If the cookie of the browser is the one a page with a code field        *)
(* reserved, the form has the challenge of that cookie, also when the      *)
(* resend failed after it (the comment in resendOtp): another page can     *)
(* take the cookie away, but a page never spoils its own.                  *)
CookieBindsTheForm ==
  \A p \in Pages :
    /\ page[p].stage = "VerifyOtp" /\ cookies.binding # 0
    /\ challenge[cookies.binding].page = p
    => page[p].challenge = cookies.binding

(* A request the sign-in form was told is over is never retried or         *)
(* verified again, through failed resends and changes of number            *)
(* (docs/phone-otp.md, attempt policy).                                    *)
SpentIsReplaced ==
  \A p \in SignInPages, f \in Flows :
    flow[p][f].at \in {"retry", "verify"} => flow[p][f].request \notin over

(* A form that waits becomes usable again, whatever the provider answers:  *)
(* no call of the widget waits for ever for a callback that never comes.   *)
(* Only the provider's script can keep a form waiting, before it is loaded *)
(* for the first time in the page.                                         *)
FormsAnswer == \A p \in Pages : Busy(p) ~> (~Busy(p) \/ AwaitsScript(p))
=============================================================================
