-------------------------------- MODULE SignIn --------------------------------
(***************************************************************************)
(* How a person becomes a session: a phone number proved through the widget *)
(* (challenge, attempt, provider token, completion), a Google authorization *)
(* (sign-in, link, or the continuation of a proved number), and the account *)
(* and identities these create.                                             *)
(*                                                                          *)
(* Every transaction takes its advisory locks in the order of LocksOf,      *)
(* reads, and writes by what it read; reading and writing are two steps.    *)
(* The unique keys (a token's hash, provider and subject, a primary         *)
(* contact) are checked where the row is written.  The attempts of a        *)
(* challenge are counted, and their audit outcomes left out.                *)
(***************************************************************************)
EXTENDS Naturals, Sequences, FiniteSets

CONSTANTS Users,          \* bound: account ids
          Numbers, Challenges, Tokens,
          NumberOf,       \* the number a provider token proves
          Subjects,       \* Google accounts
          EmailOf,        \* the address Google vouches for
          Authorizations, \* Google authorization requests
          Sessions,       \* bound: session ids
          Requests,       \* HTTP requests under way
          Addresses,      \* network addresses they come from
          AddressesOf,    \* bound: those a provider token is presented from
          MaxAttempts,    \* verifyMaxPerChallenge
          MaxExpired,     \* bound: challenges that expire
          None

Emails == {EmailOf[g] : g \in Subjects}
Proofs == Tokens \cup Authorizations

ASSUME ConstantsAssumption ==
  /\ NumberOf \in [Tokens -> Numbers]
  /\ AddressesOf \in [Tokens -> SUBSET Addresses]
  /\ MaxAttempts \in Nat \ {0} /\ MaxExpired \in Nat
  /\ Tokens \cap Authorizations = {}
  /\ None \notin Users \cup Numbers \cup Challenges \cup Proofs
                 \cup Subjects \cup Emails \cup Sessions \cup Requests \cup Addresses

VARIABLES challenge,     \* PhoneOtpChallenge rows
          authorization, \* OAuthChallenge rows
          account,       \* User rows
          phoneUser,     \* AuthIdentity rows of provider PHONE
          googleUser,    \* AuthIdentity rows of provider GOOGLE
          session,       \* Session rows
          request,       \* requests
          lock           \* holders of the advisory locks

identities == <<account, phoneUser, googleUser>>
vars == <<challenge, authorization, identities, session, request, lock>>
-----------------------------------------------------------------------------
Locks == ({"verify", "complete"} \X Challenges) \cup ({"phone"} \X Numbers)
         \cup ({"google"} \X Subjects) \cup ({"email"} \X Emails)
         \cup ({"address"} \X Addresses)

Challenge     == [status: {"none", "sent", "consumed"}, number: Numbers \cup {None},
                  token: Tokens \cup {None}, attempts: Nat, late: BOOLEAN]
Authorization == [status: {"none", "open", "used"}, intent: {"signIn", "link", "continue"},
                  user: Users \cup {None}, challenge: Challenges \cup {None},
                  subject: Subjects \cup {None}]
Account       == [exists: BOOLEAN, phone: Numbers \cup {None}, email: Emails \cup {None}]
Session       == [user: Users, proofs: SUBSET Proofs, live: BOOLEAN]

Transactions == {"claim", "complete", "link", "create", "google", "linkGoogle", "continue"}
Steps        == Transactions \cup {"rest", "ask", "record", "issue"}
Readings     == {"unread", "fine", "known", "owned", "new", "refused"}

NoChallenge     == [status |-> "none", number |-> None, token |-> None, attempts |-> 0, late |-> FALSE]
NoAuthorization == [status |-> "none", intent |-> "signIn", user |-> None, challenge |-> None,
                    subject |-> None]
NoAccount       == [exists |-> FALSE, phone |-> None, email |-> None]
AtRest          == [pc |-> "rest", challenge |-> None, proof |-> None, user |-> None,
                    want |-> <<>>, read |-> "unread"]

TypeOK ==
  /\ challenge \in [Challenges -> Challenge]
  /\ authorization \in [Authorizations -> Authorization]
  /\ account \in [Users -> Account]
  /\ phoneUser \in [Numbers -> Users \cup {None}]
  /\ googleUser \in [Subjects -> Users \cup {None}]
  /\ \A s \in Sessions : session[s] = None \/ session[s] \in Session
  /\ \A r \in Requests :
       /\ request[r].pc \in Steps /\ request[r].read \in Readings
       /\ request[r].challenge \in Challenges \cup {None}
       /\ request[r].proof \in Proofs \cup {None}
       /\ request[r].user \in Users \cup {None}
       /\ \A i \in DOMAIN request[r].want : request[r].want[i] \in Locks
  /\ lock \in [Locks -> Requests \cup {None}]

Init ==
  /\ challenge = [c \in Challenges |-> NoChallenge]
  /\ authorization = [a \in Authorizations |-> NoAuthorization]
  /\ account = [u \in Users |-> NoAccount]
  /\ phoneUser = [n \in Numbers |-> None]
  /\ googleUser = [g \in Subjects |-> None]
  /\ session = [s \in Sessions |-> None]
  /\ request = [r \in Requests |-> AtRest]
  /\ lock = [l \in Locks |-> None]
-----------------------------------------------------------------------------
(* Locks                                                                   *)

(* Variant: a completion locks the number before its challenge.            *)
LocksNumberFirst(pc, c, g, ip) ==
  LET n == challenge[c].number IN
  CASE pc = "claim" -> << <<"verify", c>>, <<"address", ip>> >>
    [] pc = "link" -> << <<"phone", n>> >>
    [] pc \in {"google", "linkGoogle"} -> << <<"google", g>>, <<"email", EmailOf[g]>> >>
    [] pc = "create" -> << <<"complete", c>>, <<"phone", n>> >>
    [] pc = "complete" -> << <<"phone", n>>, <<"complete", c>> >>
    [] pc = "continue" -> << <<"complete", c>>, <<"google", g>>, <<"email", EmailOf[g]>>, <<"phone", n>> >>
    [] OTHER -> <<>>

(* The advisory locks of a transaction about challenge c and Google account *)
(* g, from address ip, in the order it takes them.                         *)
LocksOf(pc, c, g, ip) ==
  LET n == challenge[c].number IN
  CASE pc = "claim" -> << <<"verify", c>>, <<"address", ip>> >>
    [] pc = "link" -> << <<"phone", n>> >>
    [] pc \in {"google", "linkGoogle"} -> << <<"google", g>>, <<"email", EmailOf[g]>> >>
    [] pc \in {"complete", "create"} -> << <<"complete", c>>, <<"phone", n>> >>
    [] pc = "continue" -> << <<"complete", c>>, <<"google", g>>, <<"email", EmailOf[g]>>, <<"phone", n>> >>
    [] OTHER -> <<>>

(* Variant: the claims of a challenge do not wait for each other.          *)
IsFreeForClaims(l) == lock[l] = None \/ l[1] = "verify"

IsFree(l) == lock[l] = None

TakeLock(r) ==
  /\ request[r].want # <<>> /\ IsFree(Head(request[r].want))
  /\ lock' = [lock EXCEPT ![Head(request[r].want)] = r]
  /\ request' = [request EXCEPT ![r].want = Tail(@)]
  /\ UNCHANGED <<challenge, authorization, identities, session>>

ReleaseAll(r) == lock' = [l \in Locks |-> IF lock[l] = r THEN None ELSE lock[l]]

(* The request goes on to its next transaction or step, or is answered.    *)
GoOn(r, pc, req) ==
  request' = [request EXCEPT ![r] = [req EXCEPT !.pc = pc, !.read = "unread"]]

Finish(r) == request' = [request EXCEPT ![r] = AtRest] /\ ReleaseAll(r)

(* The transaction of r has its locks and has read, or is yet to read.     *)
Reading(r, pc)      == request[r].pc = pc /\ request[r].want = <<>> /\ request[r].read = "unread"
Writing(r, pc, res) == request[r].pc = pc /\ request[r].read = res

Reads(r, res) ==
  /\ request' = [request EXCEPT ![r].read = res]
  /\ UNCHANGED <<challenge, authorization, identities, session, lock>>

(* A transaction that found a reason to refuse writes nothing.             *)
Refuse(r) ==
  /\ request[r].read = "refused"
  /\ Finish(r)
  /\ UNCHANGED <<challenge, authorization, identities, session>>
-----------------------------------------------------------------------------
(* Sessions                                                                *)

NewSession(u, proofs) ==
  \E s \in Sessions :
    /\ session[s] = None
    /\ session' = [session EXCEPT ![s] = [user |-> u, proofs |-> proofs, live |-> TRUE]]

SignedIn(u) == \E s \in Sessions : session[s] # None /\ session[s].user = u /\ session[s].live

Revoke(S) ==
  /\ session' = [s \in Sessions |-> IF s \in S THEN [session[s] EXCEPT !.live = FALSE] ELSE session[s]]
  /\ UNCHANGED <<challenge, authorization, identities, request, lock>>

SignOut(s) == session[s] # None /\ session[s].live /\ Revoke({s})

SignOutEverywhere(u) ==
  /\ SignedIn(u)
  /\ Revoke({s \in Sessions : session[s] # None /\ session[s].user = u})
-----------------------------------------------------------------------------
(* A phone number is proved (PhoneOtpService.start, proveNumber)           *)

Start(c, n) ==
  /\ challenge[c].status = "none"
  /\ challenge' = [challenge EXCEPT ![c] = [NoChallenge EXCEPT !.status = "sent", !.number = n]]
  /\ UNCHANGED <<authorization, identities, session, request, lock>>

Expire(c) ==
  /\ challenge[c].status = "sent" /\ ~challenge[c].late
  /\ Cardinality({d \in Challenges : challenge[d].late}) < MaxExpired
  /\ challenge' = [challenge EXCEPT ![c].late = TRUE]
  /\ UNCHANGED <<authorization, identities, session, request, lock>>

(* The browser at ip presents a token, to sign in or (u # None) to link the *)
(* number to the account it is signed in to.                               *)
Present(r, c, t, u, ip) ==
  /\ request[r].pc = "rest" /\ challenge[c].status # "none"
  /\ u # None => SignedIn(u)
  /\ GoOn(r, "claim", [AtRest EXCEPT !.challenge = c, !.proof = t, !.user = u,
                                     !.want = LocksOf("claim", c, None, ip)])
  /\ UNCHANGED <<challenge, authorization, identities, session, lock>>

ReadClaim(r) ==
  LET c == challenge[request[r].challenge] IN
  /\ Reading(r, "claim")
  /\ Reads(r, IF c.status = "sent" /\ ~c.late /\ c.attempts < MaxAttempts THEN "fine" ELSE "refused")

Claim(r) ==
  /\ Writing(r, "claim", "fine")
  /\ challenge' = [challenge EXCEPT ![request[r].challenge].attempts = @ + 1]
  /\ GoOn(r, "ask", request[r]) /\ ReleaseAll(r)
  /\ UNCHANGED <<authorization, identities, session>>

(* The provider does not answer, rejects the token, or names a number.     *)
AskProvider(r) ==
  /\ request[r].pc = "ask"
  /\ \/ GoOn(r, "rest", AtRest)
     \/ /\ NumberOf[request[r].proof] = challenge[request[r].challenge].number
        /\ GoOn(r, "record", request[r])
  /\ UNCHANGED <<challenge, authorization, identities, session, lock>>

(* Variant: the hash of a token is not unique.                             *)
AnyToken(c, t) == TRUE

(* The unique key of providerTokenHash.                                    *)
TokenUnused(c, t) == \A d \in Challenges \ {c} : challenge[d].token # t

(* recordProviderVerified: no lock; a challenge takes one token.           *)
Record(r) ==
  LET c == request[r].challenge
      t == request[r].proof
      next == IF request[r].user = None THEN "complete" ELSE "link"
  IN
  /\ request[r].pc = "record"
  /\ IF /\ challenge[c].status # "consumed" /\ challenge[c].token \in {None, t}
        /\ TokenUnused(c, t)
       THEN /\ challenge' = [challenge EXCEPT ![c].token = t]
            /\ GoOn(r, next, [request[r] EXCEPT !.want = LocksOf(next, c, None, None)])
       ELSE UNCHANGED challenge /\ GoOn(r, "rest", AtRest)
  /\ UNCHANGED <<authorization, identities, session, lock>>
-----------------------------------------------------------------------------
(* What a proved number leads to                                           *)

(* Variant: the challenge need not have been verified by the provider.     *)
UsableUnproved(c) == challenge[c].status = "sent" /\ ~challenge[c].late

(* Proved, not used up and not expired.                                    *)
Usable(c) == challenge[c].status = "sent" /\ challenge[c].token # None /\ ~challenge[c].late

PhoneOwner(n) == {u \in Users : account[u].phone = n}
EmailOwner(e) == {u \in Users : account[u].email = e}

Consume(c) == challenge' = [challenge EXCEPT ![c].status = "consumed"]

(* PrismaPhoneOtpCompletionRepository.complete                             *)
ReadCompletion(r) ==
  LET c == request[r].challenge
      n == challenge[c].number
  IN
  /\ Reading(r, "complete")
  /\ Reads(r, IF ~Usable(c) THEN "refused" ELSE IF phoneUser[n] # None THEN "known"
              ELSE IF PhoneOwner(n) # {} THEN "owned" ELSE "new")

(* Authenticated: a session of the number's account.                       *)
Authenticate(r) ==
  LET c == request[r].challenge
      u == phoneUser[challenge[c].number]
  IN
  /\ Writing(r, "complete", "known")
  /\ account' = [account EXCEPT ![u].phone = IF @ = None THEN challenge[c].number ELSE @]
  /\ NewSession(u, {request[r].proof})
  /\ Consume(c) /\ Finish(r)
  /\ UNCHANGED <<authorization, phoneUser, googleUser>>

(* Link required, which uses the challenge up, or account setup: the       *)
(* challenge, not late yet, is given more time.                            *)
AnswerUnknown(r) ==
  /\ \/ Writing(r, "complete", "owned") /\ Consume(request[r].challenge)
     \/ Writing(r, "complete", "new") /\ UNCHANGED challenge
  /\ Finish(r)
  /\ UNCHANGED <<authorization, identities, session>>

(* createAccount, for the browser that was answered account setup.         *)
AskAccount(r, c) ==
  /\ request[r].pc = "rest" /\ challenge[c].token # None
  /\ GoOn(r, "create", [AtRest EXCEPT !.challenge = c, !.proof = challenge[c].token,
                                      !.want = LocksOf("create", c, None, None)])
  /\ UNCHANGED <<challenge, authorization, identities, session, lock>>

ReadAccount(r) ==
  LET c == request[r].challenge
      n == challenge[c].number
  IN
  /\ Reading(r, "create")
  /\ Reads(r, IF Usable(c) /\ phoneUser[n] = None /\ PhoneOwner(n) = {} THEN "new" ELSE "refused")

CreateAccount(r) ==
  LET c == request[r].challenge
      n == challenge[c].number
  IN
  /\ Writing(r, "create", "new")
  /\ IF phoneUser[n] = None /\ PhoneOwner(n) = {}
       THEN \E u \in Users :
              /\ ~account[u].exists
              /\ account' = [account EXCEPT ![u] = [exists |-> TRUE, phone |-> n, email |-> None]]
              /\ phoneUser' = [phoneUser EXCEPT ![n] = u]
              /\ NewSession(u, {request[r].proof})
              /\ Consume(c)
       ELSE UNCHANGED <<account, phoneUser, session, challenge>>
  /\ Finish(r)
  /\ UNCHANGED <<authorization, googleUser>>

(* Variant: linking takes a number from the account that has it.           *)
NumberFreeAlways(n, u) == TRUE

(* linkPhoneIdentityInTransaction for the account u: the number is free.   *)
NumberFree(n, u) == phoneUser[n] = None /\ PhoneOwner(n) \subseteq {u}

ReadLink(r) ==
  LET n == challenge[request[r].challenge].number IN
  /\ Reading(r, "link")
  /\ Reads(r, IF NumberFree(n, request[r].user) THEN "new" ELSE "refused")

(* The challenge of a linked number is not used up.                        *)
LinkPhone(r) ==
  LET n == challenge[request[r].challenge].number
      u == request[r].user
  IN
  /\ Writing(r, "link", "new")
  /\ IF NumberFree(n, u)
       THEN /\ phoneUser' = [phoneUser EXCEPT ![n] = u]
            /\ account' = [account EXCEPT ![u].phone = IF @ = None THEN n ELSE @]
       ELSE UNCHANGED <<phoneUser, account>>
  /\ Finish(r)
  /\ UNCHANGED <<challenge, authorization, googleUser, session>>
-----------------------------------------------------------------------------
(* Google (GoogleOAuthService)                                             *)

Open(a, intent, u, c) ==
  /\ authorization[a].status = "none"
  /\ authorization' = [authorization EXCEPT ![a] =
       [NoAuthorization EXCEPT !.status = "open", !.intent = intent, !.user = u, !.challenge = c]]
  /\ UNCHANGED <<challenge, identities, session, request, lock>>

StartGoogle(a) ==
  \/ Open(a, "signIn", None, None)
  \/ \E u \in Users : SignedIn(u) /\ Open(a, "link", u, None)
  \/ \E c \in Challenges : Usable(c) /\ Open(a, "continue", None, c)

(* consume: an authorization is used once.                                 *)
StillOpen(a) == authorization[a].status = "open"

(* The callback uses the authorization up, exchanges the code (which may   *)
(* fail) and begins the transaction its intent calls for.  A link goes on   *)
(* only if the browser is still signed in to the account that asked.       *)
Callback(r, a, g) ==
  LET next == CASE authorization[a].intent = "signIn" -> "google"
                [] authorization[a].intent = "link" -> "linkGoogle"
                [] OTHER -> "continue"
      c == authorization[a].challenge
  IN
  /\ request[r].pc = "rest" /\ StillOpen(a)
  /\ authorization' = [authorization EXCEPT ![a].status = "used", ![a].subject = g]
  /\ \/ UNCHANGED request
     \/ /\ next = "linkGoogle" => SignedIn(authorization[a].user)
        /\ GoOn(r, next, [AtRest EXCEPT !.challenge = c, !.proof = a,
                                        !.user = authorization[a].user, !.want = LocksOf(next, c, g, None)])
  /\ UNCHANGED <<challenge, identities, session, lock>>

(* The account of a Google identity, or a new one, is being looked for.    *)
ReadGoogle(r) ==
  LET g == authorization[request[r].proof].subject IN
  /\ Reading(r, "google")
  /\ Reads(r, IF googleUser[g] # None THEN "known"
              ELSE IF EmailOwner(EmailOf[g]) # {} THEN "refused" ELSE "new")

(* A new account with the identity g; without the number if n is None.     *)
Creates(u, g, n) ==
  /\ ~account[u].exists /\ googleUser[g] = None /\ EmailOwner(EmailOf[g]) = {}
  /\ account' = [account EXCEPT ![u] = [exists |-> TRUE, phone |-> n, email |-> EmailOf[g]]]
  /\ googleUser' = [googleUser EXCEPT ![g] = u]

(* resolve; the session is issued by a statement of its own.               *)
ResolveGoogle(r) ==
  LET g == authorization[request[r].proof].subject IN
  /\ \/ /\ Writing(r, "google", "known")
        /\ GoOn(r, "issue", [request[r] EXCEPT !.user = googleUser[g]])
        /\ UNCHANGED <<account, googleUser>>
     \/ /\ Writing(r, "google", "new")
        /\ \E u \in Users : Creates(u, g, None) /\ GoOn(r, "issue", [request[r] EXCEPT !.user = u])
  /\ ReleaseAll(r)
  /\ UNCHANGED <<challenge, authorization, phoneUser, session>>

IssueSession(r) ==
  /\ request[r].pc = "issue"
  /\ NewSession(request[r].user, {request[r].proof})
  /\ Finish(r)
  /\ UNCHANGED <<challenge, authorization, identities>>

(* PrismaAuthIdentityLinkRepository.linkGoogle                             *)
ReadGoogleLink(r) ==
  LET g == authorization[request[r].proof].subject IN
  /\ Reading(r, "linkGoogle")
  /\ Reads(r, IF googleUser[g] = None /\ EmailOwner(EmailOf[g]) \subseteq {request[r].user}
                THEN "new" ELSE "refused")

LinkGoogle(r) ==
  LET g == authorization[request[r].proof].subject
      u == request[r].user
  IN
  /\ Writing(r, "linkGoogle", "new")
  /\ IF googleUser[g] = None /\ EmailOwner(EmailOf[g]) \subseteq {u}
       THEN /\ googleUser' = [googleUser EXCEPT ![g] = u]
            /\ account' = [account EXCEPT ![u].email = IF @ = None THEN EmailOf[g] ELSE @]
       ELSE UNCHANGED <<googleUser, account>>
  /\ Finish(r)
  /\ UNCHANGED <<challenge, authorization, phoneUser, session>>

(* PrismaVerifiedPhoneGoogleRepository.resolve                             *)
ReadContinuation(r) ==
  LET g == authorization[request[r].proof].subject IN
  /\ Reading(r, "continue")
  /\ Reads(r, IF ~Usable(request[r].challenge) THEN "refused"
              ELSE IF googleUser[g] # None THEN "known"
              ELSE IF EmailOwner(EmailOf[g]) # {} THEN "refused" ELSE "new")

(* Variant: the answer of linkPhoneIdentityInTransaction is not looked at. *)
NeverConflict(n, u) == FALSE

(* The number cannot be linked to u (None for an account yet to be made).  *)
Conflict(n, u) == ~NumberFree(n, u) /\ (u = None \/ phoneUser[n] # u)

(* The new or known account gets the number too, and a session.            *)
Continue(r) ==
  LET c == request[r].challenge
      n == challenge[c].number
      g == authorization[request[r].proof].subject
      connect(u) == /\ phoneUser' = [phoneUser EXCEPT ![n] = IF @ = None THEN u ELSE @]
                    /\ NewSession(u, {request[r].proof, challenge[c].token})
                    /\ Consume(c)
  IN
  /\ \/ /\ Writing(r, "continue", "known")
        /\ ~Conflict(n, googleUser[g])
        /\ account' = [account EXCEPT ![googleUser[g]].phone = IF @ = None THEN n ELSE @]
        /\ connect(googleUser[g])
        /\ UNCHANGED googleUser
     \/ /\ Writing(r, "continue", "new")
        /\ ~Conflict(n, None)
        /\ \E u \in Users : Creates(u, g, n) /\ connect(u)
  /\ Finish(r)
  /\ UNCHANGED authorization

(* PhoneLinkConflictError undoes the whole transaction, its account too.   *)
RollBack(r) ==
  LET c == request[r].challenge
      g == authorization[request[r].proof].subject
  IN
  /\ \/ Writing(r, "continue", "known") /\ Conflict(challenge[c].number, googleUser[g])
     \/ Writing(r, "continue", "new") /\ Conflict(challenge[c].number, None)
  /\ Finish(r)
  /\ UNCHANGED <<challenge, authorization, identities, session>>

(* The server dies, or the transaction fails.                              *)
RequestLost(r) ==
  /\ request[r].pc # "rest"
  /\ Finish(r)
  /\ UNCHANGED <<challenge, authorization, identities, session>>
-----------------------------------------------------------------------------
RequestSteps(r) ==
  \/ TakeLock(r) \/ Refuse(r) \/ RequestLost(r)
  \/ \E c \in Challenges, t \in Tokens, u \in Users \cup {None} :
       \E ip \in AddressesOf[t] : Present(r, c, t, u, ip)
  \/ ReadClaim(r) \/ Claim(r) \/ AskProvider(r) \/ Record(r)
  \/ ReadCompletion(r) \/ Authenticate(r) \/ AnswerUnknown(r)
  \/ \E c \in Challenges : AskAccount(r, c)
  \/ ReadAccount(r) \/ CreateAccount(r) \/ ReadLink(r) \/ LinkPhone(r)
  \/ \E a \in Authorizations, g \in Subjects : Callback(r, a, g)
  \/ ReadGoogle(r) \/ ResolveGoogle(r) \/ IssueSession(r)
  \/ ReadGoogleLink(r) \/ LinkGoogle(r)
  \/ ReadContinuation(r) \/ Continue(r) \/ RollBack(r)

Next ==
  \/ \E r \in Requests : RequestSteps(r)
  \/ \E c \in Challenges : Expire(c) \/ \E n \in Numbers : Start(c, n)
  \/ \E a \in Authorizations : StartGoogle(a)
  \/ \E s \in Sessions : SignOut(s)
  \/ \E u \in Users : SignOutEverywhere(u)

Spec == Init /\ [][Next]_vars
-----------------------------------------------------------------------------
(* Properties                                                              *)

(* However its requests overlap, a challenge gets no more than its          *)
(* verifyMaxPerChallenge submissions past the provider (claimVerification). *)
SubmissionsWithinCap == \A c \in Challenges : challenge[c].attempts <= MaxAttempts

(* A provider token or a Google authorization opens at most one session,    *)
(* whether it is presented again, to another challenge, or by two requests  *)
(* at once ("single use", docs/phone-otp.md).                               *)
OneSessionPerProof ==
  \A s, z \in Sessions :
    s # z /\ session[s] # None /\ session[z] # None
      => session[s].proofs \cap session[z].proofs = {}

(* A session is of the account that holds every identity its proofs name,   *)
(* so identities are never transferred (PrismaAuthIdentityLinkRepository).  *)
SessionIsHolders ==
  \A s \in Sessions : session[s] # None =>
    /\ \A t \in Tokens \cap session[s].proofs : phoneUser[NumberOf[t]] = session[s].user
    /\ \A a \in Authorizations \cap session[s].proofs :
         googleUser[authorization[a].subject] = session[s].user

(* The primary contact of an account is one it has proved, so a number or   *)
(* an address never blocks its holder's sign-in for an account that cannot  *)
(* sign in with it (LINK_REQUIRED, PHONE_TAKEN).                            *)
ContactsAreProven ==
  \A u \in Users :
    /\ account[u].phone # None => phoneUser[account[u].phone] = u
    /\ account[u].email # None => \E g \in Subjects : EmailOf[g] = account[u].email /\ googleUser[g] = u

(* Two transactions never wait for each other's locks, whatever their       *)
(* kinds: the orders of LocksOf agree.                                      *)
NoCircularWait ==
  ~ \E W \in SUBSET Requests :
      /\ W # {}
      /\ \A r \in W : request[r].want # <<>> /\ lock[Head(request[r].want)] \in W
=============================================================================
