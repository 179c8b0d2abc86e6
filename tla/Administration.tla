---------------------------- MODULE Administration ----------------------------
(***************************************************************************)
(* The administration area: who is an administrator, the invitations that   *)
(* wait for a verified Google address, the one-time grant to the address    *)
(* the deployment names, and the plans administrators assign by hand.       *)
(*                                                                          *)
(* Administrators' requests are authorized first and carried out later in a *)
(* transaction; sign-ins verify an address in one transaction and are       *)
(* considered for the role in another.  Transactions that hold the same     *)
(* advisory lock exclude each other; a step stands for the statements whose *)
(* outcome nothing outside the lock can change.  The unique keys of         *)
(* UserRole and of pending invitations are kept by the database.            *)
(***************************************************************************)
EXTENDS Naturals, FiniteSets

CONSTANTS Users,
          Subscribers,    \* bound: the users plans are assigned to
          Emails,         \* addresses of Google accounts
          AccountOf,      \* the user a Google account belongs to
          BootstrapEmail, \* BOOTSTRAP_ADMIN_EMAIL
          Invites,        \* AdminInvite ids
          Plans,          \* PlanSubscription ids
          SignIns,        \* Google callbacks under way
          Requests,       \* server actions of administrators under way
          None

ASSUME ConstantsAssumption ==
  /\ AccountOf \in [Emails -> Users]
  /\ BootstrapEmail \in Emails
  /\ Subscribers \subseteq Users
  /\ SignIns \cap Requests = {}
  /\ None \notin Users \cup Emails \cup Invites \cup Plans \cup SignIns \cup Requests

VARIABLES verified,     \* addresses a Google identity holds
          admins,       \* users with a UserRole row
          bootstrapped, \* AppConfig has the record admin.bootstrap
          invite,       \* AdminInvite rows
          plan,         \* PlanSubscription rows
          signIn,       \* Google callbacks
          request,      \* administrators' requests
          lock,         \* holder of the lock admin-management
          planLock,     \* holders of the locks manual-subscription, by user
          unheard,      \* history: addresses verified but not considered yet
          dismissed     \* history: users dismissed and not called back since

roles == <<admins, bootstrapped>>
past  == <<unheard, dismissed>>
vars  == <<verified, roles, invite, plan, signIn, request, lock, planLock, past>>
-----------------------------------------------------------------------------
Statuses == {"NONE", "PENDING", "ACCEPTED", "REVOKED", "EXPIRED"}
Invite   == [email: Emails \cup {None}, status: Statuses, late: BOOLEAN]
Plan     == [user: Users \cup {None}, source: {"NONE", "MANUAL_ADMIN", "PAYMENT_PROVIDER"},
             live: BOOLEAN, current: BOOLEAN]
Rest     == {"idle", "assigned", "ended", "failed"}
Kinds    == {"grant", "dismiss", "withdraw", "assign", "end"}
Callback == [pc: {"idle", "accept", "write", "bootstrap"},
             email: Emails \cup {None}, invite: Invites \cup {None}]
Action   == [pc: Rest \cup Kinds \cup {"role", "invite", "delete", "replace", "cancel"},
             on: Users \cup Emails \cup Invites \cup {None}, row: Plans \cup {None}]

NoInvite == [email |-> None, status |-> "NONE", late |-> FALSE]
NoPlan   == [user |-> None, source |-> "NONE", live |-> FALSE, current |-> FALSE]
NoSignIn == [pc |-> "idle", email |-> None, invite |-> None]
AtRest   == [pc |-> "idle", on |-> None, row |-> None]

TypeOK ==
  /\ verified \subseteq Emails
  /\ admins \subseteq Users
  /\ bootstrapped \in BOOLEAN
  /\ invite \in [Invites -> Invite]
  /\ plan \in [Plans -> Plan]
  /\ signIn \in [SignIns -> Callback]
  /\ request \in [Requests -> Action]
  /\ lock \in SignIns \cup Requests \cup {None}
  /\ planLock \in [Users -> Requests \cup {None}]
  /\ unheard \subseteq Emails
  /\ dismissed \subseteq Users

Init ==
  /\ verified = {} /\ admins = {} /\ bootstrapped = FALSE
  /\ invite = [i \in Invites |-> NoInvite]
  /\ plan = [p \in Plans |-> NoPlan]
  /\ signIn = [s \in SignIns |-> NoSignIn]
  /\ request = [r \in Requests |-> AtRest]
  /\ lock = None
  /\ planLock = [u \in Users |-> None]
  /\ unheard = {} /\ dismissed = {}
-----------------------------------------------------------------------------
(* Locks                                                                   *)

(* Variant: the transactions are not serialized.                           *)
FreeAlways == TRUE

Free == lock = None

Acquire(p) == Free /\ lock' = p
Pass       == Free /\ UNCHANGED lock    \* taken and released in one step
Release(p) == lock' = IF lock = p THEN None ELSE lock
-----------------------------------------------------------------------------
(* Google sign-ins (GoogleOAuthService.complete)                           *)

Pending(email) == {i \in Invites : invite[i].email = email /\ invite[i].status = "PENDING"}

User(s) == AccountOf[signIn[s].email]

(* A sign-in or a link: the identity is committed, then evaluate runs.     *)
Verify(s, email) ==
  /\ signIn[s].pc = "idle"
  /\ signIn' = [signIn EXCEPT ![s] = [@ EXCEPT !.pc = "accept", !.email = email]]
  /\ verified' = verified \cup {email}
  /\ unheard' = unheard \ {email}
  /\ UNCHANGED <<roles, invite, plan, request, lock, planLock, dismissed>>

(* A sign-in that continues a phone verification does not run evaluate.    *)
VerifyByPhone(email) ==
  /\ verified' = verified \cup {email}
  /\ unheard' = IF email \in verified THEN unheard ELSE unheard \cup {email}
  /\ UNCHANGED <<roles, invite, plan, signIn, request, lock, planLock, dismissed>>

(* acceptForVerifiedEmail takes the lock and reads the pending invitation. *)
ReadInvite(s) ==
  /\ signIn[s].pc = "accept"
  /\ \/ /\ Pending(signIn[s].email) = {} /\ Pass
        /\ signIn' = [signIn EXCEPT ![s].pc = "bootstrap"]
     \/ \E i \in Pending(signIn[s].email) :
          /\ Acquire(s)
          /\ signIn' = [signIn EXCEPT ![s] = [@ EXCEPT !.pc = "write", !.invite = i]]
  /\ UNCHANGED <<verified, roles, invite, plan, request, planLock, past>>

(* It then writes by id what it read: an invitation past its time is closed *)
(* and the sign-in goes on to bootstrap.                                    *)
AcceptInvite(s) ==
  /\ signIn[s].pc = "write"
  /\ LET i == signIn[s].invite IN
     IF invite[i].late
       THEN /\ invite' = [invite EXCEPT ![i].status = "EXPIRED"]
            /\ signIn' = [signIn EXCEPT ![s] = [@ EXCEPT !.pc = "bootstrap", !.invite = None]]
            /\ UNCHANGED admins
       ELSE /\ invite' = [invite EXCEPT ![i].status = "ACCEPTED"]
            /\ signIn' = [signIn EXCEPT ![s] = NoSignIn]
            /\ admins' = admins \cup {User(s)}
  /\ Release(s)
  /\ UNCHANGED <<verified, bootstrapped, plan, request, planLock, past>>

(* Variant: the window is closed by there being an administrator.          *)
WindowByAdmins(s) == /\ signIn[s].email = BootstrapEmail /\ User(s) \notin admins

(* The one-time grant is available to the configured address.              *)
Window(s) == /\ signIn[s].email = BootstrapEmail
             /\ ~bootstrapped /\ User(s) \notin admins

Bootstrap(s) ==
  /\ signIn[s].pc = "bootstrap"
  /\ IF Window(s)
       THEN admins' = admins \cup {User(s)} /\ bootstrapped' = TRUE
       ELSE UNCHANGED roles
  /\ signIn' = [signIn EXCEPT ![s] = NoSignIn]
  /\ UNCHANGED <<verified, invite, plan, request, lock, planLock, past>>

(* evaluate fails or its process dies; the sign-in goes on without it.     *)
EvaluateFails(s) ==
  /\ signIn[s].pc # "idle"
  /\ signIn' = [signIn EXCEPT ![s] = NoSignIn]
  /\ unheard' = unheard \cup {signIn[s].email}
  /\ Release(s)
  /\ UNCHANGED <<verified, roles, invite, plan, request, planLock, dismissed>>

(* Seven days pass.                                                        *)
InviteExpires(i) ==
  /\ invite[i].status = "PENDING" /\ ~invite[i].late
  /\ invite' = [invite EXCEPT ![i].late = TRUE]
  /\ UNCHANGED <<verified, roles, plan, signIn, request, lock, planLock, past>>
-----------------------------------------------------------------------------
(* Administrators' requests                                                *)

Go(r, pc)   == request' = [request EXCEPT ![r].pc = pc]
Rests(r, pc) == request' = [request EXCEPT ![r] = [AtRest EXCEPT !.pc = pc]]

(* requireActingAdministrator: the role is read before the transaction, and *)
(* not again in it.                                                         *)
Authorize(r, kind, on) ==
  /\ request[r].pc \in Rest /\ admins # {}
  /\ request' = [request EXCEPT ![r] = [@ EXCEPT !.pc = kind, !.on = on]]
  /\ UNCHANGED <<verified, roles, invite, plan, signIn, lock, planLock, past>>

Ask(r) ==
  \/ \E email \in Emails : Authorize(r, "grant", email)
  \/ \E u \in admins : Authorize(r, "dismiss", u)
  \/ \E i \in Invites : invite[i].status = "PENDING" /\ Authorize(r, "withdraw", i)
  \/ \E u \in Subscribers : Authorize(r, "assign", u)
  \/ \E u \in Subscribers : Authorize(r, "end", u)

(* grantOrInvite: the lock, then the verified identity and its role.       *)
FindIdentity(r) ==
  LET email == request[r].on IN
  /\ request[r].pc = "grant"
  /\ \/ email \notin verified /\ Acquire(r) /\ Go(r, "invite")
     \/ email \in verified /\ AccountOf[email] \in admins /\ Pass /\ Rests(r, "idle")
     \/ email \in verified /\ AccountOf[email] \notin admins /\ Acquire(r) /\ Go(r, "role")
  /\ UNCHANGED <<verified, roles, invite, plan, signIn, planLock, past>>

CreateRole(r) ==
  /\ request[r].pc = "role"
  /\ admins' = admins \cup {AccountOf[request[r].on]}
  /\ dismissed' = dismissed \ {AccountOf[request[r].on]}
  /\ Rests(r, "idle") /\ Release(r)
  /\ UNCHANGED <<verified, bootstrapped, invite, plan, signIn, planLock, unheard>>

(* ALREADY_INVITED, or a new invitation.                                   *)
CreateInvite(r) ==
  LET email == request[r].on IN
  /\ request[r].pc = "invite"
  /\ \/ Pending(email) # {} /\ UNCHANGED <<invite, dismissed>>
     \/ /\ Pending(email) = {}
        /\ \E i \in Invites :
             /\ invite[i].status = "NONE"
             /\ invite' = [invite EXCEPT ![i] = [email |-> email, status |-> "PENDING", late |-> FALSE]]
        /\ dismissed' = dismissed \ {AccountOf[email]}
  /\ Rests(r, "idle") /\ Release(r)
  /\ UNCHANGED <<verified, roles, plan, signIn, planLock, unheard>>

(* revoke: NOT_ADMINISTRATOR, LAST_ADMINISTRATOR, or the role is deleted.  *)
CountAdministrators(r) ==
  /\ request[r].pc = "dismiss"
  /\ \/ request[r].on \notin admins /\ Pass /\ Rests(r, "idle")
     \/ request[r].on \in admins /\ Cardinality(admins) <= 1 /\ Pass /\ Rests(r, "idle")
     \/ request[r].on \in admins /\ Cardinality(admins) > 1 /\ Acquire(r) /\ Go(r, "delete")
  /\ UNCHANGED <<verified, roles, invite, plan, signIn, planLock, past>>

(* An invitation may still be waiting for one of the user's addresses.     *)
Invited(u) == \E email \in Emails : AccountOf[email] = u /\ Pending(email) # {}

DeleteRole(r) ==
  /\ request[r].pc = "delete"
  /\ admins' = admins \ {request[r].on}
  /\ dismissed' = IF Invited(request[r].on) THEN dismissed ELSE dismissed \cup {request[r].on}
  /\ Rests(r, "idle") /\ Release(r)
  /\ UNCHANGED <<verified, bootstrapped, invite, plan, signIn, planLock, unheard>>

(* revokeInvite: one conditional update, without the lock.                 *)
Withdraw(r) ==
  /\ request[r].pc = "withdraw"
  /\ invite' = [i \in Invites |->
       IF i = request[r].on /\ invite[i].status = "PENDING"
         THEN [invite[i] EXCEPT !.status = "REVOKED"] ELSE invite[i]]
  /\ Rests(r, "idle")
  /\ UNCHANGED <<verified, roles, plan, signIn, lock, planLock, past>>
-----------------------------------------------------------------------------
(* Plans assigned by hand                                                  *)

Of(u, source) == {p \in Plans : plan[p].user = u /\ plan[p].source = source /\ plan[p].live}
InForce(u, source) == {p \in Of(u, source) : plan[p].current}

(* Variant: assignments of one account are not serialized.                 *)
PlanFreeAlways(u) == TRUE

PlanFree(u) == planLock[u] = None

HoldPlan(r)    == planLock' = [planLock EXCEPT ![request[r].on] = r]
ReleasePlan(r) == planLock' = [u \in Users |-> IF planLock[u] = r THEN None ELSE planLock[u]]

NewPlan(u, source) == [user |-> u, source |-> source, live |-> TRUE, current |-> TRUE]

(* assign takes the account's lock and looks for a provider's subscription.*)
FindProvider(r) ==
  /\ request[r].pc = "assign" /\ PlanFree(request[r].on)
  /\ IF InForce(request[r].on, "PAYMENT_PROVIDER") # {}
       THEN Rests(r, "idle") /\ UNCHANGED planLock
       ELSE Go(r, "replace") /\ HoldPlan(r)
  /\ UNCHANGED <<verified, roles, invite, plan, signIn, lock, past>>

(* Every manual row the partial unique index counts.                       *)
Closed(u) == Of(u, "MANUAL_ADMIN")

ReplacePlan(r) ==
  LET u == request[r].on IN
  /\ request[r].pc = "replace"
  /\ IF Of(u, "MANUAL_ADMIN") \subseteq Closed(u)
       THEN /\ \E p \in Plans :
                 /\ plan[p].source = "NONE"
                 /\ plan' = [q \in Plans |->
                      IF q = p THEN NewPlan(u, "MANUAL_ADMIN")
                      ELSE IF q \in Closed(u) THEN [plan[q] EXCEPT !.live = FALSE] ELSE plan[q]]
            /\ Rests(r, "assigned")
       ELSE Rests(r, "failed") /\ UNCHANGED plan    \* PlanSubscription_active_manual_key
  /\ ReleasePlan(r)
  /\ UNCHANGED <<verified, roles, invite, signIn, lock, past>>

(* revoke reads the assignment in force under the account's lock, and      *)
FindPlan(r) ==
  LET u == request[r].on IN
  /\ request[r].pc = "end" /\ PlanFree(u)
  /\ \/ /\ InForce(u, "MANUAL_ADMIN") = {}
        /\ Rests(r, "idle") /\ UNCHANGED planLock
     \/ \E p \in InForce(u, "MANUAL_ADMIN") :
          /\ request' = [request EXCEPT ![r] = [@ EXCEPT !.pc = "cancel", !.row = p]]
          /\ HoldPlan(r)
  /\ UNCHANGED <<verified, roles, invite, plan, signIn, lock, past>>

(* cancels it by id.                                                       *)
CancelPlan(r) ==
  /\ request[r].pc = "cancel"
  /\ plan' = [plan EXCEPT ![request[r].row].live = FALSE]
  /\ Rests(r, "ended") /\ ReleasePlan(r)
  /\ UNCHANGED <<verified, roles, invite, signIn, lock, past>>

(* The server dies or the transaction fails.                               *)
RequestLost(r) ==
  /\ request[r].pc \notin Rest
  /\ Rests(r, "idle") /\ Release(r) /\ ReleasePlan(r)
  /\ UNCHANGED <<verified, roles, invite, plan, signIn, past>>

PeriodEnds(p) ==
  /\ plan[p].live /\ plan[p].current
  /\ plan' = [plan EXCEPT ![p].current = FALSE]
  /\ UNCHANGED <<verified, roles, invite, signIn, request, lock, planLock, past>>

(* The payment provider records a subscription.                            *)
ProviderSubscribes(u) ==
  /\ \E p \in Plans : /\ plan[p].source = "NONE"
                      /\ plan' = [plan EXCEPT ![p] = NewPlan(u, "PAYMENT_PROVIDER")]
  /\ UNCHANGED <<verified, roles, invite, signIn, request, lock, planLock, past>>
-----------------------------------------------------------------------------
SignInSteps(s) ==
  \/ \E email \in Emails : Verify(s, email)
  \/ ReadInvite(s) \/ AcceptInvite(s) \/ Bootstrap(s) \/ EvaluateFails(s)

RequestSteps(r) ==
  \/ Ask(r) \/ FindIdentity(r) \/ CreateRole(r) \/ CreateInvite(r)
  \/ CountAdministrators(r) \/ DeleteRole(r) \/ Withdraw(r)
  \/ FindProvider(r) \/ ReplacePlan(r) \/ FindPlan(r) \/ CancelPlan(r) \/ RequestLost(r)

Next ==
  \/ \E s \in SignIns : SignInSteps(s)
  \/ \E r \in Requests : RequestSteps(r)
  \/ \E email \in Emails : VerifyByPhone(email)
  \/ \E i \in Invites : InviteExpires(i)
  \/ \E p \in Plans : PeriodEnds(p)
  \/ \E u \in Subscribers : ProviderSubscribes(u)

Spec == Init /\ [][Next]_vars
-----------------------------------------------------------------------------
(* Properties                                                              *)

(* StudioCar AI never reaches zero administrators once it had one           *)
(* (docs/security.md "Administrator management"): administrators dismissing *)
(* each other at once cannot both succeed.                                  *)
NeverWithoutAdministrator == bootstrapped => admins # {}

(* An invitation never waits for an address that was verified already,      *)
(* unless that verification was never considered: the lock orders           *)
(* grantOrInvite's look for an identity against acceptForVerifiedEmail.     *)
InvitationReachesHolder ==
  \A i \in Invites :
    /\ invite[i].status = "PENDING" /\ ~invite[i].late
    /\ invite[i].email \in verified
    => \/ invite[i].email \in unheard
       \/ \E s \in SignIns : signIn[s].email = invite[i].email /\ signIn[s].pc \in {"accept", "write"}

(* Signing in never gives back the role an administrator took away, unless  *)
(* an invitation was waiting then or somebody called the person back since  *)
(* (docs/security.md: "never re-granted by signing in again").              *)
DismissedStayOut == dismissed \cap admins = {}

(* An administrator who is told an assigned plan was ended is told so when  *)
(* the account has none any more, however assignments interleave.           *)
EndedHasNoPlan ==
  [][\A r \in Requests, u \in Users :
       request[r].pc = "cancel" /\ request'[r].pc = "ended" /\ request[r].on = u
         => InForce(u, "MANUAL_ADMIN")' = {}]_vars
=============================================================================
