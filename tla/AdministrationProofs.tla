------------------------- MODULE AdministrationProofs -------------------------
(***************************************************************************)
(* Proofs about Administration for any number of users, addresses, sign-ins *)
(* and requests: types; that there is always an administrator; that nobody  *)
(* who was dismissed comes back by signing in; that an invitation reaches   *)
(* its holder; that a plan said to be ended is.                             *)
(***************************************************************************)
EXTENDS Administration, FiniteSetTheorems, TLAPS

(* What the types leave open: what a process is about to work on.          *)
GoodCallback(h) ==
  /\ h.pc # "idle" => h.email \in Emails
  /\ h.pc = "write" => h.invite \in Invites

GoodAction(h) ==
  /\ h.pc \in {"grant", "role", "invite"} => h.on \in Emails
  /\ h.pc \in {"dismiss", "delete", "assign", "end", "replace", "cancel"} => h.on \in Users
  /\ h.pc = "cancel" => h.row \in Plans

WellFormed ==
  /\ \A s \in SignIns : GoodCallback(signIn[s])
  /\ \A r \in Requests : GoodAction(request[r])

TypeInv == TypeOK /\ WellFormed
-----------------------------------------------------------------------------
LEMMA TypeInvInit == Init => TypeInv
<1> SUFFICES ASSUME Init PROVE TypeInv
  OBVIOUS
<1> USE DEF Init
<1>1. invite \in [Invites -> Invite] /\ plan \in [Plans -> Plan]
  BY DEF NoInvite, Invite, Statuses, NoPlan, Plan
<1>2. signIn \in [SignIns -> Callback] /\ request \in [Requests -> Action]
  BY DEF NoSignIn, Callback, AtRest, Action, Rest
<1>3. WellFormed
  BY DEF WellFormed, GoodCallback, GoodAction, NoSignIn, AtRest
<1> QED BY <1>1, <1>2, <1>3 DEF TypeInv, TypeOK

(* A callback that goes on.                                                *)
LEMMA CallbackMoves ==
  ASSUME TypeInv, NEW s \in SignIns, NEW h \in Callback, GoodCallback(h),
         signIn' = [signIn EXCEPT ![s] = h], UNCHANGED request
  PROVE  signIn' \in [SignIns -> Callback] /\ WellFormed'
BY DEF TypeInv, TypeOK, WellFormed

(* A request that goes on.                                                 *)
LEMMA RequestMoves ==
  ASSUME TypeInv, NEW r \in Requests, NEW h \in Action, GoodAction(h),
         request' = [request EXCEPT ![r] = h], UNCHANGED signIn
  PROVE  request' \in [Requests -> Action] /\ WellFormed'
BY DEF TypeInv, TypeOK, WellFormed

LEMMA CallbackTypes ==
  ASSUME NEW h \in Callback, GoodCallback(h)
  PROVE  /\ \A email \in Emails :
              LET k == [h EXCEPT !.pc = "accept", !.email = email] IN
              k \in Callback /\ GoodCallback(k)
         /\ h.pc # "idle" =>
              /\ [h EXCEPT !.pc = "bootstrap"] \in Callback
              /\ GoodCallback([h EXCEPT !.pc = "bootstrap"])
              /\ [h EXCEPT !.pc = "bootstrap", !.invite = None] \in Callback
              /\ GoodCallback([h EXCEPT !.pc = "bootstrap", !.invite = None])
              /\ \A i \in Invites :
                   LET k == [h EXCEPT !.pc = "write", !.invite = i] IN
                   k \in Callback /\ GoodCallback(k)
         /\ NoSignIn \in Callback /\ GoodCallback(NoSignIn)
BY DEF Callback, GoodCallback, NoSignIn

(* The rows of invitations stay rows.                                      *)
LEMMA InviteTypes ==
  ASSUME NEW row \in Invite
  PROVE  /\ \A status \in Statuses : [row EXCEPT !.status = status] \in Invite
         /\ [row EXCEPT !.late = TRUE] \in Invite
BY DEF Invite

LEMMA PlanTypes ==
  ASSUME NEW row \in Plan
  PROVE  /\ [row EXCEPT !.live = FALSE] \in Plan
         /\ [row EXCEPT !.current = FALSE] \in Plan
         /\ \A u \in Users, source \in {"MANUAL_ADMIN", "PAYMENT_PROVIDER"} :
              NewPlan(u, source) \in Plan
BY DEF Plan, NewPlan

LEMMA SignInTypes ==
  ASSUME TypeInv, NEW s \in SignIns, SignInSteps(s)
  PROVE  TypeInv'
<1>1. signIn[s] \in Callback /\ GoodCallback(signIn[s])
  BY DEF TypeInv, TypeOK, WellFormed
<1>3. ASSUME NEW email \in Emails, Verify(s, email) PROVE TypeInv'
  <2> DEFINE h == [signIn[s] EXCEPT !.pc = "accept", !.email = email]
  <2>1. h \in Callback /\ GoodCallback(h)
    BY <1>1, CallbackTypes
  <2>2. signIn' = [signIn EXCEPT ![s] = h]
    BY <1>3 DEF Verify
  <2> HIDE DEF h
  <2>3. signIn' \in [SignIns -> Callback] /\ WellFormed'
    BY <1>3, <2>1, <2>2, CallbackMoves DEF Verify
  <2> QED BY <1>3, <2>3 DEF Verify, TypeInv, TypeOK, roles
<1>4. CASE ReadInvite(s)
  <2>1. CASE signIn' = [signIn EXCEPT ![s].pc = "bootstrap"] /\ UNCHANGED lock
    <3> DEFINE h == [signIn[s] EXCEPT !.pc = "bootstrap"]
    <3>1. h \in Callback /\ GoodCallback(h)
      BY <1>1, <1>4, CallbackTypes DEF ReadInvite
    <3>2. signIn' = [signIn EXCEPT ![s] = h]
      BY <2>1
    <3> HIDE DEF h
    <3>3. signIn' \in [SignIns -> Callback] /\ WellFormed'
      BY <1>4, <3>1, <3>2, CallbackMoves DEF ReadInvite
    <3> QED BY <1>4, <2>1, <3>3 DEF ReadInvite, TypeInv, TypeOK, roles, past
  <2>2. ASSUME NEW i \in Invites, lock' = s,
               signIn' = [signIn EXCEPT ![s] = [@ EXCEPT !.pc = "write", !.invite = i]]
        PROVE  TypeInv'
    <3> DEFINE h == [signIn[s] EXCEPT !.pc = "write", !.invite = i]
    <3>1. h \in Callback /\ GoodCallback(h)
      BY <1>1, <1>4, CallbackTypes DEF ReadInvite
    <3>2. signIn' = [signIn EXCEPT ![s] = h]
      BY <2>2
    <3> HIDE DEF h
    <3>3. signIn' \in [SignIns -> Callback] /\ WellFormed'
      BY <1>4, <3>1, <3>2, CallbackMoves DEF ReadInvite
    <3> QED BY <1>4, <2>2, <3>3 DEF ReadInvite, TypeInv, TypeOK, roles, past
  <2> QED BY <1>4, <2>1, <2>2 DEF ReadInvite, Pass, Acquire, Pending
<1>5. CASE AcceptInvite(s)
  <2> DEFINE i == signIn[s].invite
  <2>1. i \in Invites /\ invite[i] \in Invite /\ User(s) \in Users
    BY <1>1, <1>5, ConstantsAssumption DEF AcceptInvite, GoodCallback, TypeInv, TypeOK, User
  <2>2. lock' \in SignIns \cup Requests \cup {None}
    BY <1>5 DEF AcceptInvite, Release, TypeInv, TypeOK
  <2>3. \A status \in Statuses : [invite[i] EXCEPT !.status = status] \in Invite
    BY <2>1, InviteTypes
  <2>4. ASSUME NEW h \in Callback, GoodCallback(h), NEW status \in Statuses,
               signIn' = [signIn EXCEPT ![s] = h],
               invite' = [invite EXCEPT ![i].status = status],
               admins' \subseteq Users
        PROVE  TypeInv'
    <3>1. signIn' \in [SignIns -> Callback] /\ WellFormed'
      BY <1>5, <2>4, CallbackMoves DEF AcceptInvite
    <3>2. invite' \in [Invites -> Invite]
      <4> DEFINE row == [invite[i] EXCEPT !.status = status]
      <4>1. row \in Invite /\ invite' = [invite EXCEPT ![i] = row]
        BY <2>3, <2>4
      <4> HIDE DEF row
      <4> QED BY <4>1 DEF TypeInv, TypeOK
    <3> HIDE DEF i
    <3> QED BY <1>5, <2>2, <2>4, <3>1, <3>2 DEF AcceptInvite, TypeInv, TypeOK, past
  <2>5. CASE invite[i].late
    <3> DEFINE h == [signIn[s] EXCEPT !.pc = "bootstrap", !.invite = None]
    <3>1. h \in Callback /\ GoodCallback(h)
      BY <1>1, <1>5, CallbackTypes DEF AcceptInvite
    <3>2. /\ signIn' = [signIn EXCEPT ![s] = h]
          /\ invite' = [invite EXCEPT ![i].status = "EXPIRED"]
          /\ admins' \subseteq Users
      BY <1>5, <2>5 DEF AcceptInvite, TypeInv, TypeOK
    <3> HIDE DEF h, i
    <3> QED BY <2>4, <3>1, <3>2 DEF Statuses
  <2>6. CASE ~invite[i].late
    <3>1. /\ signIn' = [signIn EXCEPT ![s] = NoSignIn]
          /\ invite' = [invite EXCEPT ![i].status = "ACCEPTED"]
          /\ admins' \subseteq Users
      BY <1>5, <2>1, <2>6 DEF AcceptInvite, TypeInv, TypeOK
    <3>2. NoSignIn \in Callback /\ GoodCallback(NoSignIn)
      BY <1>1, CallbackTypes
    <3> HIDE DEF i
    <3> QED BY <2>4, <3>1, <3>2 DEF Statuses
  <2> QED BY <2>5, <2>6
<1>6. CASE Bootstrap(s) \/ EvaluateFails(s)
  <2>1. NoSignIn \in Callback /\ GoodCallback(NoSignIn)
    BY <1>1, CallbackTypes
  <2>2. signIn' = [signIn EXCEPT ![s] = NoSignIn] /\ UNCHANGED request
    BY <1>6 DEF Bootstrap, EvaluateFails
  <2>3. signIn' \in [SignIns -> Callback] /\ WellFormed'
    BY <2>1, <2>2, CallbackMoves
  <2>4. signIn[s].email \in Emails /\ User(s) \in Users
    BY <1>1, <1>6, ConstantsAssumption DEF Bootstrap, EvaluateFails, GoodCallback, User
  <2> QED BY <1>6, <2>2, <2>3, <2>4
      DEF Bootstrap, EvaluateFails, Release, TypeInv, TypeOK, roles, past
<1> QED BY <1>3, <1>4, <1>5, <1>6 DEF SignInSteps

LEMMA ActionTypes ==
  ASSUME NEW h \in Action, GoodAction(h)
  PROVE  /\ \A pc \in Rest : /\ [AtRest EXCEPT !.pc = pc] \in Action
                             /\ GoodAction([AtRest EXCEPT !.pc = pc])
         /\ \A email \in Emails : LET k == [h EXCEPT !.pc = "grant", !.on = email] IN
              k \in Action /\ GoodAction(k)
         /\ \A i \in Invites : LET k == [h EXCEPT !.pc = "withdraw", !.on = i] IN
              k \in Action /\ GoodAction(k)
         /\ \A u \in Users, kind \in {"dismiss", "assign", "end"} :
              LET k == [h EXCEPT !.pc = kind, !.on = u] IN k \in Action /\ GoodAction(k)
         /\ h.pc = "grant" => \A pc \in {"role", "invite"} :
              [h EXCEPT !.pc = pc] \in Action /\ GoodAction([h EXCEPT !.pc = pc])
         /\ h.pc = "dismiss" =>
              [h EXCEPT !.pc = "delete"] \in Action /\ GoodAction([h EXCEPT !.pc = "delete"])
         /\ h.pc = "assign" =>
              [h EXCEPT !.pc = "replace"] \in Action /\ GoodAction([h EXCEPT !.pc = "replace"])
         /\ h.pc = "end" => \A p \in Plans :
              LET k == [h EXCEPT !.pc = "cancel", !.row = p] IN k \in Action /\ GoodAction(k)
<1> USE DEF GoodAction, Rest, Kinds
<1>1. ASSUME NEW pc \in Rest
      PROVE  [AtRest EXCEPT !.pc = pc] \in Action /\ GoodAction([AtRest EXCEPT !.pc = pc])
  BY DEF Action, AtRest
<1>2. ASSUME NEW kind \in Kinds, NEW on \in Users \cup Emails \cup Invites,
             kind = "grant" => on \in Emails,
             kind \in {"dismiss", "assign", "end"} => on \in Users
      PROVE  LET k == [h EXCEPT !.pc = kind, !.on = on] IN k \in Action /\ GoodAction(k)
  BY <1>2 DEF Action
<1>3. ASSUME NEW pc \in {"role", "invite", "delete", "replace"},
             pc \in {"role", "invite"} => h.pc = "grant",
             pc = "delete" => h.pc = "dismiss", pc = "replace" => h.pc = "assign"
      PROVE  [h EXCEPT !.pc = pc] \in Action /\ GoodAction([h EXCEPT !.pc = pc])
  BY <1>3 DEF Action
<1>4. ASSUME NEW p \in Plans, h.pc = "end"
      PROVE  LET k == [h EXCEPT !.pc = "cancel", !.row = p] IN k \in Action /\ GoodAction(k)
  BY <1>4 DEF Action
<1> HIDE DEF GoodAction, Rest
<1> QED BY <1>1, <1>2, <1>3, <1>4

(* A request that has been answered.                                       *)
LEMMA RestsTypes ==
  ASSUME TypeInv, NEW r \in Requests, NEW pc \in Rest, Rests(r, pc), UNCHANGED signIn
  PROVE  request' \in [Requests -> Action] /\ WellFormed'
<1> DEFINE h == [AtRest EXCEPT !.pc = pc]
<1>1. request[r] \in Action /\ GoodAction(request[r])
  BY DEF TypeInv, TypeOK, WellFormed
<1>2. h \in Action /\ GoodAction(h)
  BY <1>1, ActionTypes
<1>3. request' = [request EXCEPT ![r] = h]
  BY DEF Rests
<1> HIDE DEF h
<1> QED BY <1>2, <1>3, RequestMoves

(* A request that goes on with what it works on.                           *)
LEMMA GoTypes ==
  ASSUME TypeInv, NEW r \in Requests, NEW pc, Go(r, pc), UNCHANGED signIn,
         \/ request[r].pc = "grant" /\ pc \in {"role", "invite"}
         \/ request[r].pc = "dismiss" /\ pc = "delete"
         \/ request[r].pc = "assign" /\ pc = "replace"
  PROVE  request' \in [Requests -> Action] /\ WellFormed'
<1> DEFINE h == [request[r] EXCEPT !.pc = pc]
<1>1. request[r] \in Action /\ GoodAction(request[r])
  BY DEF TypeInv, TypeOK, WellFormed
<1>2. h \in Action /\ GoodAction(h)
  BY <1>1, ActionTypes
<1>3. request' = [request EXCEPT ![r] = h]
  BY DEF Go
<1> HIDE DEF h
<1> QED BY <1>2, <1>3, RequestMoves

LEMMA AskTypes ==
  ASSUME TypeInv, NEW r \in Requests, Ask(r)
  PROVE  TypeInv'
<1>1. request[r] \in Action /\ GoodAction(request[r])
  BY DEF TypeInv, TypeOK, WellFormed
<1>2. ASSUME NEW kind, NEW on, Authorize(r, kind, on),
             LET k == [request[r] EXCEPT !.pc = kind, !.on = on] IN
               k \in Action /\ GoodAction(k)
      PROVE  TypeInv'
  <2> DEFINE h == [request[r] EXCEPT !.pc = kind, !.on = on]
  <2>1. h \in Action /\ GoodAction(h) /\ request' = [request EXCEPT ![r] = h]
    BY <1>2 DEF Authorize
  <2> HIDE DEF h
  <2>2. request' \in [Requests -> Action] /\ WellFormed'
    BY <1>2, <2>1, RequestMoves DEF Authorize
  <2> QED BY <1>2, <2>2 DEF Authorize, TypeInv, TypeOK, roles, past
<1>3. ASSUME NEW email \in Emails, Authorize(r, "grant", email) PROVE TypeInv'
  BY <1>1, <1>2, <1>3, ActionTypes
<1>4. ASSUME NEW i \in Invites, Authorize(r, "withdraw", i) PROVE TypeInv'
  BY <1>1, <1>2, <1>4, ActionTypes
<1>5. ASSUME NEW u \in Users, NEW kind \in {"dismiss", "assign", "end"}, Authorize(r, kind, u)
      PROVE  TypeInv'
  BY <1>1, <1>2, <1>5, ActionTypes
<1> QED BY <1>3, <1>4, <1>5, ConstantsAssumption DEF Ask, TypeInv, TypeOK

LEMMA RoleTypes ==
  ASSUME TypeInv, NEW r \in Requests,
         \/ FindIdentity(r) \/ CreateRole(r) \/ CreateInvite(r)
         \/ CountAdministrators(r) \/ DeleteRole(r) \/ Withdraw(r)
  PROVE  TypeInv'
<1>1. request[r] \in Action /\ GoodAction(request[r]) /\ "idle" \in Rest
  BY DEF TypeInv, TypeOK, WellFormed, Rest
<1>2. CASE FindIdentity(r)
  <2>1. request' \in [Requests -> Action] /\ WellFormed'
    BY <1>1, <1>2, RestsTypes, GoTypes DEF FindIdentity
  <2>2. lock' \in SignIns \cup Requests \cup {None}
    BY <1>2 DEF FindIdentity, Acquire, Pass, TypeInv, TypeOK
  <2> QED BY <1>2, <2>1, <2>2 DEF FindIdentity, TypeInv, TypeOK, roles, past
<1>3. CASE CountAdministrators(r)
  <2>1. request' \in [Requests -> Action] /\ WellFormed'
    BY <1>1, <1>3, RestsTypes, GoTypes DEF CountAdministrators
  <2>2. lock' \in SignIns \cup Requests \cup {None}
    BY <1>3 DEF CountAdministrators, Acquire, Pass, TypeInv, TypeOK
  <2> QED BY <1>3, <2>1, <2>2 DEF CountAdministrators, TypeInv, TypeOK, roles, past
<1>4. CASE CreateRole(r) \/ DeleteRole(r)
  <2>1. request' \in [Requests -> Action] /\ WellFormed'
    BY <1>1, <1>4, RestsTypes DEF CreateRole, DeleteRole
  <2>2. lock' \in SignIns \cup Requests \cup {None}
    BY <1>4 DEF CreateRole, DeleteRole, Release, TypeInv, TypeOK
  <2>3. /\ request[r].pc = "role" => AccountOf[request[r].on] \in Users
        /\ request[r].pc = "delete" => request[r].on \in Users
    BY <1>1, ConstantsAssumption DEF GoodAction
  <2> QED BY <1>4, <2>1, <2>2, <2>3 DEF CreateRole, DeleteRole, TypeInv, TypeOK, roles, past
<1>5. CASE CreateInvite(r)
  <2>1. request' \in [Requests -> Action] /\ WellFormed'
    BY <1>1, <1>5, RestsTypes DEF CreateInvite
  <2>2. lock' \in SignIns \cup Requests \cup {None}
    BY <1>5 DEF CreateInvite, Release, TypeInv, TypeOK
  <2>3. invite' \in [Invites -> Invite] /\ dismissed' \subseteq Users
    <3>1. CASE UNCHANGED <<invite, dismissed>>
      BY <3>1 DEF TypeInv, TypeOK
    <3>2. ASSUME NEW i \in Invites, dismissed' = dismissed \ {AccountOf[request[r].on]},
                 invite' = [invite EXCEPT ![i] =
                   [email |-> request[r].on, status |-> "PENDING", late |-> FALSE]]
          PROVE  invite' \in [Invites -> Invite] /\ dismissed' \subseteq Users
      <4> DEFINE row == [email |-> request[r].on, status |-> "PENDING", late |-> FALSE]
      <4>1. row \in Invite
        BY <1>1, <1>5 DEF CreateInvite, GoodAction, Invite, Statuses
      <4> HIDE DEF row
      <4>2. invite' = [invite EXCEPT ![i] = row]
        BY <3>2 DEF row
      <4> QED BY <3>2, <4>1, <4>2 DEF TypeInv, TypeOK
    <3> QED BY <1>5, <3>1, <3>2 DEF CreateInvite
  <2> QED BY <1>5, <2>1, <2>2, <2>3 DEF CreateInvite, TypeInv, TypeOK, roles
<1>6. CASE Withdraw(r)
  <2>1. request' \in [Requests -> Action] /\ WellFormed'
    BY <1>1, <1>6, RestsTypes DEF Withdraw
  <2>2. \A i \in Invites : [invite[i] EXCEPT !.status = "REVOKED"] \in Invite
    BY InviteTypes DEF TypeInv, TypeOK, Statuses
  <2>3. invite' \in [Invites -> Invite]
    BY <1>6, <2>2 DEF Withdraw, TypeInv, TypeOK
  <2> QED BY <1>6, <2>1, <2>3 DEF Withdraw, TypeInv, TypeOK, roles, past
<1> QED BY <1>2, <1>3, <1>4, <1>5, <1>6

LEMMA PlanStepTypes ==
  ASSUME TypeInv, NEW r \in Requests,
         \/ FindProvider(r) \/ ReplacePlan(r) \/ FindPlan(r) \/ CancelPlan(r)
         \/ RequestLost(r)
  PROVE  TypeInv'
<1>1. /\ request[r] \in Action /\ GoodAction(request[r])
      /\ Rest = {"idle", "assigned", "ended", "failed"}
  BY DEF TypeInv, TypeOK, WellFormed, Rest
<1>2. CASE FindProvider(r)
  <2>1. request' \in [Requests -> Action] /\ WellFormed'
    BY <1>1, <1>2, RestsTypes, GoTypes DEF FindProvider
  <2>2. planLock' \in [Users -> Requests \cup {None}]
    BY <1>2 DEF FindProvider, HoldPlan, TypeInv, TypeOK
  <2> QED BY <1>2, <2>1, <2>2 DEF FindProvider, TypeInv, TypeOK, roles, past
<1>3. CASE ReplacePlan(r)
  <2>1. request' \in [Requests -> Action] /\ WellFormed'
    BY <1>1, <1>3, RestsTypes DEF ReplacePlan
  <2>2. planLock' \in [Users -> Requests \cup {None}]
    BY <1>3 DEF ReplacePlan, ReleasePlan, TypeInv, TypeOK
  <2>3. plan' \in [Plans -> Plan]
    <3>1. /\ request[r].on \in Users
          /\ \A p \in Plans : /\ NewPlan(request[r].on, "MANUAL_ADMIN") \in Plan
                              /\ [plan[p] EXCEPT !.live = FALSE] \in Plan
      BY <1>1, <1>3, PlanTypes DEF ReplacePlan, GoodAction, TypeInv, TypeOK
    <3> QED BY <1>3, <3>1 DEF ReplacePlan, TypeInv, TypeOK
  <2> QED BY <1>3, <2>1, <2>2, <2>3 DEF ReplacePlan, TypeInv, TypeOK, roles, past
<1>4. CASE FindPlan(r)
  <2>1. CASE Rests(r, "idle") /\ UNCHANGED planLock
    BY <1>1, <1>4, <2>1, RestsTypes DEF FindPlan, TypeInv, TypeOK, roles, past
  <2>2. ASSUME NEW p \in Plans, HoldPlan(r),
               request' = [request EXCEPT ![r] = [@ EXCEPT !.pc = "cancel", !.row = p]]
        PROVE  TypeInv'
    <3> DEFINE h == [request[r] EXCEPT !.pc = "cancel", !.row = p]
    <3>1. h \in Action /\ GoodAction(h) /\ request' = [request EXCEPT ![r] = h]
      BY <1>1, <1>4, <2>2, ActionTypes DEF FindPlan
    <3> HIDE DEF h
    <3>2. request' \in [Requests -> Action] /\ WellFormed'
      BY <1>4, <3>1, RequestMoves DEF FindPlan
    <3>3. planLock' \in [Users -> Requests \cup {None}]
      BY <2>2 DEF HoldPlan, TypeInv, TypeOK
    <3> QED BY <1>4, <3>2, <3>3 DEF FindPlan, TypeInv, TypeOK, roles, past
  <2> QED BY <1>4, <2>1, <2>2 DEF FindPlan, InForce, Of
<1>5. CASE CancelPlan(r)
  <2>1. request' \in [Requests -> Action] /\ WellFormed'
    BY <1>1, <1>5, RestsTypes DEF CancelPlan
  <2>2. planLock' \in [Users -> Requests \cup {None}]
    BY <1>5 DEF CancelPlan, ReleasePlan, TypeInv, TypeOK
  <2>3. plan' \in [Plans -> Plan]
    <3> DEFINE row == [plan[request[r].row] EXCEPT !.live = FALSE]
    <3>1. row \in Plan /\ plan' = [plan EXCEPT ![request[r].row] = row]
      BY <1>1, <1>5, PlanTypes DEF CancelPlan, GoodAction, TypeInv, TypeOK
    <3> HIDE DEF row
    <3> QED BY <3>1 DEF TypeInv, TypeOK
  <2> QED BY <1>5, <2>1, <2>2, <2>3 DEF CancelPlan, TypeInv, TypeOK, roles, past
<1>6. CASE RequestLost(r)
  <2>1. request' \in [Requests -> Action] /\ WellFormed'
    BY <1>1, <1>6, RestsTypes DEF RequestLost
  <2>2. /\ planLock' \in [Users -> Requests \cup {None}]
        /\ lock' \in SignIns \cup Requests \cup {None}
    BY <1>6 DEF RequestLost, ReleasePlan, Release, TypeInv, TypeOK
  <2> QED BY <1>6, <2>1, <2>2 DEF RequestLost, TypeInv, TypeOK, roles, past
<1> QED BY <1>2, <1>3, <1>4, <1>5, <1>6

(* Steps of nobody here: time and the payment provider.                    *)
Outside ==
  \/ \E email \in Emails : VerifyByPhone(email)
  \/ \E i \in Invites : InviteExpires(i)
  \/ \E p \in Plans : PeriodEnds(p)
  \/ \E u \in Subscribers : ProviderSubscribes(u)

LEMMA OutsideTypes ==
  ASSUME TypeInv, Outside
  PROVE  TypeInv'
<1> USE DEF TypeInv, TypeOK
<1>1. ASSUME NEW email \in Emails, VerifyByPhone(email) PROVE TypeInv'
  BY <1>1 DEF VerifyByPhone, roles, WellFormed
<1>2. ASSUME NEW i \in Invites, InviteExpires(i) PROVE TypeInv'
  <2> DEFINE row == [invite[i] EXCEPT !.late = TRUE]
  <2>1. row \in Invite /\ invite' = [invite EXCEPT ![i] = row]
    BY <1>2, InviteTypes DEF InviteExpires
  <2> HIDE DEF row
  <2> QED BY <1>2, <2>1 DEF InviteExpires, roles, past, WellFormed
<1>3. ASSUME NEW p \in Plans, PeriodEnds(p) PROVE TypeInv'
  <2> DEFINE row == [plan[p] EXCEPT !.current = FALSE]
  <2>1. row \in Plan /\ plan' = [plan EXCEPT ![p] = row]
    BY <1>3, PlanTypes DEF PeriodEnds
  <2> HIDE DEF row
  <2> QED BY <1>3, <2>1 DEF PeriodEnds, roles, past, WellFormed
<1>4. ASSUME NEW u \in Users, ProviderSubscribes(u) PROVE TypeInv'
  <2>1. PICK p \in Plans : plan' = [plan EXCEPT ![p] = NewPlan(u, "PAYMENT_PROVIDER")]
    BY <1>4 DEF ProviderSubscribes
  <2>2. NewPlan(u, "PAYMENT_PROVIDER") \in Plan
    BY PlanTypes
  <2> QED BY <1>4, <2>1, <2>2 DEF ProviderSubscribes, roles, past, WellFormed
<1> QED BY <1>1, <1>2, <1>3, <1>4, ConstantsAssumption DEF Outside

LEMMA TypeInvStep == TypeInv /\ [Next]_vars => TypeInv'
<1> SUFFICES ASSUME TypeInv, [Next]_vars PROVE TypeInv'
  OBVIOUS
<1>1. CASE UNCHANGED vars
  BY <1>1 DEF vars, roles, past, TypeInv, TypeOK, WellFormed
<1>2. CASE Next
  BY <1>2, SignInTypes, AskTypes, RoleTypes, PlanStepTypes, OutsideTypes
  DEF Next, RequestSteps, Outside
<1> QED BY <1>1, <1>2

(* Types of every reachable state.                                         *)
THEOREM TypeCorrectness == Spec => []TypeOK
<1>1. TypeInv => TypeOK
  BY DEF TypeInv
<1> QED BY TypeInvInit, TypeInvStep, <1>1, PTL DEF Spec
-----------------------------------------------------------------------------
(* The lock admin-management is held where the code says it is.            *)
LockHeld ==
  /\ \A s \in SignIns : signIn[s].pc = "write" => lock = s
  /\ \A r \in Requests : request[r].pc \in {"role", "invite", "delete"} => lock = r

(* Who is about to be dismissed is not the only administrator.             *)
SomebodyElse ==
  /\ NeverWithoutAdministrator
  /\ \A r \in Requests : request[r].pc = "delete" =>
       request[r].on \in admins /\ \E u \in admins : u # request[r].on

(* Before the one-time grant nobody has administered anything.             *)
BeforeFirst ==
  ~bootstrapped =>
    /\ admins = {} /\ dismissed = {}
    /\ \A i \in Invites : invite[i].status # "PENDING"
    /\ \A s \in SignIns : signIn[s].pc # "write"
    /\ \A r \in Requests : request[r].pc \in Rest

(* Nobody dismissed is waited for by an invitation or a sign-in under way. *)
StayOut ==
  /\ DismissedStayOut
  /\ \A i \in Invites : invite[i].status = "PENDING" =>
       AccountOf[invite[i].email] \notin dismissed
  /\ \A s \in SignIns : signIn[s].pc = "write" => User(s) \notin dismissed

(* Somebody still looks, or never looked, for invitations of the address.  *)
Considered(email) ==
  email \in verified =>
    \/ email \in unheard
    \/ \E s \in SignIns : signIn[s].email = email /\ signIn[s].pc \in {"accept", "write"}

Expected ==
  \A i \in Invites : invite[i].status = "PENDING" =>
    invite[i].email \in Emails /\ Considered(invite[i].email)

(* A pending invitation is the only one of its address.                    *)
OneEach ==
  \A i, j \in Invites :
    /\ invite[i].status = "PENDING" /\ invite[j].status = "PENDING"
    /\ invite[i].email = invite[j].email
    => i = j

(* The one a sign-in writes is the one that waits for its address.         *)
OneRead ==
  \A s \in SignIns, i \in Invites :
    /\ signIn[s].pc = "write" /\ invite[i].status = "PENDING"
    /\ invite[i].email = signIn[s].email
    => i = signIn[s].invite

(* An invitation about to be created will be looked for.                   *)
Sought == \A r \in Requests : request[r].pc = "invite" => Considered(request[r].on)

Wanted == Expected /\ OneEach /\ OneRead /\ Sought

RoleInv == LockHeld /\ SomebodyElse /\ BeforeFirst /\ StayOut /\ Wanted

LEMMA RoleInvInit == Init => RoleInv
BY ConstantsAssumption
DEF Init, RoleInv, LockHeld, SomebodyElse, BeforeFirst, StayOut, Wanted, Expected,
OneEach, OneRead, Sought,
    NeverWithoutAdministrator, DismissedStayOut, NoSignIn, NoInvite, AtRest, Rest

LEMMA RestsFacts ==
  ASSUME TypeInv, NEW r \in Requests, NEW pc, Rests(r, pc)
  PROVE  request'[r].pc = pc /\ \A q \in Requests \ {r} : request'[q] = request[q]
BY DEF TypeInv, TypeOK, Rests, AtRest

LEMMA GoFacts ==
  ASSUME TypeInv, NEW r \in Requests, NEW pc, Go(r, pc)
  PROVE  /\ request'[r].pc = pc /\ request'[r].on = request[r].on
         /\ \A q \in Requests \ {r} : request'[q] = request[q]
BY DEF TypeInv, TypeOK, Go, Action

(* A request that touches neither roles nor invitations.                   *)
LEMMA QuietKeeps ==
  ASSUME TypeInv, RoleInv, NEW r \in Requests,
         \A q \in Requests \ {r} : request'[q] = request[q],
         request'[r].pc \notin {"role", "invite", "delete"},
         bootstrapped \/ request'[r].pc \in Rest,
         UNCHANGED <<verified, roles, invite, signIn, past>>,
         UNCHANGED lock \/ Release(r)
  PROVE  RoleInv'
<1>1. LockHeld'
  BY ConstantsAssumption DEF RoleInv, LockHeld, Release
<1>2. SomebodyElse'
  BY DEF RoleInv, SomebodyElse, NeverWithoutAdministrator, roles
<1>3. BeforeFirst'
  BY DEF RoleInv, BeforeFirst, roles, past
<1>4. StayOut'
  BY DEF RoleInv, StayOut, DismissedStayOut, User, roles, past
<1>5. Wanted'
  BY DEF RoleInv, Wanted, Expected, OneEach, OneRead, Sought, Considered, past
<1> QED BY <1>1, <1>2, <1>3, <1>4, <1>5 DEF RoleInv

LEMMA OutsideKeeps ==
  ASSUME TypeInv, RoleInv, Outside
  PROVE  RoleInv'
<1>1. CASE UNCHANGED <<verified, roles, invite, signIn, request, lock, past>>
  BY <1>1 DEF RoleInv, LockHeld, SomebodyElse, BeforeFirst, StayOut, Wanted, Expected,
     OneEach, OneRead, Sought, Considered,
     NeverWithoutAdministrator, DismissedStayOut, User, roles, past
<1>2. ASSUME NEW email \in Emails, VerifyByPhone(email) PROVE RoleInv'
  <2>1. LockHeld' /\ SomebodyElse' /\ BeforeFirst' /\ StayOut'
    BY <1>2 DEF VerifyByPhone, RoleInv, LockHeld, SomebodyElse, BeforeFirst, StayOut,
       NeverWithoutAdministrator, DismissedStayOut, User, roles
  <2>2. \A e : Considered(e) => Considered(e)'
    BY <1>2 DEF VerifyByPhone, Considered
  <2>3. Wanted'
    BY <1>2, <2>2 DEF VerifyByPhone, RoleInv, Wanted, Expected, OneEach, OneRead, Sought
  <2> QED BY <2>1, <2>3 DEF RoleInv
<1>3. ASSUME NEW i \in Invites, InviteExpires(i) PROVE RoleInv'
  <2>1. \A j \in Invites : invite'[j].status = invite[j].status /\ invite'[j].email = invite[j].email
    BY <1>3 DEF InviteExpires, TypeInv, TypeOK, Invite
  <2>2. LockHeld' /\ SomebodyElse' /\ BeforeFirst' /\ StayOut'
    BY <1>3, <2>1 DEF InviteExpires, RoleInv, LockHeld, SomebodyElse, BeforeFirst, StayOut,
       NeverWithoutAdministrator, DismissedStayOut, User, roles, past
  <2>3. Wanted'
    BY <1>3, <2>1 DEF InviteExpires, RoleInv, Wanted, Expected, OneEach, OneRead, Sought,
       Considered, past
  <2> QED BY <2>2, <2>3 DEF RoleInv
<1> QED BY <1>1, <1>2, <1>3 DEF Outside, PeriodEnds, ProviderSubscribes

LEMMA PlanStepKeeps ==
  ASSUME TypeInv, RoleInv, NEW r \in Requests,
         \/ Ask(r) \/ FindProvider(r) \/ ReplacePlan(r) \/ FindPlan(r) \/ CancelPlan(r)
         \/ RequestLost(r)
  PROVE  RoleInv'
<1> USE DEF Rest
<1>1. bootstrapped \/ (request[r].pc \in Rest /\ admins = {})
  BY DEF RoleInv, BeforeFirst
<1>2. CASE Ask(r)
  <2>1. PICK kind \in Kinds, on \in Users \cup Emails \cup Invites : Authorize(r, kind, on)
    BY <1>2, ConstantsAssumption DEF Ask, Kinds, TypeInv, TypeOK
  <2>2. request'[r].pc = kind /\ \A q \in Requests \ {r} : request'[q] = request[q]
    BY <2>1 DEF Authorize, TypeInv, TypeOK, Action
  <2> QED BY <1>1, <2>1, <2>2, QuietKeeps DEF Authorize, Kinds
<1>3. CASE FindProvider(r)
  <2>1. PICK pc \in {"idle", "replace"} : Rests(r, pc) \/ Go(r, pc)
    BY <1>3 DEF FindProvider
  <2>2. request'[r].pc = pc /\ \A q \in Requests \ {r} : request'[q] = request[q]
    BY <2>1, RestsFacts, GoFacts
  <2> QED BY <1>1, <1>3, <2>2, QuietKeeps DEF FindProvider
<1>4. CASE ReplacePlan(r)
  <2>1. PICK pc \in {"assigned", "failed"} : Rests(r, pc)
    BY <1>4 DEF ReplacePlan
  <2>2. request'[r].pc = pc /\ \A q \in Requests \ {r} : request'[q] = request[q]
    BY <2>1, RestsFacts
  <2> QED BY <1>4, <2>2, QuietKeeps DEF ReplacePlan
<1>5. CASE FindPlan(r)
  <2>1. /\ request'[r].pc \in {"idle", "cancel"}
        /\ \A q \in Requests \ {r} : request'[q] = request[q]
    <3>1. CASE Rests(r, "idle")
      BY <3>1, RestsFacts
    <3>2. ASSUME NEW p \in Plans,
                 request' = [request EXCEPT ![r] = [@ EXCEPT !.pc = "cancel", !.row = p]]
          PROVE  /\ request'[r].pc \in {"idle", "cancel"}
                 /\ \A q \in Requests \ {r} : request'[q] = request[q]
      BY <3>2 DEF TypeInv, TypeOK, Action
    <3> QED BY <1>5, <3>1, <3>2 DEF FindPlan, InForce, Of
  <2> QED BY <1>1, <1>5, <2>1, QuietKeeps DEF FindPlan
<1>6. CASE CancelPlan(r)
  <2>1. request'[r].pc = "ended" /\ \A q \in Requests \ {r} : request'[q] = request[q]
    BY <1>6, RestsFacts DEF CancelPlan
  <2> QED BY <1>6, <2>1, QuietKeeps DEF CancelPlan
<1>7. CASE RequestLost(r)
  <2>1. request'[r].pc = "idle" /\ \A q \in Requests \ {r} : request'[q] = request[q]
    BY <1>7, RestsFacts DEF RequestLost
  <2> QED BY <1>7, <2>1, QuietKeeps DEF RequestLost
<1> QED BY <1>2, <1>3, <1>4, <1>5, <1>6, <1>7

(* A sign-in's step, with the callback h it leaves.                        *)
LEMMA VerifyKeeps ==
  ASSUME TypeInv, RoleInv, NEW s \in SignIns, NEW email \in Emails, Verify(s, email)
  PROVE  RoleInv'
<1>1. /\ signIn'[s].pc = "accept" /\ signIn'[s].email = email
      /\ \A z \in SignIns \ {s} : signIn'[z] = signIn[z]
  BY DEF Verify, TypeInv, TypeOK, Callback
<1>2. LockHeld' /\ SomebodyElse' /\ BeforeFirst' /\ StayOut'
  BY <1>1 DEF Verify, RoleInv, LockHeld, SomebodyElse, BeforeFirst, StayOut,
     NeverWithoutAdministrator, DismissedStayOut, User, roles
<1>3. ASSUME NEW e, Considered(e) PROVE Considered(e)'
  <2>1. CASE e = email
    BY <1>1, <2>1 DEF Considered
  <2>2. CASE e # email
    BY <1>1, <1>3, <2>2 DEF Considered, Verify
  <2> QED BY <2>1, <2>2
<1>4. Wanted'
  BY <1>1, <1>3 DEF Verify, RoleInv, Wanted, Expected, OneEach, OneRead, Sought
<1> QED BY <1>2, <1>4 DEF RoleInv

LEMMA ReadInviteKeeps ==
  ASSUME TypeInv, RoleInv, NEW s \in SignIns, ReadInvite(s)
  PROVE  RoleInv'
<1>1. lock = None /\ \A r \in Requests : request[r].pc \notin {"role", "invite", "delete"}
  BY ConstantsAssumption DEF ReadInvite, Pass, Acquire, Free, RoleInv, LockHeld
<1>2. CASE /\ Pending(signIn[s].email) = {} /\ Pass
           /\ signIn' = [signIn EXCEPT ![s].pc = "bootstrap"]
  <2>1. /\ signIn'[s].pc = "bootstrap" /\ signIn'[s].email = signIn[s].email
        /\ \A z \in SignIns \ {s} : signIn'[z] = signIn[z]
    BY <1>2 DEF TypeInv, TypeOK, Callback
  <2>2. LockHeld' /\ SomebodyElse' /\ BeforeFirst' /\ StayOut'
    BY <1>1, <1>2, <2>1 DEF ReadInvite, Pass, RoleInv, LockHeld, SomebodyElse, BeforeFirst,
       StayOut, NeverWithoutAdministrator, DismissedStayOut, User, roles, past
  <2>3. \A e : Considered(e) /\ e # signIn[s].email => Considered(e)'
    BY <1>2, <2>1 DEF ReadInvite, Considered, past
  <2>4. Wanted'
    BY <1>1, <1>2, <2>1, <2>3 DEF ReadInvite, RoleInv, Wanted, Expected, OneEach,
       OneRead, Sought, Pending
  <2> QED BY <2>2, <2>4 DEF RoleInv
<1>3. ASSUME NEW i \in Pending(signIn[s].email), Acquire(s),
             signIn' = [signIn EXCEPT ![s] = [@ EXCEPT !.pc = "write", !.invite = i]]
      PROVE  RoleInv'
  <2>1. /\ signIn'[s].pc = "write" /\ signIn'[s].email = signIn[s].email
        /\ signIn'[s].invite = i
        /\ \A z \in SignIns \ {s} : signIn'[z] = signIn[z] /\ signIn[z].pc # "write"
    BY <1>1, <1>3, ConstantsAssumption DEF TypeInv, TypeOK, Callback, RoleInv, LockHeld
  <2>2. i \in Invites /\ invite[i].status = "PENDING" /\ invite[i].email = signIn[s].email
    BY DEF Pending
  <2>3. LockHeld' /\ SomebodyElse' /\ BeforeFirst'
    BY <1>1, <1>3, <2>1, <2>2 DEF ReadInvite, Acquire, RoleInv, LockHeld, SomebodyElse,
       BeforeFirst, NeverWithoutAdministrator, roles, past
  <2>4. StayOut'
    <3>1. UNCHANGED <<admins, dismissed, invite>>
      BY DEF ReadInvite, roles, past
    <3>2. AccountOf[signIn[s].email] \notin dismissed
      BY <2>2 DEF RoleInv, StayOut
    <3> QED BY <2>1, <3>1, <3>2 DEF RoleInv, StayOut, DismissedStayOut, User
  <2>5. ASSUME NEW e, Considered(e) PROVE Considered(e)'
    BY <1>3, <2>1, <2>5 DEF ReadInvite, Considered, past
  <2>6. Wanted'
    <3>1. UNCHANGED <<invite, request>>
      BY DEF ReadInvite
    <3>2. Expected' /\ OneEach' /\ Sought'
      BY <2>5, <3>1 DEF RoleInv, Wanted, Expected, OneEach, Sought
    <3>3. OneRead'
      BY <2>1, <2>2, <3>1 DEF RoleInv, Wanted, OneEach, OneRead
    <3> QED BY <3>2, <3>3 DEF Wanted
  <2> QED BY <2>3, <2>4, <2>6 DEF RoleInv
<1> QED BY <1>2, <1>3 DEF ReadInvite

LEMMA AcceptInviteKeeps ==
  ASSUME TypeInv, RoleInv, NEW s \in SignIns, AcceptInvite(s)
  PROVE  RoleInv'
<1> DEFINE i == signIn[s].invite
<1>1. /\ lock = s /\ lock' = None /\ User(s) \notin dismissed /\ i \in Invites
      /\ \A r \in Requests : request[r].pc \notin {"role", "invite", "delete"}
      /\ \A z \in SignIns \ {s} : signIn[z].pc # "write"
  BY ConstantsAssumption
  DEF AcceptInvite, Release, RoleInv, LockHeld, StayOut, TypeInv, WellFormed, GoodCallback
<1>2. /\ signIn'[s].pc \in {"idle", "bootstrap"}
      /\ \A z \in SignIns \ {s} : signIn'[z] = signIn[z]
  <2>1. CASE signIn' = [signIn EXCEPT ![s] = NoSignIn]
    BY <2>1 DEF NoSignIn, TypeInv, TypeOK
  <2>2. CASE signIn' = [signIn EXCEPT ![s] =
                         [@ EXCEPT !.pc = "bootstrap", !.invite = None]]
    BY <2>2 DEF TypeInv, TypeOK, Callback
  <2> QED BY <2>1, <2>2 DEF AcceptInvite
<1>3. /\ invite'[i].status # "PENDING"
      /\ \A j \in Invites \ {i} : invite'[j] = invite[j]
  BY <1>1 DEF AcceptInvite, TypeInv, TypeOK, Invite
<1>4. /\ admins \subseteq admins' /\ admins' \subseteq admins \cup {User(s)}
      /\ UNCHANGED <<verified, bootstrapped, request, past>>
  BY DEF AcceptInvite
<1> HIDE DEF i
<1>5. LockHeld'
  BY <1>1, <1>2, <1>4 DEF RoleInv, LockHeld
<1>6. SomebodyElse'
  BY <1>1, <1>4 DEF RoleInv, SomebodyElse, NeverWithoutAdministrator
<1>7. BeforeFirst'
  <2>1. bootstrapped
    BY DEF AcceptInvite, RoleInv, BeforeFirst
  <2> QED BY <1>4, <2>1 DEF BeforeFirst
<1>8. StayOut'
  <2>1. \A j \in Invites : invite'[j].status = "PENDING" => invite'[j] = invite[j]
    BY <1>3
  <2> QED BY <1>1, <1>2, <1>4, <2>1 DEF RoleInv, StayOut, DismissedStayOut, User, past
<1>9. Wanted'
  <2>1. \A e : Considered(e) /\ e # signIn[s].email => Considered(e)'
    BY <1>2, <1>4 DEF Considered, past
  <2>2. \A j \in Invites : invite'[j].status = "PENDING" =>
          invite'[j] = invite[j] /\ invite[j].email # signIn[s].email
    BY <1>3 DEF AcceptInvite, RoleInv, Wanted, Expected, OneEach, OneRead, Sought, i
  <2> QED BY <1>1, <1>2, <1>4, <2>1, <2>2 DEF RoleInv, Wanted, Expected, OneEach,
     OneRead, Sought
<1> QED BY <1>5, <1>6, <1>7, <1>8, <1>9 DEF RoleInv

LEMMA EvaluateKeeps ==
  ASSUME TypeInv, RoleInv, NEW s \in SignIns, Bootstrap(s) \/ EvaluateFails(s)
  PROVE  RoleInv'
<1>1. /\ signIn'[s].pc = "idle"
      /\ \A z \in SignIns \ {s} : signIn'[z] = signIn[z]
      /\ UNCHANGED <<verified, invite, request, dismissed>>
  <2>1. signIn' = [signIn EXCEPT ![s] = NoSignIn]
        /\ UNCHANGED <<verified, invite, request, dismissed>>
    BY DEF Bootstrap, EvaluateFails, past
  <2> QED BY <2>1 DEF NoSignIn, TypeInv, TypeOK
<1>2. LockHeld'
  BY <1>1, ConstantsAssumption DEF Bootstrap, EvaluateFails, Release, RoleInv, LockHeld
<1>3. CASE UNCHANGED roles
  <2>1. SomebodyElse' /\ BeforeFirst' /\ StayOut'
    BY <1>1, <1>3 DEF RoleInv, SomebodyElse, BeforeFirst, StayOut,
       NeverWithoutAdministrator, DismissedStayOut, User, roles
  <2>2. ASSUME NEW e, Considered(e) PROVE Considered(e)'
    BY <1>1, <2>2 DEF Bootstrap, EvaluateFails, Considered, past
  <2>3. Wanted'
    BY <1>1, <2>2 DEF RoleInv, Wanted, Expected, OneEach, OneRead, Sought
  <2> QED BY <1>2, <2>1, <2>3 DEF RoleInv
<1>4. CASE Bootstrap(s) /\ Window(s)
  <2>1. ~bootstrapped /\ bootstrapped' /\ admins' = admins \cup {User(s)} /\ UNCHANGED past
    BY <1>4 DEF Bootstrap, Window
  <2>2. dismissed' = {} /\ \A r \in Requests : request[r].pc \in Rest
    BY <1>1, <2>1 DEF RoleInv, BeforeFirst
  <2>3. SomebodyElse' /\ BeforeFirst'
    BY <1>1, <2>1, <2>2 DEF SomebodyElse, BeforeFirst, NeverWithoutAdministrator, Rest
  <2>4. StayOut'
    BY <2>2 DEF StayOut, DismissedStayOut
  <2>5. ASSUME NEW e, Considered(e) PROVE Considered(e)'
    BY <1>1, <1>4, <2>1, <2>5 DEF Bootstrap, Considered, past
  <2>6. Wanted'
    BY <1>1, <2>5 DEF RoleInv, Wanted, Expected, OneEach, OneRead, Sought
  <2> QED BY <1>2, <2>3, <2>4, <2>6 DEF RoleInv
<1> QED BY <1>3, <1>4 DEF Bootstrap, EvaluateFails

(* grantOrInvite and revoke take the lock, or leave.                       *)
LEMMA LookKeeps ==
  ASSUME TypeInv, RoleInv, NEW r \in Requests, FindIdentity(r) \/ CountAdministrators(r)
  PROVE  RoleInv'
<1>1. lock = None /\ UNCHANGED <<verified, roles, invite, signIn, past>>
      /\ request[r].pc \in {"grant", "dismiss"}
  BY DEF FindIdentity, CountAdministrators, Acquire, Pass, Free
<1>2. CASE Rests(r, "idle") /\ Pass
  <2>1. request'[r].pc = "idle" /\ \A q \in Requests \ {r} : request'[q] = request[q]
    BY <1>2, RestsFacts
  <2> QED BY <1>1, <1>2, <2>1, QuietKeeps DEF Pass, Rest
<1>3. ASSUME NEW pc \in {"role", "invite", "delete"}, Go(r, pc), Acquire(r),
             pc = "invite" => Considered(request[r].on),
             pc = "delete" => /\ request[r].on \in admins
                              /\ \E u \in admins : u # request[r].on
      PROVE  RoleInv'
  <2>1. /\ request'[r].pc = pc /\ request'[r].on = request[r].on
        /\ \A q \in Requests \ {r} : request'[q] = request[q]
    BY <1>3, GoFacts
  <2>2. LockHeld'
    BY <1>1, <1>3, <2>1, ConstantsAssumption DEF Acquire, RoleInv, LockHeld
  <2>3. SomebodyElse'
    BY <1>1, <1>3, <2>1 DEF RoleInv, SomebodyElse, NeverWithoutAdministrator, roles
  <2>4. BeforeFirst' /\ StayOut'
    BY <1>1, <2>1 DEF RoleInv, BeforeFirst, StayOut, DismissedStayOut, User, Rest, roles,
       past
  <2>5. Wanted'
    BY <1>1, <1>3, <2>1 DEF RoleInv, Wanted, Expected, OneEach, OneRead, Sought,
       Considered, past
  <2> QED BY <2>2, <2>3, <2>4, <2>5 DEF RoleInv
<1>4. CASE FindIdentity(r)
  BY <1>2, <1>3, <1>4 DEF FindIdentity, Considered
<1>5. CASE CountAdministrators(r)
  <2>1. ASSUME request[r].on \in admins, Cardinality(admins) > 1
        PROVE  \E u \in admins : u # request[r].on
    <3>1. SUFFICES ASSUME \A u \in admins : u = request[r].on PROVE FALSE
      OBVIOUS
    <3>2. admins = {request[r].on}
      BY <2>1, <3>1
    <3>3. Cardinality(admins) = 1
      BY <3>2, FS_Singleton
    <3> QED BY <2>1, <3>3
  <2> QED BY <1>2, <1>3, <1>5, <2>1 DEF CountAdministrators
<1> QED BY <1>4, <1>5

LEMMA RoleStepKeeps ==
  ASSUME TypeInv, RoleInv, NEW r \in Requests, CreateRole(r) \/ DeleteRole(r)
  PROVE  RoleInv'
<1>1. /\ lock = r /\ UNCHANGED <<verified, bootstrapped, invite, signIn, unheard>>
      /\ request'[r].pc = "idle" /\ \A q \in Requests \ {r} : request'[q] = request[q]
  BY RestsFacts DEF CreateRole, DeleteRole, RoleInv, LockHeld
<1>2. /\ \A q \in Requests \ {r} : request[q].pc \notin {"role", "invite", "delete"}
      /\ \A s \in SignIns : signIn[s].pc # "write"
  BY <1>1, ConstantsAssumption DEF RoleInv, LockHeld
<1>3. bootstrapped
  BY DEF RoleInv, BeforeFirst, CreateRole, DeleteRole, Rest
<1>4. LockHeld' /\ BeforeFirst'
  BY <1>1, <1>2, <1>3 DEF LockHeld, BeforeFirst
<1>5. Wanted'
  BY <1>1 DEF RoleInv, Wanted, Expected, OneEach, OneRead, Sought, Considered
<1>6. SomebodyElse'
  BY <1>1, <1>2 DEF CreateRole, DeleteRole, RoleInv, SomebodyElse, NeverWithoutAdministrator
<1>7. StayOut'
  <2>1. CASE CreateRole(r)
    BY <1>1, <1>2, <2>1 DEF CreateRole, RoleInv, StayOut, DismissedStayOut
  <2>2. CASE DeleteRole(r)
    <3>1. ~Invited(request[r].on) => \A i \in Invites : invite[i].status = "PENDING" =>
            AccountOf[invite[i].email] # request[r].on
      BY DEF Invited, Pending, RoleInv, Wanted, Expected, OneEach, OneRead, Sought
    <3> QED BY <1>1, <1>2, <2>2, <3>1 DEF DeleteRole, RoleInv, StayOut, DismissedStayOut
  <2> QED BY <2>1, <2>2
<1> QED BY <1>4, <1>5, <1>6, <1>7 DEF RoleInv

LEMMA InviteStepKeeps ==
  ASSUME TypeInv, RoleInv, NEW r \in Requests, CreateInvite(r) \/ Withdraw(r)
  PROVE  RoleInv'
<1>1. /\ UNCHANGED <<verified, roles, signIn, unheard>> /\ bootstrapped
      /\ request'[r].pc = "idle" /\ \A q \in Requests \ {r} : request'[q] = request[q]
  BY RestsFacts DEF CreateInvite, Withdraw, RoleInv, BeforeFirst, Rest, past
<1>2. LockHeld'
  BY <1>1, ConstantsAssumption DEF CreateInvite, Withdraw, Release, RoleInv, LockHeld
<1>3. SomebodyElse' /\ BeforeFirst'
  BY <1>1 DEF RoleInv, SomebodyElse, NeverWithoutAdministrator, BeforeFirst, roles
<1>4. CASE /\ dismissed' \subseteq dismissed
           /\ \A i \in Invites : invite'[i].status = "PENDING" => invite'[i] = invite[i]
  <2>1. StayOut'
    BY <1>1, <1>4 DEF RoleInv, StayOut, DismissedStayOut, User, roles
  <2>2. Wanted'
    BY <1>1, <1>4 DEF RoleInv, Wanted, Expected, OneEach, OneRead, Sought, Considered
  <2> QED BY <1>2, <1>3, <2>1, <2>2 DEF RoleInv
<1>5. CASE Withdraw(r)
  BY <1>4, <1>5 DEF Withdraw, past, TypeInv, TypeOK, Invite
<1>6. ASSUME CreateInvite(r), Pending(request[r].on) = {},
             dismissed' = dismissed \ {AccountOf[request[r].on]},
             NEW i \in Invites, invite[i].status = "NONE",
             invite' = [invite EXCEPT ![i] =
               [email |-> request[r].on, status |-> "PENDING", late |-> FALSE]]
      PROVE  RoleInv'
  <2>1. /\ invite'[i].email = request[r].on
        /\ \A j \in Invites : j # i => invite'[j] = invite[j]
        /\ \A j \in Invites : invite[j].status = "PENDING" => invite[j].email # request[r].on
        /\ request[r].on \in Emails /\ Considered(request[r].on)
    BY <1>6 DEF CreateInvite, Pending, TypeInv, TypeOK, WellFormed, GoodAction, RoleInv,
       Wanted, Expected, OneEach, OneRead, Sought
  <2>2. \A s \in SignIns : signIn[s].pc # "write"
    BY <1>6, ConstantsAssumption DEF CreateInvite, RoleInv, LockHeld
  <2>3. StayOut'
    BY <1>1, <1>6, <2>1, <2>2 DEF RoleInv, StayOut, DismissedStayOut, roles
  <2>4. \A e : Considered(e) => Considered(e)'
    BY <1>1 DEF Considered
  <2>5. Wanted'
    <3>1. Expected'
      <4> SUFFICES ASSUME NEW k \in Invites, invite'[k].status = "PENDING"
                   PROVE  invite'[k].email \in Emails /\ Considered(invite[k].email)'
        BY DEF Expected
      <4>1. CASE k = i
        BY <1>1, <2>1, <4>1 DEF Considered
      <4>2. CASE k # i
        BY <1>1, <2>1, <4>2 DEF RoleInv, Wanted, Expected, Considered
      <4> QED BY <4>1, <4>2
    <3>2. OneEach'
      <4> SUFFICES ASSUME NEW j \in Invites, NEW k \in Invites,
                          invite'[j].status = "PENDING", invite'[k].status = "PENDING",
                          invite'[j].email = invite'[k].email
                   PROVE  j = k
        BY DEF OneEach
      <4>1. CASE j # i /\ k # i
        BY <2>1, <4>1 DEF RoleInv, Wanted, OneEach
      <4>2. CASE j = i \/ k = i
        BY <2>1, <4>2
      <4> QED BY <4>1, <4>2
    <3>3. OneRead'
      BY <1>1, <2>2 DEF OneRead
    <3>4. Sought'
      BY <1>1, <2>4 DEF RoleInv, Wanted, Sought
    <3> QED BY <3>1, <3>2, <3>3, <3>4 DEF Wanted
  <2> QED BY <1>2, <1>3, <2>3, <2>5 DEF RoleInv
<1> QED BY <1>4, <1>5, <1>6 DEF CreateInvite

LEMMA RoleInvStep == TypeInv /\ RoleInv /\ [Next]_vars => RoleInv'
<1> SUFFICES ASSUME TypeInv, RoleInv, [Next]_vars PROVE RoleInv'
  OBVIOUS
<1>1. CASE UNCHANGED vars
  BY <1>1 DEF vars, roles, past, RoleInv, LockHeld, SomebodyElse, BeforeFirst, StayOut,
     Wanted, Expected, OneEach, OneRead, Sought,
     Considered, NeverWithoutAdministrator, DismissedStayOut, User
<1>2. CASE Outside
  BY <1>2, OutsideKeeps
<1>3. ASSUME NEW s \in SignIns, SignInSteps(s) PROVE RoleInv'
  BY <1>3, VerifyKeeps, ReadInviteKeeps, AcceptInviteKeeps, EvaluateKeeps DEF SignInSteps
<1>4. ASSUME NEW r \in Requests, RequestSteps(r) PROVE RoleInv'
  BY <1>4, LookKeeps, RoleStepKeeps, InviteStepKeeps, PlanStepKeeps DEF RequestSteps
<1> QED BY <1>1, <1>2, <1>3, <1>4 DEF Next, Outside

LEMMA Invariants == Spec => [](TypeInv /\ RoleInv)
BY TypeInvInit, TypeInvStep, RoleInvInit, RoleInvStep, PTL DEF Spec

(* Once there was an administrator there always is one: two administrators  *)
(* dismissing each other are ordered by the lock, and the count is read     *)
(* under it.                                                                *)
THEOREM AdministratorRemains == Spec => []NeverWithoutAdministrator
<1>1. RoleInv => NeverWithoutAdministrator
  BY DEF RoleInv, SomebodyElse
<1> QED BY Invariants, <1>1, PTL

(* Nobody who was dismissed regains the role by signing in.                *)
THEOREM DismissalStands == Spec => []DismissedStayOut
<1>1. RoleInv => DismissedStayOut
  BY DEF RoleInv, StayOut
<1> QED BY Invariants, <1>1, PTL

(* No invitation waits for an address whose verification was considered.   *)
THEOREM InvitationsArrive == Spec => []InvitationReachesHolder
<1>1. RoleInv => InvitationReachesHolder
  BY DEF RoleInv, Wanted, Expected, Considered, InvitationReachesHolder
<1> QED BY Invariants, <1>1, PTL
-----------------------------------------------------------------------------
(* The lock manual-subscription is held while a plan is replaced or ended. *)
PlanLockHeld ==
  \A r \in Requests : request[r].pc \in {"replace", "cancel"} => planLock[request[r].on] = r

Manual(p) == plan[p].source = "MANUAL_ADMIN" /\ plan[p].live

(* What the partial unique index promises.                                 *)
OneManual ==
  \A p, q \in Plans : Manual(p) /\ Manual(q) /\ plan[p].user = plan[q].user => p = q

(* The row about to be cancelled is the only one that can be in force.     *)
OnlyRow ==
  \A r \in Requests, p \in Plans :
    /\ request[r].pc = "cancel" /\ Manual(p) /\ plan[p].current
    /\ plan[p].user = request[r].on
    => p = request[r].row

PlanInv == PlanLockHeld /\ OneManual /\ OnlyRow

LEMMA PlanInvInit == Init => PlanInv
BY DEF Init, PlanInv, PlanLockHeld, OneManual, OnlyRow, Manual, NoPlan, AtRest

(* Plans that only end, and requests that let go or hold what they held.   *)
LEMMA PlansOnlyEnd ==
  ASSUME PlanInv,
         \A p \in Plans : Manual(p)' =>
           /\ Manual(p) /\ plan'[p].user = plan[p].user
           /\ plan'[p].current => plan[p].current,
         \A q \in Requests : request'[q].pc \in {"replace", "cancel"} =>
           request'[q] = request[q] /\ planLock'[request[q].on] = planLock[request[q].on]
  PROVE  PlanInv'
<1>1. PlanLockHeld'
  BY DEF PlanInv, PlanLockHeld
<1>2. OneManual'
  BY DEF PlanInv, OneManual
<1>3. OnlyRow'
  BY DEF PlanInv, OnlyRow
<1> QED BY <1>1, <1>2, <1>3 DEF PlanInv

(* Whoever lets go of a lock leaves the others'.                           *)
LEMMA ReleasePlanKeeps ==
  ASSUME TypeInv, PlanInv, NEW r \in Requests, ReleasePlan(r)
  PROVE  \A q \in Requests \ {r} : request[q].pc \in {"replace", "cancel"} =>
           planLock'[request[q].on] = planLock[request[q].on]
BY DEF ReleasePlan, PlanInv, PlanLockHeld, TypeInv, TypeOK, WellFormed, GoodAction

(* Whoever takes one does so when nobody holds it.                         *)
LEMMA HoldPlanKeeps ==
  ASSUME TypeInv, PlanInv, NEW r \in Requests, HoldPlan(r), PlanFree(request[r].on),
         request[r].on \in Users
  PROVE  /\ planLock'[request[r].on] = r
         /\ \A q \in Requests \ {r} : request[q].pc \in {"replace", "cancel"} =>
              planLock'[request[q].on] = planLock[request[q].on]
BY ConstantsAssumption
DEF HoldPlan, PlanFree, PlanInv, PlanLockHeld, TypeInv, TypeOK, WellFormed, GoodAction

LEMMA ReplaceKeeps ==
  ASSUME TypeInv, PlanInv, NEW r \in Requests, ReplacePlan(r)
  PROVE  PlanInv'
<1> DEFINE u == request[r].on
<1>1. /\ request'[r].pc \in {"assigned", "failed"}
      /\ \A q \in Requests \ {r} : request'[q] = request[q]
  BY RestsFacts DEF ReplacePlan
<1>2. /\ \A q \in Requests \ {r} : request[q].pc \in {"replace", "cancel"} =>
           request[q].on # u /\ planLock'[request[q].on] = planLock[request[q].on]
  BY ReleasePlanKeeps DEF ReplacePlan, PlanInv, PlanLockHeld
<1>3. CASE UNCHANGED plan
  BY <1>1, <1>2, <1>3, PlansOnlyEnd DEF Manual
<1>4. ASSUME NEW p \in Plans, plan[p].source = "NONE",
             plan' = [q \in Plans |->
               IF q = p THEN NewPlan(u, "MANUAL_ADMIN")
               ELSE IF q \in Closed(u) THEN [plan[q] EXCEPT !.live = FALSE] ELSE plan[q]]
      PROVE  PlanInv'
  <2> HIDE DEF u
  <2>1. plan'[p].user = u
    BY <1>4 DEF NewPlan
  <2>2. ASSUME NEW q \in Plans, q # p, Manual(q)'
        PROVE  plan'[q] = plan[q] /\ Manual(q) /\ plan[q].user # u
    <3>1. CASE q \in Closed(u)
      <4>1. plan'[q] = [plan[q] EXCEPT !.live = FALSE] /\ plan[q] \in Plan
        BY <1>4, <2>2, <3>1 DEF TypeInv, TypeOK
      <4> QED BY <2>2, <4>1 DEF Manual, Plan
    <3>2. CASE q \notin Closed(u)
      BY <1>4, <2>2, <3>2 DEF Manual, Closed, Of
    <3> QED BY <3>1, <3>2
  <2>3. PlanLockHeld'
    BY <1>1, <1>2 DEF PlanInv, PlanLockHeld
  <2>4. OneManual'
    BY <2>1, <2>2 DEF PlanInv, OneManual
  <2>5. OnlyRow'
    BY <1>1, <1>2, <2>1, <2>2 DEF PlanInv, OnlyRow
  <2> QED BY <2>3, <2>4, <2>5 DEF PlanInv
<1> QED BY <1>3, <1>4 DEF ReplacePlan

LEMMA FindPlanKeeps ==
  ASSUME TypeInv, PlanInv, NEW r \in Requests, FindPlan(r)
  PROVE  PlanInv'
<1>1. request[r].on \in Users /\ PlanFree(request[r].on) /\ UNCHANGED plan
  BY DEF FindPlan, TypeInv, WellFormed, GoodAction
<1>2. CASE Rests(r, "idle") /\ UNCHANGED planLock
  BY <1>1, <1>2, RestsFacts, PlansOnlyEnd DEF Manual
<1>3. ASSUME NEW p \in InForce(request[r].on, "MANUAL_ADMIN"), HoldPlan(r),
             request' = [request EXCEPT ![r] = [@ EXCEPT !.pc = "cancel", !.row = p]]
      PROVE  PlanInv'
  <2>1. /\ request'[r].on = request[r].on /\ request'[r].row = p
        /\ \A q \in Requests \ {r} : request'[q] = request[q]
    BY <1>3 DEF TypeInv, TypeOK, Action
  <2>2. p \in Plans /\ Manual(p) /\ plan[p].user = request[r].on
    BY DEF InForce, Of, Manual
  <2>3. PlanLockHeld'
    BY <1>1, <1>3, <2>1, HoldPlanKeeps DEF PlanInv, PlanLockHeld
  <2>4. OneManual'
    BY <1>1 DEF PlanInv, OneManual, Manual
  <2>5. OnlyRow'
    BY <1>1, <2>1, <2>2 DEF PlanInv, OneManual, OnlyRow, Manual
  <2> QED BY <2>3, <2>4, <2>5 DEF PlanInv
<1> QED BY <1>2, <1>3 DEF FindPlan

LEMMA PlanInvStep == TypeInv /\ PlanInv /\ [Next]_vars => PlanInv'
<1> SUFFICES ASSUME TypeInv, PlanInv, [Next]_vars PROVE PlanInv'
  OBVIOUS
<1>1. CASE UNCHANGED <<plan, request, planLock>>
  BY <1>1, PlansOnlyEnd DEF Manual
<1>2. ASSUME NEW r \in Requests, UNCHANGED <<plan, planLock>>,
             request'[r].pc \notin {"replace", "cancel"},
             \A q \in Requests \ {r} : request'[q] = request[q]
      PROVE  PlanInv'
  BY <1>2, PlansOnlyEnd DEF Manual
<1>3. ASSUME NEW r \in Requests, RequestSteps(r) PROVE PlanInv'
  <2>1. CASE Ask(r)
    <3>1. PICK kind \in Kinds, on \in Users \cup Emails \cup Invites : Authorize(r, kind, on)
      BY <2>1, ConstantsAssumption DEF Ask, Kinds, TypeInv, TypeOK
    <3>2. request'[r].pc = kind /\ \A q \in Requests \ {r} : request'[q] = request[q]
      BY <3>1 DEF Authorize, TypeInv, TypeOK, Action
    <3> QED BY <1>2, <3>1, <3>2 DEF Authorize, Kinds
  <2>2. CASE FindIdentity(r) \/ CountAdministrators(r)
    BY <1>2, <2>2, RestsFacts, GoFacts DEF FindIdentity, CountAdministrators
  <2>3. CASE CreateRole(r) \/ CreateInvite(r) \/ DeleteRole(r) \/ Withdraw(r)
    BY <1>2, <2>3, RestsFacts DEF CreateRole, CreateInvite, DeleteRole, Withdraw
  <2>4. CASE FindProvider(r)
    <3>1. CASE Rests(r, "idle") /\ UNCHANGED planLock
      BY <1>2, <2>4, <3>1, RestsFacts DEF FindProvider
    <3>2. CASE Go(r, "replace") /\ HoldPlan(r)
      <4>1. request[r].on \in Users /\ PlanFree(request[r].on) /\ UNCHANGED plan
        BY <2>4 DEF FindProvider, TypeInv, WellFormed, GoodAction
      <4>2. /\ request'[r].pc = "replace" /\ request'[r].on = request[r].on
            /\ \A q \in Requests \ {r} : request'[q] = request[q]
        BY <3>2, GoFacts
      <4>3. PlanLockHeld'
        BY <3>2, <4>1, <4>2, HoldPlanKeeps DEF PlanInv, PlanLockHeld
      <4>4. OneManual' /\ OnlyRow'
        BY <4>1, <4>2 DEF PlanInv, OneManual, OnlyRow, Manual
      <4> QED BY <4>3, <4>4 DEF PlanInv
    <3> QED BY <2>4, <3>1, <3>2 DEF FindProvider
  <2>5. CASE CancelPlan(r)
    <3>1. request'[r].pc = "ended" /\ \A q \in Requests \ {r} : request'[q] = request[q]
      BY <2>5, RestsFacts DEF CancelPlan
    <3>2. ASSUME NEW p \in Plans, Manual(p)' PROVE plan'[p] = plan[p]
      BY <2>5, <3>2 DEF CancelPlan, Manual, TypeInv, TypeOK, Plan
    <3> QED BY <2>5, <3>1, <3>2, ReleasePlanKeeps, PlansOnlyEnd DEF CancelPlan, Manual
  <2>6. CASE RequestLost(r)
    <3>1. request'[r].pc = "idle" /\ \A q \in Requests \ {r} : request'[q] = request[q]
      BY <2>6, RestsFacts DEF RequestLost
    <3> QED BY <2>6, <3>1, ReleasePlanKeeps, PlansOnlyEnd DEF RequestLost, Manual
  <2> QED BY <1>3, <2>1, <2>2, <2>3, <2>4, <2>5, <2>6, ReplaceKeeps, FindPlanKeeps
      DEF RequestSteps
<1>4. ASSUME NEW p \in Plans, PeriodEnds(p) PROVE PlanInv'
  <2>1. \A q \in Plans : /\ plan'[q].user = plan[q].user /\ plan'[q].source = plan[q].source
                         /\ plan'[q].live = plan[q].live
                         /\ plan'[q].current => plan[q].current
    BY <1>4 DEF PeriodEnds, TypeInv, TypeOK, Plan
  <2> QED BY <1>4, <2>1, PlansOnlyEnd DEF PeriodEnds, Manual
<1>5. ASSUME NEW u \in Subscribers, ProviderSubscribes(u) PROVE PlanInv'
  <2>1. \A q \in Plans : Manual(q)' => plan'[q] = plan[q]
    BY <1>5 DEF ProviderSubscribes, NewPlan, Manual, TypeInv, TypeOK
  <2> QED BY <1>5, <2>1, PlansOnlyEnd DEF ProviderSubscribes, Manual
<1>6. (\E s \in SignIns : SignInSteps(s)) \/ (\E email \in Emails : VerifyByPhone(email))
      \/ (\E i \in Invites : InviteExpires(i)) \/ UNCHANGED vars
      => UNCHANGED <<plan, request, planLock>>
  BY DEF SignInSteps, Verify, ReadInvite, AcceptInvite, Bootstrap, EvaluateFails,
     VerifyByPhone, InviteExpires, vars
<1> QED BY <1>1, <1>3, <1>4, <1>5, <1>6 DEF Next

(* The step that ends a plan cancels the only row in force.                *)
LEMMA EndedStep ==
  ASSUME TypeInv, PlanInv, [Next]_vars, NEW r \in Requests, NEW u \in Users,
         request[r].pc = "cancel", request'[r].pc = "ended", request[r].on = u
  PROVE  InForce(u, "MANUAL_ADMIN")' = {}
<1>1. CancelPlan(r)
  <2>1. ASSUME NEW q \in Requests, q # r, RequestSteps(q) PROVE request'[r] = request[r]
    BY <2>1
    DEF RequestSteps, Ask, Authorize, FindIdentity, CreateRole, CreateInvite,
        CountAdministrators, DeleteRole, Withdraw, FindProvider, ReplacePlan, FindPlan,
        CancelPlan, RequestLost, Rests, Go, TypeInv, TypeOK
  <2>2. ASSUME RequestSteps(r) PROVE CancelPlan(r)
    <3>1. RequestLost(r) => request'[r].pc = "idle"
      BY RestsFacts DEF RequestLost
    <3> QED BY <2>2, <3>1
        DEF RequestSteps, Ask, Authorize, Rest, FindIdentity, CreateRole, CreateInvite,
            CountAdministrators, DeleteRole, Withdraw, FindProvider, ReplacePlan, FindPlan
  <2>3. request' # request
    OBVIOUS
  <2> QED BY <2>1, <2>2, <2>3
      DEF Next, vars, SignInSteps, Verify, ReadInvite, AcceptInvite, Bootstrap,
      EvaluateFails,
          VerifyByPhone, InviteExpires, PeriodEnds, ProviderSubscribes
<1>2. SUFFICES ASSUME NEW p \in Plans, p \in InForce(u, "MANUAL_ADMIN")' PROVE FALSE
  BY DEF InForce, Of
<1>3. Manual(p)' /\ plan'[p].user = u /\ plan'[p].current
  BY <1>2 DEF InForce, Of, Manual
<1>4. p # request[r].row /\ plan'[p] = plan[p]
  BY <1>1, <1>3 DEF CancelPlan, Manual, TypeInv, TypeOK, Plan
<1> QED BY <1>3, <1>4 DEF PlanInv, OnlyRow, Manual

(* A plan reported as ended has ended, and no other is in force by hand.   *)
THEOREM EndedPlansEnd == Spec => EndedHasNoPlan
<1>1. TypeInv /\ PlanInv /\ [Next]_vars =>
        [\A r \in Requests, u \in Users :
           request[r].pc = "cancel" /\ request'[r].pc = "ended" /\ request[r].on = u
             => InForce(u, "MANUAL_ADMIN")' = {}]_vars
  BY EndedStep
<1> QED BY TypeInvInit, TypeInvStep, PlanInvInit, PlanInvStep, <1>1, PTL DEF Spec,
   EndedHasNoPlan
=============================================================================
