----------------------------- MODULE SignInProofs -----------------------------
(***************************************************************************)
(* Proofs about SignIn for any number of requests, challenges, tokens,      *)
(* authorizations and accounts: that submissions are capped, that a proof   *)
(* opens one session and of the account that holds its identities, that an  *)
(* account's contacts are proved, and that the locks cause no deadlock.     *)
(***************************************************************************)
EXTENDS SignIn, TLAPS

RequestState == [pc: Steps, challenge: Challenges \cup {None}, proof: Proofs \cup {None},
                 user: Users \cup {None}, want: Seq(Locks), read: Readings]

Types ==
  /\ challenge \in [Challenges -> Challenge]
  /\ authorization \in [Authorizations -> Authorization]
  /\ account \in [Users -> Account]
  /\ phoneUser \in [Numbers -> Users \cup {None}]
  /\ googleUser \in [Subjects -> Users \cup {None}]
  /\ session \in [Sessions -> Session \cup {None}]
  /\ request \in [Requests -> RequestState]
  /\ lock \in [Locks -> Requests \cup {None}]
-----------------------------------------------------------------------------
(* The rows.                                                               *)

ChallengeFits(c) ==
  /\ IF challenge[c].status = "none" THEN challenge[c].token = None
                                     ELSE challenge[c].number \in Numbers
  /\ challenge[c].token # None => NumberOf[challenge[c].token] = challenge[c].number
  /\ \A d \in Challenges \ {c} :
       challenge[c].token # None => challenge[d].token # challenge[c].token

AuthorizationFits(a) ==
  /\ authorization[a].status # "none" =>
       /\ authorization[a].intent = "link" => authorization[a].user \in Users
       /\ authorization[a].intent = "continue" =>
            /\ authorization[a].challenge \in Challenges
            /\ challenge[authorization[a].challenge].status # "none"
  /\ authorization[a].status = "used" => authorization[a].subject \in Subjects

RowInv ==
  /\ \A c \in Challenges : ChallengeFits(c)
  /\ \A a \in Authorizations : AuthorizationFits(a)
  /\ SubmissionsWithinCap
  /\ ContactsAreProven
-----------------------------------------------------------------------------
(* The requests.  The functions of a request's record are stated of any     *)
(* record q, so that they can be shown of the record a step leaves.         *)

OfPhone  == {"claim", "ask", "record", "complete", "link", "create"}
OfGoogle == {"google", "linkGoogle", "continue", "issue"}

(* The rows a request under way is about.                                  *)
Fit(q) ==
  /\ q.pc \in OfPhone \cup {"continue"} =>
       q.challenge \in Challenges /\ challenge[q.challenge].status # "none"
  /\ q.pc \in OfPhone => q.proof \in Tokens
  /\ q.pc \in {"record", "complete", "link", "create"} =>
       NumberOf[q.proof] = challenge[q.challenge].number
  /\ q.pc \in {"complete", "link", "create"} => challenge[q.challenge].token = q.proof
  /\ q.pc \in OfGoogle => q.proof \in Authorizations /\ authorization[q.proof].status = "used"
  /\ q.pc \in {"link", "linkGoogle", "issue"} => q.user \in Users
  /\ q.pc = "issue" => googleUser[authorization[q.proof].subject] = q.user

(* What a transaction has read still holds when it writes: only the holder  *)
(* of a challenge's lock counts its attempts or uses it up, and identities  *)
(* never change hands.                                                     *)
Verdict(q) ==
  /\ q.pc = "claim" /\ q.read = "fine" => challenge[q.challenge].attempts < MaxAttempts
  /\ q.pc \in {"complete", "create", "continue"} /\ q.read \in {"known", "owned", "new"} =>
       challenge[q.challenge].status = "sent" /\ challenge[q.challenge].token # None
  /\ q.pc = "complete" /\ q.read = "known" => phoneUser[challenge[q.challenge].number] # None
  /\ q.pc \in {"google", "continue"} /\ q.read = "known" =>
       googleUser[authorization[q.proof].subject] # None

(* The order of the locks' kinds in every list of LocksOf.                 *)
Rank(l) == CASE l[1] = "verify" -> 0 [] l[1] = "complete" -> 1 [] l[1] = "google" -> 2
             [] l[1] = "email" -> 3 [] OTHER -> 4

Ordered(want) == \A i, j \in 1..Len(want) : i < j => Rank(want[i]) < Rank(want[j])

(* The lock that guards a challenge is the first its transactions take.    *)
Guarded  == {"claim", "complete", "create", "continue"}
Guard(q) == <<IF q.pc = "claim" THEN "verify" ELSE "complete", q.challenge>>

Locking(r) ==
  LET q == request[r] IN
  /\ Ordered(q.want)
  /\ q.want # <<>> => \A l \in Locks : lock[l] = r => Rank(l) < Rank(Head(q.want))
  /\ q.read # "unread" => q.want = <<>>
  /\ q.pc \notin Transactions => /\ q.want = <<>> /\ q.read = "unread"
                                 /\ \A l \in Locks : lock[l] # r
  /\ q.pc \in Guarded =>
       lock[Guard(q)] = r \/ (q.want # <<>> /\ Head(q.want) = Guard(q))

(* An authorization is used once, so one request at most acts on it, and no *)
(* session came of it before.                                              *)
UsesAuthorization(r) == request[r].pc # "rest" /\ request[r].proof \in Authorizations

RequestInv ==
  /\ \A r \in Requests : Fit(request[r]) /\ Verdict(request[r]) /\ Locking(r)
  /\ \A r, q \in Requests : r # q /\ UsesAuthorization(r) => request[q].proof # request[r].proof
                                                             \/ request[q].pc = "rest"
-----------------------------------------------------------------------------
(* The sessions.                                                           *)

Opened(s, p) == session[s] # None /\ p \in session[s].proofs

SpentProof(p) ==
  /\ p \in Tokens => \E c \in Challenges : challenge[c].token = p /\ challenge[c].status = "consumed"
  /\ p \in Authorizations => authorization[p].status = "used"

SessionInv ==
  /\ \A s \in Sessions, p \in Proofs : Opened(s, p) => SpentProof(p)
  /\ \A r \in Requests : UsesAuthorization(r) =>
       \A s \in Sessions : ~Opened(s, request[r].proof)
  /\ OneSessionPerProof
  /\ SessionIsHolders

SignInInv == Types /\ RowInv /\ RequestInv /\ SessionInv
-----------------------------------------------------------------------------
(* Constants, types and the lists of locks.                                *)

LEMMA Apart ==
  /\ None \notin Users /\ None \notin Numbers /\ None \notin Challenges /\ None \notin Tokens
  /\ None \notin Authorizations /\ None \notin Subjects /\ None \notin Requests
  /\ Tokens \cap Authorizations = {} /\ Proofs = Tokens \cup Authorizations
  /\ NumberOf \in [Tokens -> Numbers] /\ MaxAttempts \in Nat \ {0}
BY ConstantsAssumption DEF Proofs

LEMMA LockKinds ==
  /\ \A c \in Challenges : /\ <<"verify", c>> \in Locks /\ Rank(<<"verify", c>>) = 0
                           /\ <<"complete", c>> \in Locks /\ Rank(<<"complete", c>>) = 1
  /\ \A g \in Subjects : /\ <<"google", g>> \in Locks /\ Rank(<<"google", g>>) = 2
                         /\ <<"email", EmailOf[g]>> \in Locks /\ Rank(<<"email", EmailOf[g]>>) = 3
  /\ \A n \in Numbers : <<"phone", n>> \in Locks /\ Rank(<<"phone", n>>) = 4
  /\ \A ip \in Addresses : <<"address", ip>> \in Locks /\ Rank(<<"address", ip>>) = 4
BY DEF Locks, Emails, Rank

LEMMA LocksRanked == \A l \in Locks : Rank(l) \in 0..4
BY DEF Rank

(* Lists of one, two and four locks.                                       *)
LEMMA OneLock ==
  ASSUME NEW l \in Locks
  PROVE  <<l>> \in Seq(Locks) /\ Ordered(<<l>>) /\ <<l>> # <<>> /\ Head(<<l>>) = l
BY DEF Ordered

LEMMA TwoLocks ==
  ASSUME NEW l \in Locks, NEW m \in Locks, Rank(l) < Rank(m)
  PROVE  <<l, m>> \in Seq(Locks) /\ Ordered(<<l, m>>) /\ <<l, m>> # <<>> /\ Head(<<l, m>>) = l
BY DEF Ordered

LEMMA FourLocks ==
  ASSUME NEW k \in Locks, NEW l \in Locks, NEW m \in Locks, NEW n \in Locks,
         Rank(k) = 1, Rank(l) = 2, Rank(m) = 3, Rank(n) = 4
  PROVE  /\ <<k, l, m, n>> \in Seq(Locks) /\ Ordered(<<k, l, m, n>>)
         /\ <<k, l, m, n>> # <<>> /\ Head(<<k, l, m, n>>) = k
<1> DEFINE w == <<k, l, m, n>>
<1>1. w \in Seq(Locks) /\ w # <<>> /\ Head(w) = k /\ Len(w) = 4
  OBVIOUS
<1>2. w[1] = k /\ w[2] = l /\ w[3] = m /\ w[4] = n
  OBVIOUS
<1> HIDE DEF w
<1>3. \A i \in 1..Len(w) : Rank(w[i]) = i
  <2>1. \A i \in 1..4 : i = 1 \/ i = 2 \/ i = 3 \/ i = 4
    OBVIOUS
  <2> QED BY <1>1, <1>2, <2>1
<1>4. Ordered(w)
  BY <1>3 DEF Ordered
<1> QED BY <1>1, <1>4 DEF w

LEMMA LockLists ==
  ASSUME NEW pc \in Transactions, NEW c, NEW g, NEW ip,
         pc = "claim" => ip \in Addresses,
         pc \in {"google", "linkGoogle", "continue"} => g \in Subjects,
         pc \notin {"google", "linkGoogle"} => c \in Challenges /\ challenge[c].number \in Numbers
  PROVE  /\ LocksOf(pc, c, g, ip) \in Seq(Locks) /\ Ordered(LocksOf(pc, c, g, ip))
         /\ pc \in Guarded =>
              /\ LocksOf(pc, c, g, ip) # <<>>
              /\ Head(LocksOf(pc, c, g, ip)) = <<IF pc = "claim" THEN "verify" ELSE "complete", c>>
<1>1. CASE pc = "claim"
  <2>1. LocksOf(pc, c, g, ip) = << <<"verify", c>>, <<"address", ip>> >>
    BY <1>1 DEF LocksOf
  <2>2. c \in Challenges /\ ip \in Addresses
    BY <1>1
  <2>3. /\ <<"verify", c>> \in Locks /\ <<"address", ip>> \in Locks
        /\ Rank(<<"verify", c>>) = 0 /\ Rank(<<"address", ip>>) = 4
    BY <2>2, LockKinds
  <2>4. Rank(<<"verify", c>>) < Rank(<<"address", ip>>)
    BY <2>3
  <2>5. /\ LocksOf(pc, c, g, ip) \in Seq(Locks) /\ Ordered(LocksOf(pc, c, g, ip))
        /\ LocksOf(pc, c, g, ip) # <<>> /\ Head(LocksOf(pc, c, g, ip)) = <<"verify", c>>
    BY <2>1, <2>4, <2>3, TwoLocks
  <2> QED BY <1>1, <2>5
<1>2. CASE pc = "link"
  <2>1. LocksOf(pc, c, g, ip) = << <<"phone", challenge[c].number>> >>
    BY <1>2 DEF LocksOf
  <2> QED BY <1>2, <2>1, LockKinds, OneLock DEF Guarded
<1>3. CASE pc \in {"google", "linkGoogle"}
  <2>1. LocksOf(pc, c, g, ip) = << <<"google", g>>, <<"email", EmailOf[g]>> >>
    BY <1>3 DEF LocksOf
  <2>2. /\ <<"google", g>> \in Locks /\ <<"email", EmailOf[g]>> \in Locks
        /\ Rank(<<"google", g>>) < Rank(<<"email", EmailOf[g]>>)
    BY <1>3, LockKinds
  <2>3. LocksOf(pc, c, g, ip) \in Seq(Locks) /\ Ordered(LocksOf(pc, c, g, ip))
    BY <2>1, <2>2, TwoLocks
  <2> QED BY <1>3, <2>3 DEF Guarded
<1>4. CASE pc \in {"complete", "create"}
  <2>1. LocksOf(pc, c, g, ip) = << <<"complete", c>>, <<"phone", challenge[c].number>> >>
    BY <1>4 DEF LocksOf
  <2>4. c \in Challenges /\ challenge[c].number \in Numbers
    BY <1>4
  <2>2. /\ <<"complete", c>> \in Locks /\ <<"phone", challenge[c].number>> \in Locks
        /\ Rank(<<"complete", c>>) = 1 /\ Rank(<<"phone", challenge[c].number>>) = 4
    BY <2>4, LockKinds
  <2>3. /\ LocksOf(pc, c, g, ip) \in Seq(Locks) /\ Ordered(LocksOf(pc, c, g, ip))
        /\ LocksOf(pc, c, g, ip) # <<>> /\ Head(LocksOf(pc, c, g, ip)) = <<"complete", c>>
    <3>1. Rank(<<"complete", c>>) < Rank(<<"phone", challenge[c].number>>)
      BY <2>2
    <3> QED BY <2>1, <2>2, <3>1, TwoLocks
  <2> QED BY <1>4, <2>3
<1>5. CASE pc = "continue"
  <2>1. LocksOf(pc, c, g, ip) = << <<"complete", c>>, <<"google", g>>, <<"email", EmailOf[g]>>,
                               <<"phone", challenge[c].number>> >>
    BY <1>5 DEF LocksOf
  <2>4. c \in Challenges /\ g \in Subjects /\ challenge[c].number \in Numbers
    BY <1>5
  <2>2. /\ <<"complete", c>> \in Locks /\ <<"google", g>> \in Locks
        /\ <<"email", EmailOf[g]>> \in Locks /\ <<"phone", challenge[c].number>> \in Locks
        /\ Rank(<<"complete", c>>) = 1 /\ Rank(<<"google", g>>) = 2
        /\ Rank(<<"email", EmailOf[g]>>) = 3 /\ Rank(<<"phone", challenge[c].number>>) = 4
    BY <2>4, LockKinds
  <2>3. /\ LocksOf(pc, c, g, ip) \in Seq(Locks) /\ Ordered(LocksOf(pc, c, g, ip))
        /\ LocksOf(pc, c, g, ip) # <<>> /\ Head(LocksOf(pc, c, g, ip)) = <<"complete", c>>
    BY <2>1, <2>2, FourLocks
  <2> QED BY <1>5, <2>3
<1> QED BY <1>1, <1>2, <1>3, <1>4, <1>5 DEF Transactions

LEMMA OrderedTail ==
  ASSUME NEW w \in Seq(Locks), Ordered(w), w # <<>>
  PROVE  /\ Tail(w) \in Seq(Locks) /\ Ordered(Tail(w)) /\ Head(w) \in Locks
         /\ Tail(w) # <<>> => Rank(Head(w)) < Rank(Head(Tail(w)))
<1>1. /\ Tail(w) \in Seq(Locks) /\ Head(w) \in Locks /\ Head(w) = w[1]
      /\ Len(w) \in Nat /\ Len(w) > 0 /\ Len(Tail(w)) = Len(w) - 1
      /\ \A i \in 1..Len(Tail(w)) : Tail(w)[i] = w[i + 1]
  OBVIOUS
<1>2. Ordered(Tail(w))
  BY <1>1 DEF Ordered
<1>3. Tail(w) # <<>> => Len(Tail(w)) > 0 /\ Head(Tail(w)) = Tail(w)[1]
  BY <1>1
<1>4. Tail(w) # <<>> => Rank(Head(w)) < Rank(Head(Tail(w)))
  BY <1>1, <1>3 DEF Ordered
<1> QED BY <1>1, <1>2, <1>4
-----------------------------------------------------------------------------
(* A request's step: it reads, takes a lock, begins a transaction (or goes  *)
(* on outside of one) or ends one.                                         *)

Continues(p, q) == /\ q.pc = p.pc /\ q.challenge = p.challenge
                   /\ q.proof = p.proof /\ q.user = p.user

ReadsRows(r, q) ==
  /\ Continues(request[r], q) /\ request[r].pc \in Transactions
  /\ request[r].want = <<>> /\ q.want = <<>> /\ UNCHANGED lock

TakesLock(r, q) ==
  /\ Continues(request[r], q) /\ q.read = request[r].read
  /\ request[r].want # <<>> /\ lock[Head(request[r].want)] = None
  /\ q.want = Tail(request[r].want) /\ lock' = [lock EXCEPT ![Head(request[r].want)] = r]

Begins(r, q) ==
  /\ request[r].pc \notin Transactions /\ UNCHANGED lock
  /\ q.read = "unread" /\ Ordered(q.want)
  /\ q.pc \notin Transactions => q.want = <<>>
  /\ q.pc \in Guarded => q.want # <<>> /\ Head(q.want) = Guard(q)

Ends(r, q) == q.pc \notin Transactions /\ q.want = <<>> /\ q.read = "unread" /\ ReleaseAll(r)

Turn(r, q) ==
  /\ q \in RequestState /\ request' = [request EXCEPT ![r] = q]
  /\ ReadsRows(r, q) \/ TakesLock(r, q) \/ Begins(r, q) \/ Ends(r, q)

LEMMA TurnFacts ==
  ASSUME Types, NEW r \in Requests, NEW q, Turn(r, q)
  PROVE  /\ request' \in [Requests -> RequestState] /\ request'[r] = q
         /\ \A s \in Requests \ {r} : request'[s] = request[s]
BY DEF Turn, Types

LEMMA TurnKeepsLocks ==
  ASSUME Types, \A s \in Requests : Locking(s) /\ Fit(request[s]),
         NEW r \in Requests, NEW q, Turn(r, q)
  PROVE  /\ lock' \in [Locks -> Requests \cup {None}]
         /\ \A s \in Requests : Locking(s)'
<1>1. /\ lock \in [Locks -> Requests \cup {None}] /\ r # None
      /\ request[r] \in RequestState /\ request[r].want \in Seq(Locks)
      /\ q \in RequestState /\ Locking(r)
      /\ request'[r] = q /\ \A s \in Requests \ {r} : request'[s] = request[s]
  BY Apart, TurnFacts DEF Types, RequestState, Turn
<1>2. \A s \in Requests : s # None
  BY Apart
<1>3. /\ lock' \in [Locks -> Requests \cup {None}]
      /\ \A l \in Locks, s \in Requests \ {r} : lock'[l] = s <=> lock[l] = s
  <2>1. CASE ReadsRows(r, q) \/ Begins(r, q)
    BY <1>1, <2>1 DEF ReadsRows, Begins
  <2>2. CASE TakesLock(r, q)
    <3>1. Head(request[r].want) \in Locks
      BY <1>1, <2>2 DEF TakesLock
    <3> QED BY <1>1, <1>2, <2>2, <3>1 DEF TakesLock
  <2>3. CASE Ends(r, q)
    BY <1>1, <1>2, <2>3 DEF Ends, ReleaseAll
  <2> QED BY <2>1, <2>2, <2>3 DEF Turn
<1>4. ASSUME NEW s \in Requests \ {r}
      PROVE  Locking(s)'
  <2>1. Locking(s) /\ request'[s] = request[s] /\ request[s] \in RequestState
    BY <1>1 DEF Types
  <2>2. request[s].pc \in Guarded => Guard(request[s]) \in Locks
    BY LockKinds DEF Guarded, Guard, Fit, OfPhone
  <2> QED BY <1>3, <2>1, <2>2 DEF Locking
<1>5. Locking(r)'
  <2>1. CASE ReadsRows(r, q)
    BY <1>1, <2>1 DEF ReadsRows, Continues, Locking, Guard
  <2>2. CASE TakesLock(r, q)
    <3> DEFINE w == request[r].want
    <3>1. /\ w # <<>> /\ q.want = Tail(w) /\ Head(w) \in Locks /\ Ordered(w) /\ Ordered(Tail(w))
          /\ Tail(w) # <<>> => Rank(Head(w)) < Rank(Head(Tail(w)))
      BY <1>1, <2>2, OrderedTail DEF TakesLock, Locking
    <3>2. /\ request[r].pc \in Transactions /\ q.pc = request[r].pc
          /\ q.read = "unread" /\ Guard(q) = Guard(request[r])
      BY <1>1, <2>2, <3>1 DEF TakesLock, Continues, Locking, Guard
    <3>3. lock' = [lock EXCEPT ![Head(w)] = r]
      BY <2>2 DEF TakesLock
    <3>4. /\ \A l \in Locks : lock[l] = r => Rank(l) < Rank(Head(w))
          /\ q.pc \in Guarded => lock[Guard(q)] = r \/ Head(w) = Guard(q)
      BY <1>1, <3>1, <3>2 DEF Locking
    <3>5. q.pc \in Guarded => Guard(q) \in Locks
      BY <3>2, LockKinds DEF Guarded, Guard, Fit, OfPhone
    <3> HIDE DEF w
    <3>6. q.pc \in Guarded => lock'[Guard(q)] = r
      BY <1>1, <3>1, <3>3, <3>4, <3>5
    <3>7. Tail(w) # <<>> => \A l \in Locks : lock'[l] = r => Rank(l) < Rank(Head(Tail(w)))
      <4>1. \A l \in Locks : Rank(l) \in Nat
        BY LocksRanked
      <4>2. Tail(w) # <<>> => Head(Tail(w)) \in Locks
        BY <1>1, <3>1, OrderedTail DEF w
      <4> QED BY <1>1, <3>1, <3>3, <3>4, <4>1, <4>2
    <3> QED BY <1>1, <3>1, <3>2, <3>6, <3>7 DEF Locking
  <2>3. CASE Begins(r, q)
    BY <1>1, <2>3 DEF Begins, Locking
  <2>4. CASE Ends(r, q)
    BY <1>1, <1>2, <2>4 DEF Ends, ReleaseAll, Locking, Ordered, Guarded, Transactions
  <2> QED BY <2>1, <2>2, <2>3, <2>4 DEF Turn
<1> QED BY <1>3, <1>4, <1>5
-----------------------------------------------------------------------------
(* Deadlock: along a cycle the ranks of the locks waited for would rise.   *)
LEMMA LocksInOrder ==
  ASSUME Types, \A r \in Requests : Locking(r)
  PROVE  NoCircularWait
<1> SUFFICES ASSUME NEW W \in SUBSET Requests, W # {},
                    \A r \in W : request[r].want # <<>> /\ lock[Head(request[r].want)] \in W
             PROVE  FALSE
  BY DEF NoCircularWait
<1> DEFINE R(r) == Rank(Head(request[r].want))
<1>1. \A r \in W : Head(request[r].want) \in Locks /\ R(r) \in 0..4
  BY LocksRanked DEF Types, RequestState
<1>2. ASSUME NEW r \in W
      PROVE  \E q \in W : R(r) < R(q)
  <2>1. lock[Head(request[r].want)] \in W /\ Head(request[r].want) \in Locks
    BY <1>1
  <2>2. PICK q \in W : q = lock[Head(request[r].want)]
    BY <2>1
  <2>3. request[q].want # <<>> /\ Locking(q)
    OBVIOUS
  <2> QED BY <2>1, <2>2, <2>3 DEF Locking
<1> HIDE DEF R
<1>3. \A r \in W : R(r) # 4
  BY <1>1, <1>2
<1>4. \A r \in W : R(r) # 3
  BY <1>1, <1>2, <1>3
<1>5. \A r \in W : R(r) # 2
  BY <1>1, <1>2, <1>3, <1>4
<1>6. \A r \in W : R(r) # 1
  BY <1>1, <1>2, <1>3, <1>4, <1>5
<1> QED BY <1>1, <1>2, <1>3, <1>4, <1>5, <1>6
-----------------------------------------------------------------------------
(* What every step leaves of the rows, and what only the holder of a        *)
(* challenge's lock may change.                                            *)
Grows ==
  /\ \A c \in Challenges :
       /\ challenge[c].status # "none" =>
            challenge'[c].status # "none" /\ challenge'[c].number = challenge[c].number
       /\ challenge[c].token # None => challenge'[c].token = challenge[c].token
       /\ challenge[c].status = "consumed" => challenge'[c].status = "consumed"
  /\ \A a \in Authorizations : authorization[a].status = "used" => authorization'[a] = authorization[a]
  /\ \A n \in Numbers : phoneUser[n] # None => phoneUser'[n] = phoneUser[n]
  /\ \A g \in Subjects : googleUser[g] # None => googleUser'[g] = googleUser[g]

Spares(r) ==
  \A c \in Challenges : challenge[c].status # "none" =>
    /\ challenge'[c].attempts = challenge[c].attempts \/ lock[<<"verify", c>>] = r
    /\ challenge'[c].status = challenge[c].status \/ lock[<<"complete", c>>] = r

LEMMA Standing ==
  ASSUME UNCHANGED <<challenge, authorization, phoneUser, googleUser>>, NEW r
  PROVE  Grows /\ Spares(r) /\ \A q : Fit(q)' = Fit(q) /\ Verdict(q)' = Verdict(q)
BY DEF Grows, Spares, Fit, Verdict

(* A request that does not move stays right about its rows.                *)
LEMMA OthersStand ==
  ASSUME SignInInv, NEW r, Grows, Spares(r), NEW s \in Requests, s # r,
         NEW q, request[s] = q
  PROVE  Fit(q)' /\ Verdict(q)'
<1>1. /\ Fit(q) /\ Verdict(q) /\ Locking(s)
      /\ \A a \in Authorizations : AuthorizationFits(a)
      /\ \A c \in Challenges : ChallengeFits(c)
  BY DEF SignInInv, RequestInv, RowInv
<1>2. q.pc \in Guarded /\ q.read # "unread" => lock[Guard(q)] = s
  BY <1>1 DEF Locking
<1>3. Fit(q)'
  <2>1. q.pc \in OfGoogle => authorization[q.proof].subject \in Subjects
    BY <1>1 DEF Fit, AuthorizationFits
  <2>2. q.pc = "issue" => googleUser[authorization[q.proof].subject] # None
    BY <1>1, Apart DEF Fit
  <2>3. q.pc \in {"complete", "link", "create"} => challenge[q.challenge].token # None
    BY <1>1, Apart DEF Fit, OfPhone
  <2> QED BY <1>1, <2>1, <2>2, <2>3 DEF Fit, Grows, OfPhone, OfGoogle
<1>4. Verdict(q)'
  <2>1. q.pc \in OfPhone \cup {"continue"} =>
          q.challenge \in Challenges /\ challenge[q.challenge].status # "none"
          /\ challenge[q.challenge].number \in Numbers
    BY <1>1 DEF Fit, ChallengeFits
  <2>2. q.pc \in OfGoogle =>
          q.proof \in Authorizations /\ authorization[q.proof].subject \in Subjects
          /\ authorization[q.proof].status = "used"
    BY <1>1 DEF Fit, AuthorizationFits
  <2>3. q.pc = "claim" /\ q.read = "fine" => challenge'[q.challenge].attempts < MaxAttempts
    BY <1>1, <1>2, <2>1 DEF Verdict, Spares, Guard, Guarded, OfPhone
  <2>4. q.pc \in {"complete", "create", "continue"} /\ q.read \in {"known", "owned", "new"} =>
          challenge'[q.challenge].status = "sent" /\ challenge'[q.challenge].token # None
    BY <1>1, <1>2, <2>1 DEF Verdict, Spares, Grows, Guard, Guarded, OfPhone
  <2>5. q.pc = "complete" /\ q.read = "known" =>
          phoneUser'[challenge'[q.challenge].number] # None
    BY <1>1, <2>1 DEF Verdict, Grows, OfPhone
  <2>6. q.pc \in {"google", "continue"} /\ q.read = "known" =>
          googleUser'[authorization'[q.proof].subject] # None
    BY <1>1, <2>2 DEF Verdict, Grows, OfGoogle
  <2> QED BY <1>1, <2>3, <2>4, <2>5, <2>6 DEF Verdict
<1> QED BY <1>3, <1>4

LEMMA GoogleUses ==
  ASSUME SignInInv, NEW r \in Requests, UsesAuthorization(r)
  PROVE  request[r].pc \in OfGoogle /\ authorization[request[r].proof].status = "used"
<1>1. request[r].pc \in Steps /\ Fit(request[r])
  BY DEF SignInInv, Types, RequestState, RequestInv
<1> QED BY <1>1, Apart DEF UsesAuthorization, Fit, OfPhone, OfGoogle, Steps, Transactions

(* The authorization a request acts on is the one it acted on, or was open. *)
ProofKept(r, q) ==
  q.pc # "rest" /\ q.proof \in Authorizations =>
    \/ UsesAuthorization(r) /\ q.proof = request[r].proof
    \/ authorization[q.proof].status # "used"

(* A whole step of a request.                                              *)
Move(r, q) == Turn(r, q) /\ Fit(q)' /\ Verdict(q)' /\ ProofKept(r, q) /\ Grows /\ Spares(r)

LEMMA MoveKeepsRequests ==
  ASSUME SignInInv, NEW r \in Requests, NEW q, Turn(r, q), Fit(q)', Verdict(q)',
         ProofKept(r, q), Grows, Spares(r)
  PROVE  /\ RequestInv' /\ lock' \in [Locks -> Requests \cup {None}]
         /\ request' \in [Requests -> RequestState]
<1>1. /\ Types /\ \A s \in Requests : Locking(s) /\ Fit(request[s])
      /\ request' \in [Requests -> RequestState]
      /\ request'[r] = q /\ \A s \in Requests \ {r} : request'[s] = request[s]
  BY TurnFacts DEF SignInInv, RequestInv
<1>2. /\ lock' \in [Locks -> Requests \cup {None}] /\ \A s \in Requests : Locking(s)'
  BY <1>1, TurnKeepsLocks
<1>3. ASSUME NEW s \in Requests
      PROVE  Fit(request[s])' /\ Verdict(request[s])'
  <2>1. CASE s = r
    BY <1>1, <2>1 DEF Fit, Verdict
  <2>2. CASE s # r
    <3>1. PICK p : p = request[s] /\ request'[s] = p
      BY <1>1, <2>2
    <3>2. Fit(p)' /\ Verdict(p)'
      BY <2>2, <3>1, OthersStand
    <3> QED BY <3>1, <3>2 DEF Fit, Verdict
  <2> QED BY <2>1, <2>2
<1>4. ASSUME NEW s \in Requests, NEW z \in Requests, s # z, UsesAuthorization(s)'
      PROVE  request'[z].proof # request'[s].proof \/ request'[z].pc = "rest"
  <2>1. \A x, y \in Requests : x # y /\ UsesAuthorization(x) =>
          request[y].proof # request[x].proof \/ request[y].pc = "rest"
    BY DEF SignInInv, RequestInv
  <2>2. CASE s # r /\ z # r
    BY <1>1, <1>4, <2>1, <2>2 DEF UsesAuthorization
  <2>3. CASE s = r
    <3>1. request'[z] = request[z] /\ q.pc # "rest" /\ q.proof \in Authorizations
      BY <1>1, <1>4, <2>3 DEF UsesAuthorization
    <3>2. CASE UsesAuthorization(r) /\ q.proof = request[r].proof
      BY <1>1, <1>4, <2>1, <2>3, <3>1, <3>2
    <3>3. CASE authorization[q.proof].status # "used"
      BY <1>1, <2>3, <3>1, <3>3, GoogleUses DEF UsesAuthorization
    <3> QED BY <3>1, <3>2, <3>3 DEF ProofKept
  <2>4. CASE z = r
    <3>1. request'[s] = request[s] /\ UsesAuthorization(s)
      BY <1>1, <1>4, <2>4 DEF UsesAuthorization
    <3>2. CASE q.pc = "rest" \/ q.proof \notin Authorizations
      BY <1>1, <2>4, <3>1, <3>2 DEF UsesAuthorization
    <3>3. CASE UsesAuthorization(r) /\ q.proof = request[r].proof
      <4>1. request[r].pc # "rest"
        BY <3>3 DEF UsesAuthorization
      <4> QED BY <1>1, <1>4, <2>1, <2>4, <3>1, <3>3, <4>1
    <3>4. CASE q.proof \in Authorizations /\ authorization[q.proof].status # "used"
      BY <1>1, <2>4, <3>1, <3>4, GoogleUses DEF UsesAuthorization
    <3> QED BY <3>2, <3>3, <3>4 DEF ProofKept
  <2> QED BY <2>2, <2>3, <2>4
<1> QED BY <1>1, <1>2, <1>3, <1>4 DEF RequestInv

(* Steps of nobody's request.                                              *)
LEMMA RestKeepsRequests ==
  ASSUME SignInInv, Grows, Spares(None), UNCHANGED <<request, lock>>
  PROVE  RequestInv'
<1>1. ASSUME NEW s \in Requests
      PROVE  Fit(request[s])' /\ Verdict(request[s])'
  <2>1. PICK p : p = request[s] /\ request'[s] = p
    OBVIOUS
  <2>2. Fit(p)' /\ Verdict(p)'
    BY <2>1, Apart, OthersStand
  <2> QED BY <2>1, <2>2 DEF Fit, Verdict
<1>2. \A s \in Requests : Locking(s)'
  BY DEF SignInInv, RequestInv, Locking
<1> QED BY <1>1, <1>2 DEF SignInInv, RequestInv, UsesAuthorization
-----------------------------------------------------------------------------
(* The sessions that are left keep their proofs.                           *)
SessionsStand ==
  \A s \in Sessions : session'[s] # None =>
    /\ session[s] # None /\ session'[s].user = session[s].user
    /\ session'[s].proofs = session[s].proofs

ProofsStand ==
  \A r \in Requests : UsesAuthorization(r)' =>
    \/ UsesAuthorization(r) /\ request'[r].proof = request[r].proof
    \/ authorization[request'[r].proof].status # "used"

LEMMA HoldersStand ==
  ASSUME SignInInv, Grows, NEW s \in Sessions, session[s] # None
  PROVE  /\ session[s].user \in Users /\ session[s].proofs \subseteq Proofs
         /\ \A p \in session[s].proofs : SpentProof(p)'
         /\ \A t \in Tokens \cap session[s].proofs : phoneUser'[NumberOf[t]] = session[s].user
         /\ \A a \in Authorizations \cap session[s].proofs :
              /\ authorization'[a] = authorization[a]
              /\ googleUser'[authorization'[a].subject] = session[s].user
<1>1. session[s].user \in Users /\ session[s].proofs \subseteq Proofs
  BY DEF SignInInv, Types, Session
<1>2. \A p \in session[s].proofs : SpentProof(p)
  BY <1>1 DEF SignInInv, SessionInv, Opened
<1>3. \A p \in session[s].proofs : SpentProof(p)'
  BY <1>1, <1>2, Apart DEF SpentProof, Grows
<1>4. \A t \in Tokens \cap session[s].proofs : phoneUser'[NumberOf[t]] = session[s].user
  BY <1>1, Apart DEF SignInInv, SessionInv, SessionIsHolders, Grows
<1>5. \A a \in Authorizations \cap session[s].proofs :
        /\ authorization'[a] = authorization[a]
        /\ googleUser'[authorization'[a].subject] = session[s].user
  <2>1. \A a \in Authorizations \cap session[s].proofs :
          authorization[a].status = "used" /\ authorization[a].subject \in Subjects
    BY <1>2 DEF SpentProof, SignInInv, RowInv, AuthorizationFits
  <2> QED BY <1>1, <2>1, Apart DEF SignInInv, SessionInv, SessionIsHolders, Grows
<1> QED BY <1>1, <1>3, <1>4, <1>5

LEMMA SessionsKept ==
  ASSUME SignInInv, Grows, SessionsStand, ProofsStand
  PROVE  SessionInv'
<1>1. \A s \in Sessions, p \in Proofs : Opened(s, p)' => Opened(s, p)
  BY DEF SessionsStand, Opened
<1>2. \A s \in Sessions, p \in Proofs : Opened(s, p) => SpentProof(p)'
  BY HoldersStand DEF Opened
<1>3. ASSUME NEW r \in Requests, UsesAuthorization(r)', NEW s \in Sessions
      PROVE  ~Opened(s, request[r].proof)'
  <2>1. request'[r].proof \in Proofs
    BY <1>3, Apart DEF UsesAuthorization
  <2>2. CASE UsesAuthorization(r) /\ request'[r].proof = request[r].proof
    BY <1>1, <2>1, <2>2 DEF SignInInv, SessionInv, Opened
  <2>3. CASE authorization[request'[r].proof].status # "used"
    <3>1. ~Opened(s, request'[r].proof)
      BY <1>3, <2>1, <2>3 DEF SignInInv, SessionInv, SpentProof, UsesAuthorization
    <3> QED BY <3>1 DEF SessionsStand, Opened
  <2> QED BY <1>3, <2>2, <2>3 DEF ProofsStand
<1>4. OneSessionPerProof'
  BY DEF SignInInv, SessionInv, OneSessionPerProof, SessionsStand
<1>5. SessionIsHolders'
  BY HoldersStand DEF SessionIsHolders, SessionsStand
<1> QED BY <1>1, <1>2, <1>3, <1>4, <1>5 DEF SessionInv

(* A session that is opened: its proofs opened none before.                *)
Holder(p, u) ==
  /\ p \in Tokens => phoneUser[NumberOf[p]] = u
  /\ p \in Authorizations => googleUser[authorization[p].subject] = u

LEMMA SessionOpened ==
  ASSUME SignInInv, Grows, ProofsStand, NEW u \in Users, NEW P \in SUBSET Proofs,
         NewSession(u, P),
         \A p \in P : /\ Holder(p, u)' /\ SpentProof(p)'
                      /\ \A s \in Sessions : ~Opened(s, p)
                      /\ \A r \in Requests : UsesAuthorization(r)' => request'[r].proof # p
  PROVE  SessionInv' /\ session' \in [Sessions -> Session \cup {None}]
<1>1. PICK z \in Sessions :
        /\ session[z] = None
        /\ session' = [session EXCEPT ![z] = [user |-> u, proofs |-> P, live |-> TRUE]]
  BY DEF NewSession
<1> DEFINE new == [user |-> u, proofs |-> P, live |-> TRUE]
<1>2. new \in Session /\ new.user = u /\ new.proofs = P
  BY DEF Session
<1>3. session' = [session EXCEPT ![z] = new]
  BY <1>1
<1> HIDE DEF new
<1>4. /\ session' \in [Sessions -> Session \cup {None}] /\ session'[z] = new
      /\ \A s \in Sessions \ {z} : session'[s] = session[s]
  BY <1>2, <1>3 DEF SignInInv, Types
<1>5. \A s \in Sessions, p \in Proofs : Opened(s, p)' => Opened(s, p) \/ (s = z /\ p \in P)
  BY <1>2, <1>4 DEF Opened
<1>6. \A s \in Sessions, p \in Proofs : Opened(s, p) => SpentProof(p)'
  BY HoldersStand DEF Opened
<1>7. ASSUME NEW r \in Requests, UsesAuthorization(r)', NEW s \in Sessions
      PROVE  ~Opened(s, request[r].proof)'
  <2>1. request'[r].proof \in Proofs /\ request'[r].proof \notin P
    BY <1>7, Apart DEF UsesAuthorization
  <2>2. CASE UsesAuthorization(r) /\ request'[r].proof = request[r].proof
    BY <1>5, <2>1, <2>2 DEF SignInInv, SessionInv, Opened
  <2>3. CASE authorization[request'[r].proof].status # "used"
    <3>1. ~Opened(s, request'[r].proof)
      BY <1>7, <2>1, <2>3 DEF SignInInv, SessionInv, SpentProof, UsesAuthorization
    <3> QED BY <1>4, <1>2, <2>1, <3>1 DEF Opened
  <2> QED BY <1>7, <2>2, <2>3 DEF ProofsStand
<1>8. OneSessionPerProof'
  <2> SUFFICES ASSUME NEW s \in Sessions, NEW y \in Sessions, s # y,
                      session'[s] # None, session'[y] # None
               PROVE  session'[s].proofs \cap session'[y].proofs = {}
    BY DEF OneSessionPerProof
  <2>1. CASE s # z /\ y # z
    BY <1>4, <2>1 DEF SignInInv, SessionInv, OneSessionPerProof
  <2>2. CASE s = z
    BY <1>2, <1>4, <2>2 DEF Opened
  <2>3. CASE y = z
    BY <1>2, <1>4, <2>3 DEF Opened
  <2> QED BY <2>1, <2>2, <2>3
<1>9. SessionIsHolders'
  <2> SUFFICES ASSUME NEW s \in Sessions, session'[s] # None
               PROVE  /\ \A t \in Tokens \cap session'[s].proofs :
                           phoneUser'[NumberOf[t]] = session'[s].user
                      /\ \A a \in Authorizations \cap session'[s].proofs :
                           googleUser'[authorization'[a].subject] = session'[s].user
    BY DEF SessionIsHolders
  <2>1. CASE s = z
    BY <1>2, <1>4, <2>1 DEF Holder
  <2>2. CASE s # z
    BY <1>4, <2>2, HoldersStand
  <2> QED BY <2>1, <2>2
<1> QED BY <1>4, <1>5, <1>6, <1>7, <1>8, <1>9 DEF SessionInv
-----------------------------------------------------------------------------
(* Steps of a request: what is left to show of each.                       *)
RowTypes ==
  /\ challenge \in [Challenges -> Challenge]
  /\ authorization \in [Authorizations -> Authorization]
  /\ account \in [Users -> Account]
  /\ phoneUser \in [Numbers -> Users \cup {None}]
  /\ googleUser \in [Subjects -> Users \cup {None}]

LEMMA MoveKeepsProofs ==
  ASSUME SignInInv, NEW r \in Requests, NEW q, Turn(r, q), ProofKept(r, q)
  PROVE  ProofsStand
<1>1. request'[r] = q /\ \A s \in Requests \ {r} : request'[s] = request[s]
  BY TurnFacts DEF SignInInv
<1> QED BY <1>1 DEF ProofsStand, UsesAuthorization, ProofKept

LEMMA StepKeeps ==
  ASSUME SignInInv, NEW r \in Requests, NEW q, Move(r, q), RowTypes', RowInv',
         session' \in [Sessions -> Session \cup {None}], SessionInv'
  PROVE  SignInInv'
<1>1. /\ RequestInv' /\ lock' \in [Locks -> Requests \cup {None}]
      /\ request' \in [Requests -> RequestState]
  BY MoveKeepsRequests DEF Move
<1> QED BY <1>1 DEF SignInInv, Types, RowTypes

LEMMA QuietOfSessions ==
  ASSUME SignInInv, NEW r \in Requests, NEW q, Move(r, q), RowTypes', RowInv', UNCHANGED session
  PROVE  SignInInv'
<1>1. SessionsStand
  BY DEF SessionsStand
<1>2. SessionInv'
  BY <1>1, MoveKeepsProofs, SessionsKept DEF Move
<1>3. session' \in [Sessions -> Session \cup {None}]
  BY DEF SignInInv, Types
<1> QED BY <1>2, <1>3, StepKeeps

LEMMA QuietOfRows ==
  ASSUME SignInInv, NEW r \in Requests, NEW q, Turn(r, q), Fit(q), Verdict(q), ProofKept(r, q),
         UNCHANGED <<challenge, authorization, identities, session>>
  PROVE  SignInInv'
<1>1. UNCHANGED <<challenge, authorization, account, phoneUser, googleUser, session>>
  BY DEF identities
<1>2. Move(r, q)
  BY <1>1, Standing DEF Move
<1>3. RowTypes'
  BY <1>1 DEF SignInInv, Types, RowTypes
<1>4. RowInv'
  BY <1>1 DEF SignInInv, RowInv, ChallengeFits, AuthorizationFits, SubmissionsWithinCap,
              ContactsAreProven
<1> QED BY <1>1, <1>2, <1>3, <1>4, QuietOfSessions

(* The forms of a step: a read, the end of a request, another beginning.   *)
LEMMA Reader ==
  ASSUME SignInInv, NEW r \in Requests, request[r].pc \in Transactions, request[r].want = <<>>,
         NEW res \in Readings, Reads(r, res),
         \A q : Continues(request[r], q) /\ q.read = res => Verdict(q)
  PROVE  SignInInv'
<1>1. request[r] \in RequestState /\ Fit(request[r])
  BY DEF SignInInv, Types, RequestInv
<1> DEFINE p == [request[r] EXCEPT !.read = res]
<1>2. /\ p \in RequestState /\ Continues(request[r], p) /\ p.read = res
      /\ p.want = request[r].want
  BY <1>1 DEF RequestState, Continues
<1>3. request' = [request EXCEPT ![r] = p]
  BY DEF Reads
<1>4. PICK q : q = p
  OBVIOUS
<1> HIDE DEF p
<1>5. UNCHANGED <<challenge, authorization, identities, session, lock>>
  BY DEF Reads
<1>6. Turn(r, q)
  BY <1>2, <1>3, <1>4, <1>5 DEF Turn, ReadsRows
<1>7. Fit(q) /\ Verdict(q)
  <2>1. Fit(q)
    BY <1>1, <1>2, <1>4 DEF Fit, Continues
  <2> QED BY <1>2, <1>4, <2>1
<1>8. ProofKept(r, q)
  BY <1>2, <1>4 DEF ProofKept, UsesAuthorization, Continues
<1> QED BY <1>5, <1>6, <1>7, <1>8, QuietOfRows

LEMMA Ender ==
  ASSUME NEW r \in Requests, Finish(r)
  PROVE  Turn(r, AtRest) /\ Fit(AtRest)' /\ Verdict(AtRest)' /\ Fit(AtRest) /\ Verdict(AtRest)
         /\ ProofKept(r, AtRest)
<1>1. AtRest \in RequestState
  BY DEF AtRest, RequestState, Steps, Readings
<1>2. Turn(r, AtRest)
  <2>1. AtRest.pc \notin Transactions /\ AtRest.want = <<>> /\ AtRest.read = "unread"
    BY DEF AtRest, Transactions
  <2> QED BY <1>1, <2>1 DEF Turn, Ends, Finish
<1> QED BY <1>2 DEF AtRest, Fit, Verdict, ProofKept, OfPhone, OfGoogle

(* A request goes on with the fields of p, a state of a request.           *)
LEMMA Onward ==
  ASSUME Types, NEW r \in Requests, NEW pc \in Steps, NEW p \in RequestState, GoOn(r, pc, p)
  PROVE  \E q \in RequestState :
           /\ request' = [request EXCEPT ![r] = q]
           /\ q.pc = pc /\ q.read = "unread"
           /\ q.challenge = p.challenge /\ q.proof = p.proof /\ q.user = p.user /\ q.want = p.want
<1> DEFINE q == [p EXCEPT !.pc = pc, !.read = "unread"]
<1>1. /\ q \in RequestState /\ q.pc = pc /\ q.read = "unread"
      /\ q.challenge = p.challenge /\ q.proof = p.proof /\ q.user = p.user /\ q.want = p.want
  BY DEF RequestState, Readings
<1>2. request' = [request EXCEPT ![r] = q]
  BY DEF GoOn
<1> HIDE DEF q
<1> QED BY <1>1, <1>2
-----------------------------------------------------------------------------
(* The steps that write no row.                                            *)
LEMMA TakeLockKeeps ==
  ASSUME SignInInv, NEW r \in Requests, TakeLock(r)
  PROVE  SignInInv'
<1>1. /\ request[r] \in RequestState /\ Fit(request[r]) /\ Verdict(request[r]) /\ Locking(r)
      /\ request[r].want \in Seq(Locks) /\ request[r].want # <<>>
  BY DEF SignInInv, Types, RequestInv, RequestState, TakeLock
<1> DEFINE p == [request[r] EXCEPT !.want = Tail(request[r].want)]
<1>2. /\ p \in RequestState /\ Continues(request[r], p) /\ p.read = request[r].read
      /\ p.want = Tail(request[r].want)
  <2>1. Tail(request[r].want) \in Seq(Locks)
    BY <1>1
  <2> QED BY <1>1, <2>1 DEF RequestState, Continues
<1>3. request' = [request EXCEPT ![r] = p]
  BY DEF TakeLock
<1>4. PICK q : q = p
  OBVIOUS
<1> HIDE DEF p
<1>5. /\ UNCHANGED <<challenge, authorization, identities, session>>
      /\ lock[Head(request[r].want)] = None
      /\ lock' = [lock EXCEPT ![Head(request[r].want)] = r]
  BY DEF TakeLock, IsFree
<1>6. Turn(r, q)
  BY <1>1, <1>2, <1>3, <1>4, <1>5 DEF Turn, TakesLock
<1>7. Fit(q) /\ Verdict(q)
  BY <1>1, <1>2, <1>4 DEF Fit, Verdict, Continues
<1>8. ProofKept(r, q)
  BY <1>2, <1>4 DEF ProofKept, UsesAuthorization, Continues
<1> QED BY <1>5, <1>6, <1>7, <1>8, QuietOfRows

LEMMA EndKeeps ==
  ASSUME SignInInv, NEW r \in Requests, Finish(r),
         UNCHANGED <<challenge, authorization, identities, session>>
  PROVE  SignInInv'
BY Ender, QuietOfRows

LEMMA ReadClaimKeeps ==
  ASSUME SignInInv, NEW r \in Requests, ReadClaim(r)
  PROVE  SignInInv'
<1> DEFINE c == challenge[request[r].challenge]
           res == IF c.status = "sent" /\ ~c.late /\ c.attempts < MaxAttempts
                    THEN "fine" ELSE "refused"
<1>1. /\ request[r].pc = "claim" /\ request[r].pc \in Transactions /\ request[r].want = <<>>
      /\ Reads(r, res) /\ res \in Readings
  BY DEF ReadClaim, Reading, Transactions, Readings
<1>2. \A q : Continues(request[r], q) /\ q.read = res => Verdict(q)
  BY <1>1 DEF Continues, Verdict
<1> HIDE DEF res
<1> QED BY <1>1, <1>2, Reader

LEMMA ReadCompletionKeeps ==
  ASSUME SignInInv, NEW r \in Requests, ReadCompletion(r)
  PROVE  SignInInv'
<1> DEFINE c == request[r].challenge
           n == challenge[c].number
           res == IF ~Usable(c) THEN "refused" ELSE IF phoneUser[n] # None THEN "known"
                  ELSE IF PhoneOwner(n) # {} THEN "owned" ELSE "new"
<1>1. /\ request[r].pc = "complete" /\ request[r].pc \in Transactions /\ request[r].want = <<>>
      /\ Reads(r, res) /\ res \in Readings
  BY DEF ReadCompletion, Reading, Transactions, Readings
<1>2. \A q : Continues(request[r], q) /\ q.read = res => Verdict(q)
  BY <1>1 DEF Continues, Verdict, Usable
<1> HIDE DEF res
<1> QED BY <1>1, <1>2, Reader

LEMMA ReadAccountKeeps ==
  ASSUME SignInInv, NEW r \in Requests, ReadAccount(r)
  PROVE  SignInInv'
<1> DEFINE c == request[r].challenge
           n == challenge[c].number
           res == IF Usable(c) /\ phoneUser[n] = None /\ PhoneOwner(n) = {} THEN "new" ELSE "refused"
<1>1. /\ request[r].pc = "create" /\ request[r].pc \in Transactions /\ request[r].want = <<>>
      /\ Reads(r, res) /\ res \in Readings
  BY DEF ReadAccount, Reading, Transactions, Readings
<1>2. \A q : Continues(request[r], q) /\ q.read = res => Verdict(q)
  BY <1>1 DEF Continues, Verdict, Usable
<1> HIDE DEF res
<1> QED BY <1>1, <1>2, Reader

LEMMA ReadLinkKeeps ==
  ASSUME SignInInv, NEW r \in Requests, ReadLink(r) \/ ReadGoogleLink(r)
  PROVE  SignInInv'
<1>1. /\ request[r].pc \in {"link", "linkGoogle"} /\ request[r].pc \in Transactions
      /\ request[r].want = <<>>
      /\ Reads(r, "new") \/ Reads(r, "refused")
  BY DEF ReadLink, ReadGoogleLink, Reading, Transactions
<1>2. PICK res \in {"new", "refused"} : Reads(r, res)
  BY <1>1
<1>3. \A q : Continues(request[r], q) /\ q.read = res => Verdict(q)
  BY <1>1 DEF Continues, Verdict
<1>4. res \in Readings
  BY DEF Readings
<1> QED BY <1>1, <1>2, <1>3, <1>4, Reader

LEMMA ReadGoogleKeeps ==
  ASSUME SignInInv, NEW r \in Requests, ReadGoogle(r)
  PROVE  SignInInv'
<1> DEFINE g == authorization[request[r].proof].subject
           res == IF googleUser[g] # None THEN "known"
                  ELSE IF EmailOwner(EmailOf[g]) # {} THEN "refused" ELSE "new"
<1>1. /\ request[r].pc = "google" /\ request[r].pc \in Transactions /\ request[r].want = <<>>
      /\ Reads(r, res) /\ res \in Readings
  BY DEF ReadGoogle, Reading, Transactions, Readings
<1>2. \A q : Continues(request[r], q) /\ q.read = res => Verdict(q)
  BY <1>1 DEF Continues, Verdict
<1> HIDE DEF res
<1> QED BY <1>1, <1>2, Reader

LEMMA ReadContinuationKeeps ==
  ASSUME SignInInv, NEW r \in Requests, ReadContinuation(r)
  PROVE  SignInInv'
<1> DEFINE g == authorization[request[r].proof].subject
           res == IF ~Usable(request[r].challenge) THEN "refused"
                  ELSE IF googleUser[g] # None THEN "known"
                  ELSE IF EmailOwner(EmailOf[g]) # {} THEN "refused" ELSE "new"
<1>1. /\ request[r].pc = "continue" /\ request[r].pc \in Transactions /\ request[r].want = <<>>
      /\ Reads(r, res) /\ res \in Readings
  BY DEF ReadContinuation, Reading, Transactions, Readings
<1>2. \A q : Continues(request[r], q) /\ q.read = res => Verdict(q)
  BY <1>1 DEF Continues, Verdict, Usable
<1> HIDE DEF res
<1> QED BY <1>1, <1>2, Reader

(* The beginnings: a token is presented, an account is asked for.          *)
LEMMA PresentKeeps ==
  ASSUME SignInInv, NEW r \in Requests, NEW c \in Challenges, NEW t \in Tokens,
         NEW u \in Users \cup {None}, NEW ip \in Addresses, Present(r, c, t, u, ip)
  PROVE  SignInInv'
<1>1. request[r].pc = "rest" /\ challenge[c].status # "none" /\ challenge[c].number \in Numbers
  BY DEF Present, SignInInv, RowInv, ChallengeFits
<1> DEFINE w == LocksOf("claim", c, None, ip)
           p == [AtRest EXCEPT !.challenge = c, !.proof = t, !.user = u, !.want = w]
<1>2. w \in Seq(Locks) /\ Ordered(w) /\ w # <<>> /\ Head(w) = <<"verify", c>>
  BY <1>1, LockLists DEF Transactions, Guarded
<1> HIDE DEF w
<1>3. /\ p \in RequestState /\ p.challenge = c /\ p.proof = t /\ p.user = u /\ p.want = w
  BY <1>2, Apart DEF RequestState, AtRest, Steps, Readings
<1>4. GoOn(r, "claim", p)
  BY DEF Present, w
<1> HIDE DEF p
<1>5. PICK q \in RequestState :
        /\ request' = [request EXCEPT ![r] = q]
        /\ q.pc = "claim" /\ q.read = "unread"
        /\ q.challenge = c /\ q.proof = t /\ q.user = u /\ q.want = w
  BY <1>3, <1>4, Onward DEF SignInInv, Steps, Transactions
<1>6. UNCHANGED <<challenge, authorization, identities, session, lock>>
  BY DEF Present
<1>7. Turn(r, q)
  BY <1>1, <1>2, <1>5, <1>6 DEF Turn, Begins, Guard, Guarded, Transactions
<1>8. Fit(q) /\ Verdict(q)
  BY <1>1, <1>5 DEF Fit, Verdict, OfPhone, OfGoogle
<1>9. ProofKept(r, q)
  BY <1>5, Apart DEF ProofKept
<1> QED BY <1>6, <1>7, <1>8, <1>9, QuietOfRows

LEMMA AskAccountKeeps ==
  ASSUME SignInInv, NEW r \in Requests, NEW c \in Challenges, AskAccount(r, c)
  PROVE  SignInInv'
<1> DEFINE t == challenge[c].token
<1>1. /\ request[r].pc = "rest" /\ t \in Tokens
      /\ challenge[c].status # "none" /\ challenge[c].number \in Numbers
      /\ NumberOf[t] = challenge[c].number
  BY DEF AskAccount, SignInInv, RowInv, ChallengeFits, Types, Challenge
<1> DEFINE w == LocksOf("create", c, None, None)
           p == [AtRest EXCEPT !.challenge = c, !.proof = t, !.want = w]
<1>2. w \in Seq(Locks) /\ Ordered(w) /\ w # <<>> /\ Head(w) = <<"complete", c>>
  BY <1>1, LockLists DEF Transactions, Guarded
<1> HIDE DEF w
<1>3. p \in RequestState /\ p.challenge = c /\ p.proof = t /\ p.want = w
  BY <1>1, <1>2, Apart DEF RequestState, AtRest, Steps, Readings
<1>4. GoOn(r, "create", p)
  BY DEF AskAccount, w
<1> HIDE DEF p
<1>5. PICK q \in RequestState :
        /\ request' = [request EXCEPT ![r] = q]
        /\ q.pc = "create" /\ q.read = "unread"
        /\ q.challenge = c /\ q.proof = t /\ q.want = w
  BY <1>3, <1>4, Onward DEF SignInInv, Steps, Transactions
<1>6. UNCHANGED <<challenge, authorization, identities, session, lock>>
  BY DEF AskAccount
<1>7. Turn(r, q)
  BY <1>1, <1>2, <1>5, <1>6 DEF Turn, Begins, Guard, Guarded, Transactions
<1>8. Fit(q) /\ Verdict(q)
  BY <1>1, <1>5 DEF Fit, Verdict, OfPhone, OfGoogle
<1>9. ProofKept(r, q)
  BY <1>1, <1>5, Apart DEF ProofKept
<1> QED BY <1>6, <1>7, <1>8, <1>9, QuietOfRows

LEMMA AskProviderKeeps ==
  ASSUME SignInInv, NEW r \in Requests, AskProvider(r)
  PROVE  SignInInv'
<1>1. /\ request[r].pc = "ask" /\ request[r] \in RequestState /\ Fit(request[r]) /\ Locking(r)
      /\ request[r].want = <<>> /\ request[r].proof \in Tokens
      /\ UNCHANGED <<challenge, authorization, identities, session, lock>>
  BY DEF AskProvider, SignInInv, Types, RequestInv, Locking, Transactions, Fit, OfPhone
<1>2. CASE GoOn(r, "rest", AtRest)
  <2>1. /\ AtRest \in RequestState /\ AtRest.want = <<>>
    BY DEF AtRest, RequestState, Steps, Readings
  <2>2. PICK q \in RequestState :
          /\ request' = [request EXCEPT ![r] = q]
          /\ q.pc = "rest" /\ q.read = "unread" /\ q.want = <<>>
    <3>1. Types /\ "rest" \in Steps
      BY DEF SignInInv, Steps
    <3> QED BY <1>2, <2>1, <3>1, Onward
  <2>3. Turn(r, q)
    BY <1>1, <2>2 DEF Turn, Begins, Ordered, Guarded, Transactions
  <2>4. Fit(q) /\ Verdict(q) /\ ProofKept(r, q)
    BY <2>2 DEF Fit, Verdict, OfPhone, OfGoogle, ProofKept
  <2> QED BY <1>1, <2>3, <2>4, QuietOfRows
<1>3. CASE /\ NumberOf[request[r].proof] = challenge[request[r].challenge].number
           /\ GoOn(r, "record", request[r])
  <2>1. PICK q \in RequestState :
          /\ request' = [request EXCEPT ![r] = q]
          /\ q.pc = "record" /\ q.read = "unread" /\ q.want = <<>>
          /\ q.challenge = request[r].challenge /\ q.proof = request[r].proof
    <3>1. Types /\ "record" \in Steps
      BY DEF SignInInv, Steps
    <3> QED BY <1>1, <1>3, <3>1, Onward
  <2>2. Turn(r, q)
    BY <1>1, <2>1 DEF Turn, Begins, Ordered, Guarded, Transactions
  <2>3. Fit(q) /\ Verdict(q)
    BY <1>1, <1>3, <2>1 DEF Fit, Verdict, OfPhone, OfGoogle
  <2>4. ProofKept(r, q)
    BY <1>1, <2>1, Apart DEF ProofKept
  <2> QED BY <1>1, <2>2, <2>3, <2>4, QuietOfRows
<1> QED BY <1>2, <1>3 DEF AskProvider
-----------------------------------------------------------------------------
(* What the writing steps share: a challenge that changes, one that is used *)
(* up, the contacts of an account.                                         *)
ChallengesGrow ==
  \A c \in Challenges :
    /\ challenge[c].status # "none" =>
         challenge'[c].status # "none" /\ challenge'[c].number = challenge[c].number
    /\ challenge[c].token # None => challenge'[c].token = challenge[c].token
    /\ challenge[c].status = "consumed" => challenge'[c].status = "consumed"

LEMMA ChallengeChanges ==
  ASSUME SignInInv, NEW c \in Challenges, NEW h \in Challenge,
         challenge' = [challenge EXCEPT ![c] = h], UNCHANGED authorization,
         h.status # "none", h.number \in Numbers,
         challenge[c].status # "none" => h.number = challenge[c].number,
         challenge[c].status = "consumed" => h.status = "consumed",
         challenge[c].token # None => h.token = challenge[c].token,
         h.token # None =>
           /\ NumberOf[h.token] = h.number
           /\ \A d \in Challenges \ {c} : challenge[d].token # h.token,
         h.attempts <= MaxAttempts
  PROVE  /\ challenge' \in [Challenges -> Challenge] /\ challenge'[c] = h
         /\ \A d \in Challenges \ {c} : challenge'[d] = challenge[d]
         /\ \A d \in Challenges : ChallengeFits(d)'
         /\ \A a \in Authorizations : AuthorizationFits(a)'
         /\ SubmissionsWithinCap' /\ ChallengesGrow
<1>1. /\ challenge' \in [Challenges -> Challenge] /\ challenge'[c] = h
      /\ \A d \in Challenges \ {c} : challenge'[d] = challenge[d]
  BY DEF SignInInv, Types
<1>2. \A d \in Challenges : ChallengeFits(d)
  BY DEF SignInInv, RowInv
<1>3. ChallengesGrow
  BY <1>1 DEF ChallengesGrow
<1>4. ASSUME NEW d \in Challenges
      PROVE  ChallengeFits(d)'
  <2>1. CASE d = c
    BY <1>1, <2>1 DEF ChallengeFits
  <2>2. CASE d # c
    BY <1>1, <1>2, <2>2 DEF ChallengeFits
  <2> QED BY <2>1, <2>2
<1>5. \A a \in Authorizations : AuthorizationFits(a)'
  BY <1>3 DEF SignInInv, RowInv, AuthorizationFits, ChallengesGrow
<1>6. SubmissionsWithinCap'
  BY <1>1 DEF SignInInv, RowInv, SubmissionsWithinCap
<1> QED BY <1>1, <1>3, <1>4, <1>5, <1>6

LEMMA Consumes ==
  ASSUME SignInInv, NEW c \in Challenges, challenge[c].status # "none", Consume(c),
         UNCHANGED authorization
  PROVE  /\ challenge' \in [Challenges -> Challenge]
         /\ challenge'[c].status = "consumed" /\ challenge'[c].token = challenge[c].token
         /\ \A d \in Challenges : challenge'[d].attempts = challenge[d].attempts
         /\ \A d \in Challenges \ {c} : challenge'[d] = challenge[d]
         /\ \A d \in Challenges : ChallengeFits(d)'
         /\ \A a \in Authorizations : AuthorizationFits(a)'
         /\ SubmissionsWithinCap' /\ ChallengesGrow
<1> DEFINE h == [challenge[c] EXCEPT !.status = "consumed"]
<1>1. challenge[c] \in Challenge /\ ChallengeFits(c) /\ challenge[c].attempts <= MaxAttempts
  BY DEF SignInInv, Types, RowInv, SubmissionsWithinCap
<1>2. /\ h \in Challenge /\ h.status = "consumed" /\ h.number = challenge[c].number
      /\ h.token = challenge[c].token /\ h.attempts = challenge[c].attempts
  BY <1>1 DEF Challenge
<1>3. challenge' = [challenge EXCEPT ![c] = h]
  BY DEF Consume
<1> HIDE DEF h
<1>4. h.number \in Numbers
  BY <1>1, <1>2 DEF ChallengeFits
<1>5. h.token # None =>
        /\ NumberOf[h.token] = h.number
        /\ \A d \in Challenges \ {c} : challenge[d].token # h.token
  BY <1>1, <1>2 DEF ChallengeFits
<1>6. /\ challenge' \in [Challenges -> Challenge] /\ challenge'[c] = h
      /\ \A d \in Challenges \ {c} : challenge'[d] = challenge[d]
      /\ \A d \in Challenges : ChallengeFits(d)'
      /\ \A a \in Authorizations : AuthorizationFits(a)'
      /\ SubmissionsWithinCap' /\ ChallengesGrow
  BY <1>1, <1>2, <1>3, <1>4, <1>5, ChallengeChanges
<1> QED BY <1>2, <1>6

LEMMA Contacts ==
  ASSUME SignInInv, Grows, NEW u \in Users, NEW h \in Account,
         account' = [account EXCEPT ![u] = h],
         h.phone # None => phoneUser'[h.phone] = u,
         h.email # None => \E g \in Subjects : EmailOf[g] = h.email /\ googleUser'[g] = u
  PROVE  ContactsAreProven' /\ account' \in [Users -> Account]
<1>1. /\ account' \in [Users -> Account] /\ account'[u] = h
      /\ \A v \in Users \ {u} : account'[v] = account[v]
  BY DEF SignInInv, Types
<1>2. ASSUME NEW v \in Users \ {u}
      PROVE  /\ account[v].phone # None => phoneUser'[account[v].phone] = v
             /\ account[v].email # None =>
                  \E g \in Subjects : EmailOf[g] = account[v].email /\ googleUser'[g] = v
  <2>1. account[v] \in Account /\ v # None
    BY Apart DEF SignInInv, Types
  <2>2. account[v].phone # None => account[v].phone \in Numbers
    BY <2>1 DEF Account
  <2>3. /\ account[v].phone # None => phoneUser[account[v].phone] = v
        /\ account[v].email # None =>
             \E g \in Subjects : EmailOf[g] = account[v].email /\ googleUser[g] = v
    BY DEF SignInInv, RowInv, ContactsAreProven
  <2> QED BY <2>1, <2>2, <2>3 DEF Grows
<1> QED BY <1>1, <1>2 DEF ContactsAreProven

LEMMA PhoneTaken ==
  ASSUME SignInInv, Grows, NEW u \in Users, NEW n \in Numbers, phoneUser'[n] = u,
         account' = [account EXCEPT ![u].phone = IF @ = None THEN n ELSE @]
  PROVE  ContactsAreProven' /\ account' \in [Users -> Account]
<1> DEFINE h == [account[u] EXCEPT !.phone = IF account[u].phone = None THEN n ELSE account[u].phone]
<1>1. account[u] \in Account /\ u # None
  BY Apart DEF SignInInv, Types
<1>2. /\ h \in Account /\ h.email = account[u].email
      /\ h.phone = n \/ (h.phone = account[u].phone /\ h.phone \in Numbers)
  BY <1>1 DEF Account
<1>3. account' = [account EXCEPT ![u] = h]
  OBVIOUS
<1> HIDE DEF h
<1>4. /\ account[u].phone # None => phoneUser[account[u].phone] = u
      /\ account[u].email # None =>
           \E g \in Subjects : EmailOf[g] = account[u].email /\ googleUser[g] = u
  BY DEF SignInInv, RowInv, ContactsAreProven
<1>5. /\ h.phone # None => phoneUser'[h.phone] = u
      /\ h.email # None => \E g \in Subjects : EmailOf[g] = h.email /\ googleUser'[g] = u
  BY <1>1, <1>2, <1>4 DEF Grows
<1> QED BY <1>2, <1>3, <1>5, Contacts

LEMMA EmailTaken ==
  ASSUME SignInInv, Grows, NEW u \in Users, NEW g \in Subjects, googleUser'[g] = u,
         account' = [account EXCEPT ![u].email = IF @ = None THEN EmailOf[g] ELSE @]
  PROVE  ContactsAreProven' /\ account' \in [Users -> Account]
<1> DEFINE h == [account[u] EXCEPT !.email =
                   IF account[u].email = None THEN EmailOf[g] ELSE account[u].email]
<1>1. account[u] \in Account /\ u # None /\ EmailOf[g] \in Emails
  BY Apart DEF SignInInv, Types, Emails
<1>2. /\ h \in Account /\ h.phone = account[u].phone
      /\ h.email = EmailOf[g] \/ h.email = account[u].email
  BY <1>1 DEF Account
<1>3. account' = [account EXCEPT ![u] = h]
  OBVIOUS
<1> HIDE DEF h
<1>4. /\ account[u].phone # None => account[u].phone \in Numbers /\ phoneUser[account[u].phone] = u
      /\ account[u].email # None =>
           \E d \in Subjects : EmailOf[d] = account[u].email /\ googleUser[d] = u
  BY <1>1 DEF SignInInv, RowInv, ContactsAreProven, Account
<1>5. /\ h.phone # None => phoneUser'[h.phone] = u
      /\ h.email # None => \E d \in Subjects : EmailOf[d] = h.email /\ googleUser'[d] = u
  BY <1>1, <1>2, <1>4 DEF Grows
<1> QED BY <1>2, <1>3, <1>5, Contacts

LEMMA AccountMade ==
  ASSUME SignInInv, Grows, NEW u \in Users, NEW n \in Numbers \cup {None}, NEW e \in Emails \cup {None},
         account' = [account EXCEPT ![u] = [exists |-> TRUE, phone |-> n, email |-> e]],
         n # None => phoneUser'[n] = u,
         e # None => \E g \in Subjects : EmailOf[g] = e /\ googleUser'[g] = u
  PROVE  ContactsAreProven' /\ account' \in [Users -> Account]
<1> DEFINE h == [exists |-> TRUE, phone |-> n, email |-> e]
<1>1. h \in Account /\ h.phone = n /\ h.email = e
  BY DEF Account
<1>2. account' = [account EXCEPT ![u] = h]
  OBVIOUS
<1> HIDE DEF h
<1> QED BY <1>1, <1>2, Contacts

LEMMA GrowsFrom ==
  ASSUME ChallengesGrow, UNCHANGED authorization,
         \A n \in Numbers : phoneUser[n] # None => phoneUser'[n] = phoneUser[n],
         \A g \in Subjects : googleUser[g] # None => googleUser'[g] = googleUser[g]
  PROVE  Grows
BY DEF Grows, ChallengesGrow

(* A transaction that has read holds the lock that guards its challenge.   *)
LEMMA HoldsGuard ==
  ASSUME SignInInv, NEW r \in Requests, request[r].read # "unread"
  PROVE  /\ request[r] \in RequestState /\ Fit(request[r]) /\ Verdict(request[r])
         /\ request[r].want = <<>> /\ request[r].pc \in Transactions
         /\ request[r].pc \in Guarded => lock[Guard(request[r])] = r
BY DEF SignInInv, Types, RequestInv, Locking
-----------------------------------------------------------------------------
(* The steps of a phone number that write.                                 *)
LEMMA ClaimKeeps ==
  ASSUME SignInInv, NEW r \in Requests, Claim(r)
  PROVE  SignInInv'
<1> DEFINE c == request[r].challenge
           h == [challenge[c] EXCEPT !.attempts = @ + 1]
<1>1. request[r].pc = "claim" /\ request[r].read = "fine"
  BY DEF Claim, Writing
<1>2. /\ request[r] \in RequestState /\ Fit(request[r]) /\ request[r].want = <<>>
      /\ challenge[c].attempts < MaxAttempts /\ lock[<<"verify", c>>] = r
      /\ c \in Challenges /\ challenge[c].status # "none" /\ request[r].proof \in Tokens
  BY <1>1, HoldsGuard DEF Verdict, Guard, Guarded, Fit, OfPhone
<1>3. challenge[c] \in Challenge /\ ChallengeFits(c) /\ challenge[c].attempts \in Nat
  BY <1>2 DEF SignInInv, Types, RowInv, Challenge
<1>4. /\ h \in Challenge /\ h.attempts = challenge[c].attempts + 1
      /\ h.status = challenge[c].status /\ h.number = challenge[c].number
      /\ h.token = challenge[c].token
  BY <1>3 DEF Challenge
<1>5. challenge' = [challenge EXCEPT ![c] = h]
  BY DEF Claim
<1>6. UNCHANGED <<authorization, identities, session>> /\ ReleaseAll(r)
  BY DEF Claim
<1> HIDE DEF h
<1>7. /\ h.number \in Numbers /\ h.attempts <= MaxAttempts
      /\ h.token # None =>
           /\ NumberOf[h.token] = h.number
           /\ \A d \in Challenges \ {c} : challenge[d].token # h.token
  BY <1>2, <1>3, <1>4, Apart DEF ChallengeFits
<1>8. /\ challenge' \in [Challenges -> Challenge] /\ challenge'[c] = h
      /\ \A d \in Challenges \ {c} : challenge'[d] = challenge[d]
      /\ \A d \in Challenges : ChallengeFits(d)'
      /\ \A a \in Authorizations : AuthorizationFits(a)'
      /\ SubmissionsWithinCap' /\ ChallengesGrow
  BY <1>2, <1>4, <1>5, <1>6, <1>7, ChallengeChanges
<1>9. Grows
  BY <1>6, <1>8, GrowsFrom DEF identities
<1>10. Spares(r)
  BY <1>2, <1>4, <1>8 DEF Spares
<1>11. PICK q \in RequestState :
         /\ request' = [request EXCEPT ![r] = q]
         /\ q.pc = "ask" /\ q.read = "unread" /\ q.want = <<>>
         /\ q.challenge = c /\ q.proof = request[r].proof
  <2>1. Types /\ "ask" \in Steps /\ GoOn(r, "ask", request[r])
    BY DEF SignInInv, Steps, Claim
  <2> QED BY <1>2, <2>1, Onward
<1>12. Turn(r, q)
  BY <1>6, <1>11 DEF Turn, Ends, Transactions
<1>13. Fit(q)' /\ Verdict(q)'
  BY <1>2, <1>8, <1>11 DEF Fit, Verdict, OfPhone, OfGoogle, ChallengesGrow
<1>14. ProofKept(r, q)
  BY <1>2, <1>11, Apart DEF ProofKept
<1>15. RowTypes' /\ RowInv'
  BY <1>6, <1>8 DEF RowTypes, RowInv, SignInInv, Types, identities, ContactsAreProven
<1> QED BY <1>6, <1>9, <1>10, <1>12, <1>13, <1>14, <1>15, QuietOfSessions DEF Move

LEMMA RecordKeeps ==
  ASSUME SignInInv, NEW r \in Requests, Record(r)
  PROVE  SignInInv'
<1> DEFINE c == request[r].challenge
           t == request[r].proof
           next == IF request[r].user = None THEN "complete" ELSE "link"
<1>1. /\ request[r].pc = "record" /\ request[r] \in RequestState /\ Fit(request[r]) /\ Locking(r)
      /\ request[r].want = <<>> /\ t \in Tokens /\ NumberOf[t] = challenge[c].number
      /\ c \in Challenges /\ challenge[c].status # "none"
  BY DEF Record, SignInInv, Types, RequestInv, Locking, Transactions, Fit, OfPhone
<1>2. /\ challenge[c] \in Challenge /\ ChallengeFits(c) /\ challenge[c].number \in Numbers
      /\ challenge[c].attempts <= MaxAttempts
  BY <1>1 DEF SignInInv, Types, RowInv, ChallengeFits, SubmissionsWithinCap
<1>3. UNCHANGED <<authorization, identities, session, lock>>
  BY DEF Record
<1>4. CASE UNCHANGED challenge /\ GoOn(r, "rest", AtRest)
  <2>1. /\ AtRest \in RequestState /\ AtRest.want = <<>> /\ Types /\ "rest" \in Steps
    BY DEF AtRest, RequestState, Steps, Readings, SignInInv
  <2>2. PICK q \in RequestState :
          /\ request' = [request EXCEPT ![r] = q]
          /\ q.pc = "rest" /\ q.read = "unread" /\ q.want = <<>>
    BY <1>4, <2>1, Onward
  <2>3. Turn(r, q)
    BY <1>1, <1>3, <2>2 DEF Turn, Begins, Ordered, Guarded, Transactions
  <2>4. Fit(q) /\ Verdict(q) /\ ProofKept(r, q)
    BY <2>2 DEF Fit, Verdict, OfPhone, OfGoogle, ProofKept
  <2> QED BY <1>3, <1>4, <2>3, <2>4, QuietOfRows
<1>5. CASE /\ challenge[c].status # "consumed" /\ challenge[c].token \in {None, t}
           /\ TokenUnused(c, t)
           /\ challenge' = [challenge EXCEPT ![c].token = t]
           /\ GoOn(r, next, [request[r] EXCEPT !.want = LocksOf(next, c, None, None)])
  <2> DEFINE h == [challenge[c] EXCEPT !.token = t]
             w == LocksOf(next, c, None, None)
             p == [request[r] EXCEPT !.want = w]
  <2>1. /\ h \in Challenge /\ h.attempts = challenge[c].attempts
        /\ h.status = challenge[c].status /\ h.number = challenge[c].number
        /\ h.token = t
    BY <1>1, <1>2 DEF Challenge
  <2>2. challenge' = [challenge EXCEPT ![c] = h]
    BY <1>5
  <2>3. \A d \in Challenges \ {c} : challenge[d].token # t
    BY <1>5 DEF TokenUnused
  <2> HIDE DEF h
  <2>4. /\ challenge' \in [Challenges -> Challenge] /\ challenge'[c] = h
        /\ \A d \in Challenges \ {c} : challenge'[d] = challenge[d]
        /\ \A d \in Challenges : ChallengeFits(d)'
        /\ \A a \in Authorizations : AuthorizationFits(a)'
        /\ SubmissionsWithinCap' /\ ChallengesGrow
    <3>1. /\ h.number \in Numbers /\ h.attempts <= MaxAttempts /\ h.status # "none"
          /\ challenge[c].token # None => h.token = challenge[c].token
          /\ h.token # None =>
               /\ NumberOf[h.token] = h.number
               /\ \A d \in Challenges \ {c} : challenge[d].token # h.token
      BY <1>1, <1>2, <1>5, <2>1, <2>3
    <3> QED BY <1>1, <1>3, <2>1, <2>2, <3>1, ChallengeChanges
  <2>5. Grows
    BY <1>3, <2>4, GrowsFrom DEF identities
  <2>6. Spares(r)
    BY <1>1, <2>1, <2>4 DEF Spares
  <2>7. /\ w \in Seq(Locks) /\ Ordered(w)
        /\ next \in Guarded => w # <<>> /\ Head(w) = <<"complete", c>>
        /\ next \in Steps /\ next \in {"complete", "link"} /\ Types
    <3>1. /\ next \in {"complete", "link"} /\ next \in Transactions /\ next # "claim"
          /\ next \notin {"google", "linkGoogle", "continue"}
      BY DEF Transactions
    <3> HIDE DEF next
    <3> QED BY <1>1, <1>2, <3>1, LockLists DEF Steps, SignInInv
  <2>8. next = "link" => request[r].user \in Users
    BY <1>1 DEF RequestState
  <2> HIDE DEF w, next
  <2>9. /\ p \in RequestState /\ p.challenge = c /\ p.proof = t /\ p.want = w
        /\ p.user = request[r].user
    BY <1>1, <2>7 DEF RequestState
  <2>10. GoOn(r, next, p)
    BY <1>5 DEF w
  <2> HIDE DEF p
  <2>11. PICK q \in RequestState :
           /\ request' = [request EXCEPT ![r] = q]
           /\ q.pc = next /\ q.read = "unread" /\ q.want = w
           /\ q.challenge = c /\ q.proof = t /\ q.user = request[r].user
    BY <2>7, <2>9, <2>10, Onward
  <2>12. Turn(r, q)
    BY <1>1, <1>3, <2>7, <2>11 DEF Turn, Begins, Guard, Guarded, Transactions
  <2>13. Fit(q)' /\ Verdict(q)'
    BY <1>1, <2>1, <2>4, <2>7, <2>8, <2>11 DEF Fit, Verdict, OfPhone, OfGoogle
  <2>14. ProofKept(r, q)
    BY <1>1, <2>11, Apart DEF ProofKept
  <2>15. RowTypes' /\ RowInv'
    BY <1>3, <2>4 DEF RowTypes, RowInv, SignInInv, Types, identities, ContactsAreProven
  <2> QED BY <1>3, <2>5, <2>6, <2>12, <2>13, <2>14, <2>15, QuietOfSessions DEF Move
<1> QED BY <1>4, <1>5 DEF Record

LEMMA AnswerUnknownKeeps ==
  ASSUME SignInInv, NEW r \in Requests, AnswerUnknown(r)
  PROVE  SignInInv'
<1> DEFINE c == request[r].challenge
<1>1. /\ UNCHANGED <<authorization, identities, session>> /\ Finish(r)
      /\ UNCHANGED challenge \/ Consume(c)
      /\ request[r].pc = "complete" /\ request[r].read # "unread"
  BY DEF AnswerUnknown, Writing
<1>2. CASE UNCHANGED challenge
  BY <1>1, <1>2, EndKeeps
<1>3. CASE Consume(c)
  <2>1. /\ lock[<<"complete", c>>] = r /\ c \in Challenges /\ challenge[c].status # "none"
    BY <1>1, HoldsGuard DEF Guard, Guarded, Fit, OfPhone
  <2>2. /\ challenge' \in [Challenges -> Challenge]
        /\ \A d \in Challenges : challenge'[d].attempts = challenge[d].attempts
        /\ \A d \in Challenges \ {c} : challenge'[d] = challenge[d]
        /\ \A d \in Challenges : ChallengeFits(d)'
        /\ \A a \in Authorizations : AuthorizationFits(a)'
        /\ SubmissionsWithinCap' /\ ChallengesGrow
    BY <1>1, <1>3, <2>1, Consumes
  <2>3. Grows
    BY <1>1, <2>2, GrowsFrom DEF identities
  <2>4. Spares(r)
    BY <2>1, <2>2 DEF Spares
  <2>5. RowTypes' /\ RowInv'
    BY <1>1, <2>2 DEF RowTypes, RowInv, SignInInv, Types, identities, ContactsAreProven
  <2>6. Move(r, AtRest)
    BY <1>1, <2>3, <2>4, Ender DEF Move
  <2> QED BY <1>1, <2>5, <2>6, QuietOfSessions
<1> QED BY <1>1, <1>2, <1>3

LEMMA LinkPhoneKeeps ==
  ASSUME SignInInv, NEW r \in Requests, LinkPhone(r)
  PROVE  SignInInv'
<1> DEFINE c == request[r].challenge
           n == challenge[c].number
           u == request[r].user
<1>1. /\ request[r].pc = "link" /\ request[r].read # "unread" /\ Finish(r)
      /\ UNCHANGED <<challenge, authorization, googleUser, session>>
  BY DEF LinkPhone, Writing
<1>2. c \in Challenges /\ u \in Users /\ n \in Numbers
  BY <1>1, HoldsGuard DEF Fit, OfPhone, SignInInv, RowInv, ChallengeFits
<1>3. CASE UNCHANGED <<phoneUser, account>>
  BY <1>1, <1>3, EndKeeps DEF identities
<1>4. CASE /\ NumberFree(n, u) /\ phoneUser' = [phoneUser EXCEPT ![n] = u]
           /\ account' = [account EXCEPT ![u].phone = IF @ = None THEN n ELSE @]
  <2>1. /\ phoneUser[n] = None /\ phoneUser'[n] = u
        /\ \A m \in Numbers \ {n} : phoneUser'[m] = phoneUser[m]
        /\ phoneUser' \in [Numbers -> Users \cup {None}]
    BY <1>2, <1>4 DEF NumberFree, SignInInv, Types
  <2>2. Grows
    BY <1>1, <2>1, GrowsFrom DEF ChallengesGrow
  <2>3. Spares(r)
    BY <1>1 DEF Spares
  <2>4. ContactsAreProven' /\ account' \in [Users -> Account]
    BY <1>2, <1>4, <2>1, <2>2, PhoneTaken
  <2>5. RowTypes' /\ RowInv'
    BY <1>1, <2>1, <2>4 DEF RowTypes, RowInv, SignInInv, Types, ChallengeFits, AuthorizationFits,
                            SubmissionsWithinCap
  <2>6. Move(r, AtRest)
    BY <1>1, <2>2, <2>3, Ender DEF Move
  <2> QED BY <1>1, <2>5, <2>6, QuietOfSessions
<1> QED BY <1>3, <1>4 DEF LinkPhone

(* A token of a challenge not used up has opened no session.               *)
LEMMA FreshToken ==
  ASSUME SignInInv, NEW c \in Challenges, challenge[c].status = "sent", challenge[c].token # None,
         NEW s \in Sessions
  PROVE  ~Opened(s, challenge[c].token)
<1>1. challenge[c].token \in Tokens /\ challenge[c].token \in Proofs /\ ChallengeFits(c)
  BY Apart DEF SignInInv, Types, Challenge, RowInv
<1> QED BY <1>1 DEF SignInInv, SessionInv, SpentProof, ChallengeFits

LEMMA AuthenticateKeeps ==
  ASSUME SignInInv, NEW r \in Requests, Authenticate(r)
  PROVE  SignInInv'
<1> DEFINE c == request[r].challenge
           n == challenge[c].number
           u == phoneUser[n]
           t == request[r].proof
<1>1. /\ request[r].pc = "complete" /\ request[r].read = "known" /\ Finish(r)
      /\ account' = [account EXCEPT ![u].phone = IF @ = None THEN n ELSE @]
      /\ NewSession(u, {t}) /\ Consume(c)
      /\ UNCHANGED <<authorization, phoneUser, googleUser>>
  BY DEF Authenticate, Writing
<1>2. /\ lock[<<"complete", c>>] = r /\ c \in Challenges
      /\ challenge[c].status = "sent" /\ challenge[c].token = t /\ t \in Tokens
      /\ NumberOf[t] = n /\ u # None
  BY <1>1, HoldsGuard DEF Guard, Guarded, Fit, Verdict, OfPhone
<1>3. n \in Numbers /\ u \in Users
  BY <1>2 DEF SignInInv, Types, RowInv, ChallengeFits
<1>4. /\ challenge' \in [Challenges -> Challenge]
      /\ challenge'[c].status = "consumed" /\ challenge'[c].token = t
      /\ \A d \in Challenges : challenge'[d].attempts = challenge[d].attempts
      /\ \A d \in Challenges \ {c} : challenge'[d] = challenge[d]
      /\ \A d \in Challenges : ChallengeFits(d)'
      /\ \A a \in Authorizations : AuthorizationFits(a)'
      /\ SubmissionsWithinCap' /\ ChallengesGrow
  BY <1>1, <1>2, Consumes
<1>5. Grows
  BY <1>1, <1>4, GrowsFrom
<1>6. Spares(r)
  BY <1>2, <1>4 DEF Spares
<1>7. ContactsAreProven' /\ account' \in [Users -> Account]
  BY <1>1, <1>3, <1>5, PhoneTaken
<1>8. RowTypes' /\ RowInv'
  BY <1>1, <1>4, <1>7 DEF RowTypes, RowInv, SignInInv, Types
<1>9. Move(r, AtRest) /\ ProofsStand
  BY <1>1, <1>5, <1>6, Ender, MoveKeepsProofs DEF Move
<1>10. SessionInv' /\ session' \in [Sessions -> Session \cup {None}]
  <2>1. PICK v, k : v = u /\ k = t
    OBVIOUS
  <2>2. Holder(k, v)' /\ SpentProof(k)'
    BY <1>1, <1>2, <1>4, <2>1, Apart DEF Holder, SpentProof
  <2>3. \A s \in Sessions : ~Opened(s, k)
    BY <1>2, <2>1, Apart, FreshToken
  <2>4. \A z \in Requests : UsesAuthorization(z)' => request'[z].proof # k
    BY <1>2, <2>1, Apart DEF UsesAuthorization
  <2>5. {k} \in SUBSET Proofs /\ v \in Users /\ NewSession(v, {k})
    BY <1>1, <1>2, <1>3, <2>1, Apart
  <2> QED BY <1>5, <1>9, <2>2, <2>3, <2>4, <2>5, SessionOpened
<1> QED BY <1>8, <1>9, <1>10, StepKeeps

LEMMA CreateAccountKeeps ==
  ASSUME SignInInv, NEW r \in Requests, CreateAccount(r)
  PROVE  SignInInv'
<1> DEFINE c == request[r].challenge
           n == challenge[c].number
           t == request[r].proof
<1>1. /\ request[r].pc = "create" /\ request[r].read = "new" /\ Finish(r)
      /\ UNCHANGED <<authorization, googleUser>>
  BY DEF CreateAccount, Writing
<1>2. CASE UNCHANGED <<account, phoneUser, session, challenge>>
  BY <1>1, <1>2, EndKeeps DEF identities
<1>3. ASSUME phoneUser[n] = None, NEW u \in Users, Consume(c),
             account' = [account EXCEPT ![u] = [exists |-> TRUE, phone |-> n, email |-> None]],
             phoneUser' = [phoneUser EXCEPT ![n] = u], NewSession(u, {t})
      PROVE  SignInInv'
  <2>1. /\ lock[<<"complete", c>>] = r /\ c \in Challenges
        /\ challenge[c].status = "sent" /\ challenge[c].token = t /\ t \in Tokens
        /\ NumberOf[t] = n
    BY <1>1, HoldsGuard DEF Guard, Guarded, Fit, Verdict, OfPhone
  <2>2. n \in Numbers
    BY <2>1 DEF SignInInv, RowInv, ChallengeFits
  <2>3. /\ challenge' \in [Challenges -> Challenge]
        /\ challenge'[c].status = "consumed" /\ challenge'[c].token = t
        /\ \A d \in Challenges : challenge'[d].attempts = challenge[d].attempts
        /\ \A d \in Challenges \ {c} : challenge'[d] = challenge[d]
        /\ \A d \in Challenges : ChallengeFits(d)'
        /\ \A a \in Authorizations : AuthorizationFits(a)'
        /\ SubmissionsWithinCap' /\ ChallengesGrow
    BY <1>1, <1>3, <2>1, Consumes
  <2>4. /\ phoneUser'[n] = u /\ \A m \in Numbers \ {n} : phoneUser'[m] = phoneUser[m]
        /\ phoneUser' \in [Numbers -> Users \cup {None}]
    BY <1>3, <2>2 DEF SignInInv, Types
  <2>5. Grows
    BY <1>1, <1>3, <2>3, <2>4, GrowsFrom
  <2>6. Spares(r)
    BY <2>1, <2>3 DEF Spares
  <2>7. ContactsAreProven' /\ account' \in [Users -> Account]
    BY <1>3, <2>2, <2>4, <2>5, AccountMade
  <2>8. RowTypes' /\ RowInv'
    BY <1>1, <2>3, <2>4, <2>7 DEF RowTypes, RowInv, SignInInv, Types
  <2>9. Move(r, AtRest) /\ ProofsStand
    BY <1>1, <2>5, <2>6, Ender, MoveKeepsProofs DEF Move
  <2>10. SessionInv' /\ session' \in [Sessions -> Session \cup {None}]
    <3>1. PICK k : k = t
      OBVIOUS
    <3>2. Holder(k, u)' /\ SpentProof(k)'
      BY <2>1, <2>3, <2>4, <3>1, Apart DEF Holder, SpentProof
    <3>3. \A s \in Sessions : ~Opened(s, k)
      BY <2>1, <3>1, Apart, FreshToken
    <3>4. \A z \in Requests : UsesAuthorization(z)' => request'[z].proof # k
      BY <2>1, <3>1, Apart DEF UsesAuthorization
    <3>5. {k} \in SUBSET Proofs /\ NewSession(u, {k})
      BY <1>3, <2>1, <3>1, Apart
    <3> QED BY <1>3, <2>5, <2>9, <3>2, <3>3, <3>4, <3>5, SessionOpened
  <2> QED BY <2>8, <2>9, <2>10, StepKeeps
<1> QED BY <1>2, <1>3 DEF CreateAccount
-----------------------------------------------------------------------------
(* The steps of Google that write.                                         *)
LEMMA CallbackKeeps ==
  ASSUME SignInInv, NEW r \in Requests, NEW a \in Authorizations, NEW g \in Subjects,
         Callback(r, a, g)
  PROVE  SignInInv'
<1> DEFINE next == CASE authorization[a].intent = "signIn" -> "google"
                     [] authorization[a].intent = "link" -> "linkGoogle"
                     [] OTHER -> "continue"
           c == authorization[a].challenge
           h == [authorization[a] EXCEPT !.status = "used", !.subject = g]
<1>1. /\ request[r].pc = "rest" /\ authorization[a].status = "open"
      /\ request[r] \in RequestState /\ Locking(r)
      /\ request[r].want = <<>> /\ request[r].read = "unread"
      /\ UNCHANGED <<challenge, identities, session, lock>>
  BY DEF Callback, StillOpen, SignInInv, Types, RequestInv, Locking, Transactions
<1>2. /\ authorization[a] \in Authorization /\ AuthorizationFits(a)
      /\ authorization[a].intent \in {"signIn", "link", "continue"}
  BY DEF SignInInv, Types, RowInv, Authorization
<1>3. /\ h \in Authorization /\ h.status = "used" /\ h.subject = g
      /\ h.intent = authorization[a].intent /\ h.user = authorization[a].user
      /\ h.challenge = authorization[a].challenge
  BY <1>2 DEF Authorization
<1>4. authorization' = [authorization EXCEPT ![a] = h]
  BY DEF Callback
<1> HIDE DEF h
<1>5. /\ authorization' \in [Authorizations -> Authorization] /\ authorization'[a] = h
      /\ \A b \in Authorizations \ {a} : authorization'[b] = authorization[b]
  BY <1>3, <1>4 DEF SignInInv, Types
<1>6. \A b \in Authorizations : AuthorizationFits(b)'
  BY <1>1, <1>2, <1>3, <1>5 DEF AuthorizationFits, SignInInv, RowInv
<1>7. RowTypes' /\ RowInv'
  BY <1>1, <1>5, <1>6 DEF RowTypes, RowInv, SignInInv, Types, identities, ChallengeFits,
                          SubmissionsWithinCap, ContactsAreProven
<1>8. Grows /\ Spares(r)
  BY <1>1, <1>5 DEF Grows, Spares, identities
<1>9. CASE UNCHANGED request
  <2>1. PICK q \in RequestState : q = request[r]
    BY <1>1
  <2>2. request' = [request EXCEPT ![r] = q]
    BY <1>9, <2>1 DEF SignInInv, Types
  <2>3. Turn(r, q)
    BY <1>1, <2>1, <2>2 DEF Turn, Begins, Ordered, Guarded, Transactions
  <2>4. Fit(q)' /\ Verdict(q)' /\ ProofKept(r, q)
    BY <1>1, <2>1 DEF Fit, Verdict, OfPhone, OfGoogle, ProofKept
  <2> QED BY <1>1, <1>7, <1>8, <2>3, <2>4, QuietOfSessions DEF Move
<1>10. CASE GoOn(r, next, [AtRest EXCEPT !.challenge = c, !.proof = a,
                                         !.user = authorization[a].user, !.want = LocksOf(next, c, g, None)])
  <2> DEFINE w == LocksOf(next, c, g, None)
             p == [AtRest EXCEPT !.challenge = c, !.proof = a, !.user = authorization[a].user, !.want = w]
  <2>1. /\ next \in {"google", "linkGoogle", "continue"} /\ next \in Transactions /\ next \in Steps
        /\ next = "linkGoogle" => authorization[a].user \in Users
        /\ next = "continue" =>
             c \in Challenges /\ challenge[c].status # "none" /\ challenge[c].number \in Numbers
    <3>1. /\ next \in {"google", "linkGoogle", "continue"}
          /\ next = "linkGoogle" => authorization[a].intent = "link"
          /\ next = "continue" => authorization[a].intent = "continue"
      BY <1>2
    <3> HIDE DEF next
    <3>2. next = "linkGoogle" => authorization[a].user \in Users
      BY <1>1, <1>2, <3>1 DEF AuthorizationFits
    <3>3. next = "continue" =>
            c \in Challenges /\ challenge[c].status # "none" /\ challenge[c].number \in Numbers
      BY <1>1, <1>2, <3>1 DEF AuthorizationFits, SignInInv, RowInv, ChallengeFits
    <3> QED BY <3>1, <3>2, <3>3 DEF Transactions, Steps
  <2> HIDE DEF next
  <2>2. /\ w \in Seq(Locks) /\ Ordered(w)
        /\ next \in Guarded => w # <<>> /\ Head(w) = <<"complete", c>>
    BY <2>1, LockLists
  <2> HIDE DEF w
  <2>3. /\ p \in RequestState /\ p.challenge = c /\ p.proof = a /\ p.want = w
        /\ p.user = authorization[a].user
    BY <1>2, <2>2, Apart DEF RequestState, AtRest, Steps, Readings, Authorization
  <2>4. GoOn(r, next, p)
    BY <1>10 DEF w
  <2> HIDE DEF p
  <2>5. PICK q \in RequestState :
          /\ request' = [request EXCEPT ![r] = q]
          /\ q.pc = next /\ q.read = "unread" /\ q.want = w
          /\ q.challenge = c /\ q.proof = a /\ q.user = authorization[a].user
    <3>1. Types
      BY DEF SignInInv
    <3> QED BY <2>1, <2>3, <2>4, <3>1, Onward
  <2>6. Turn(r, q)
    BY <1>1, <2>1, <2>2, <2>5 DEF Turn, Begins, Guard, Guarded, Transactions
  <2>7. Fit(q)' /\ Verdict(q)'
    BY <1>1, <1>3, <1>5, <2>1, <2>5 DEF Fit, Verdict, OfPhone, OfGoogle
  <2>8. ProofKept(r, q)
    BY <1>1, <2>5 DEF ProofKept
  <2> QED BY <1>1, <1>7, <1>8, <2>6, <2>7, <2>8, QuietOfSessions DEF Move
<1> QED BY <1>9, <1>10 DEF Callback

LEMMA OfAuthorization ==
  ASSUME SignInInv, NEW r \in Requests, request[r].pc \in OfGoogle
  PROVE  /\ request[r] \in RequestState /\ request[r].proof \in Authorizations
         /\ UsesAuthorization(r) /\ authorization[request[r].proof].status = "used"
         /\ authorization[request[r].proof].subject \in Subjects
<1>1. /\ request[r] \in RequestState /\ Fit(request[r])
      /\ \A a \in Authorizations : AuthorizationFits(a)
  BY DEF SignInInv, Types, RequestInv, RowInv
<1> QED BY <1>1 DEF Fit, OfGoogle, UsesAuthorization, AuthorizationFits

LEMMA ResolveGoogleKeeps ==
  ASSUME SignInInv, NEW r \in Requests, ResolveGoogle(r)
  PROVE  SignInInv'
<1> DEFINE a == request[r].proof
           g == authorization[a].subject
<1>1. /\ request[r].pc = "google" /\ request[r].read # "unread" /\ ReleaseAll(r)
      /\ UNCHANGED <<challenge, authorization, phoneUser, session>>
  BY DEF ResolveGoogle, Writing
<1>2. /\ request[r] \in RequestState /\ request[r].want = <<>>
      /\ a \in Authorizations /\ UsesAuthorization(r) /\ g \in Subjects
      /\ authorization[a].status = "used"
  BY <1>1, HoldsGuard, OfAuthorization DEF OfGoogle
<1>3. PICK u \in Users :
        /\ GoOn(r, "issue", [request[r] EXCEPT !.user = u])
        /\ \/ googleUser[g] = u /\ UNCHANGED <<account, googleUser>>
           \/ Creates(u, g, None)
  <2>1. CASE Writing(r, "google", "known")
    <3>1. googleUser[g] # None
      BY <1>2, <2>1 DEF SignInInv, RequestInv, Verdict, Writing
    <3>2. googleUser[g] \in Users
      BY <1>2, <3>1 DEF SignInInv, Types
    <3> QED BY <2>1, <3>2 DEF ResolveGoogle, Writing
  <2>2. CASE Writing(r, "google", "new")
    BY <2>2 DEF ResolveGoogle, Writing
  <2> QED BY <2>1, <2>2 DEF ResolveGoogle
<1>4. /\ googleUser'[g] = u /\ googleUser' \in [Subjects -> Users \cup {None}]
      /\ Grows
  <2>1. CASE googleUser[g] = u /\ UNCHANGED <<account, googleUser>>
    BY <1>1, <2>1, GrowsFrom DEF ChallengesGrow, SignInInv, Types
  <2>2. CASE Creates(u, g, None)
    <3>1. /\ googleUser[g] = None /\ googleUser'[g] = u
          /\ \A d \in Subjects \ {g} : googleUser'[d] = googleUser[d]
          /\ googleUser' \in [Subjects -> Users \cup {None}]
      BY <1>2, <2>2 DEF Creates, SignInInv, Types
    <3>2. Grows
      BY <1>1, <3>1, GrowsFrom DEF ChallengesGrow
    <3> QED BY <3>1, <3>2
  <2> QED BY <1>3, <2>1, <2>2
<1>5. ContactsAreProven' /\ account' \in [Users -> Account]
  <2>1. CASE googleUser[g] = u /\ UNCHANGED <<account, googleUser>>
    BY <1>1, <2>1 DEF SignInInv, Types, RowInv, ContactsAreProven
  <2>2. CASE Creates(u, g, None)
    <3>1. EmailOf[g] \in Emails
      BY <1>2 DEF Emails
    <3>2. account' = [account EXCEPT ![u] = [exists |-> TRUE, phone |-> None, email |-> EmailOf[g]]]
      BY <2>2 DEF Creates
    <3>3. \E d \in Subjects : EmailOf[d] = EmailOf[g] /\ googleUser'[d] = u
      BY <1>2, <1>4
    <3>4. PICK e \in Emails \cup {None}, n \in Numbers \cup {None} : e = EmailOf[g] /\ n = None
      BY <3>1
    <3>5. account' = [account EXCEPT ![u] = [exists |-> TRUE, phone |-> n, email |-> e]]
      BY <3>2, <3>4
    <3> QED BY <1>4, <3>3, <3>4, <3>5, AccountMade
  <2> QED BY <1>3, <2>1, <2>2
<1>6. RowTypes' /\ RowInv'
  BY <1>1, <1>4, <1>5 DEF RowTypes, RowInv, SignInInv, Types, ChallengeFits, AuthorizationFits,
                          SubmissionsWithinCap
<1>7. Spares(r)
  BY <1>1 DEF Spares
<1> DEFINE p == [request[r] EXCEPT !.user = u]
<1>8. /\ p \in RequestState /\ p.proof = a /\ p.want = <<>> /\ p.user = u /\ GoOn(r, "issue", p)
  BY <1>2, <1>3 DEF RequestState
<1> HIDE DEF p
<1>9. PICK q \in RequestState :
        /\ request' = [request EXCEPT ![r] = q]
        /\ q.pc = "issue" /\ q.read = "unread" /\ q.want = <<>> /\ q.proof = a /\ q.user = u
  <2>1. Types /\ "issue" \in Steps
    BY DEF SignInInv, Steps
  <2> QED BY <1>8, <2>1, Onward
<1>10. Turn(r, q)
  BY <1>1, <1>9 DEF Turn, Ends, Transactions
<1>11. Fit(q)' /\ Verdict(q)'
  BY <1>1, <1>2, <1>4, <1>9 DEF Fit, Verdict, OfPhone, OfGoogle
<1>12. ProofKept(r, q)
  BY <1>2, <1>9 DEF ProofKept
<1> QED BY <1>1, <1>4, <1>6, <1>7, <1>10, <1>11, <1>12, QuietOfSessions DEF Move

(* The authorization of a request opened no session and serves no other.   *)
LEMMA FreshAuthorization ==
  ASSUME SignInInv, NEW r \in Requests, UsesAuthorization(r), Finish(r)
  PROVE  /\ \A s \in Sessions : ~Opened(s, request[r].proof)
         /\ \A z \in Requests : UsesAuthorization(z)' => request'[z].proof # request[r].proof
<1>1. /\ request'[r] = AtRest /\ \A z \in Requests \ {r} : request'[z] = request[z]
  BY Ender, TurnFacts DEF SignInInv
<1>2. \A z \in Requests : UsesAuthorization(z)' => request'[z].proof # request[r].proof
  BY <1>1 DEF UsesAuthorization, SignInInv, RequestInv, AtRest
<1> QED BY <1>2 DEF SignInInv, SessionInv

LEMMA IssueSessionKeeps ==
  ASSUME SignInInv, NEW r \in Requests, IssueSession(r)
  PROVE  SignInInv'
<1>1. /\ request[r].pc = "issue" /\ Finish(r) /\ NewSession(request[r].user, {request[r].proof})
      /\ UNCHANGED <<challenge, authorization, account, phoneUser, googleUser>>
  BY DEF IssueSession, identities
<1>2. PICK a, u : a = request[r].proof /\ u = request[r].user
  OBVIOUS
<1>3. /\ a \in Authorizations /\ authorization[a].status = "used" /\ UsesAuthorization(r)
      /\ u \in Users /\ googleUser[authorization[a].subject] = u
  BY <1>1, <1>2, OfAuthorization DEF OfGoogle, Fit, SignInInv, RequestInv
<1>4. Grows /\ Spares(r)
  BY <1>1, Standing
<1>5. RowTypes' /\ RowInv'
  BY <1>1 DEF RowTypes, RowInv, SignInInv, Types, ChallengeFits, AuthorizationFits,
              SubmissionsWithinCap, ContactsAreProven
<1>6. Move(r, AtRest) /\ ProofsStand
  BY <1>1, <1>4, Ender, MoveKeepsProofs DEF Move
<1>7. SessionInv' /\ session' \in [Sessions -> Session \cup {None}]
  <2>1. Holder(a, u)' /\ SpentProof(a)'
    BY <1>1, <1>3, Apart DEF Holder, SpentProof
  <2>2. /\ \A s \in Sessions : ~Opened(s, a)
        /\ \A z \in Requests : UsesAuthorization(z)' => request'[z].proof # a
    BY <1>1, <1>2, <1>3, FreshAuthorization
  <2>3. {a} \in SUBSET Proofs /\ NewSession(u, {a})
    BY <1>1, <1>2, <1>3, Apart
  <2> QED BY <1>3, <1>4, <1>6, <2>1, <2>2, <2>3, SessionOpened
<1> QED BY <1>5, <1>6, <1>7, StepKeeps

LEMMA LinkGoogleKeeps ==
  ASSUME SignInInv, NEW r \in Requests, LinkGoogle(r)
  PROVE  SignInInv'
<1> DEFINE g == authorization[request[r].proof].subject
           u == request[r].user
<1>1. /\ request[r].pc = "linkGoogle" /\ Finish(r)
      /\ UNCHANGED <<challenge, authorization, phoneUser, session>>
  BY DEF LinkGoogle, Writing
<1>2. u \in Users /\ g \in Subjects
  BY <1>1, OfAuthorization DEF OfGoogle, Fit, SignInInv, RequestInv
<1>3. CASE UNCHANGED <<googleUser, account>>
  BY <1>1, <1>3, EndKeeps DEF identities
<1>4. CASE /\ googleUser[g] = None /\ googleUser' = [googleUser EXCEPT ![g] = u]
           /\ account' = [account EXCEPT ![u].email = IF @ = None THEN EmailOf[g] ELSE @]
  <2>1. /\ googleUser'[g] = u
        /\ \A d \in Subjects \ {g} : googleUser'[d] = googleUser[d]
        /\ googleUser' \in [Subjects -> Users \cup {None}]
    BY <1>2, <1>4 DEF SignInInv, Types
  <2>2. Grows
    BY <1>1, <1>4, <2>1, GrowsFrom DEF ChallengesGrow
  <2>3. Spares(r)
    BY <1>1 DEF Spares
  <2>4. ContactsAreProven' /\ account' \in [Users -> Account]
    BY <1>2, <1>4, <2>1, <2>2, EmailTaken
  <2>5. RowTypes' /\ RowInv'
    BY <1>1, <2>1, <2>4 DEF RowTypes, RowInv, SignInInv, Types, ChallengeFits, AuthorizationFits,
                            SubmissionsWithinCap
  <2>6. Move(r, AtRest)
    BY <1>1, <2>2, <2>3, Ender DEF Move
  <2> QED BY <1>1, <2>5, <2>6, QuietOfSessions
<1> QED BY <1>3, <1>4 DEF LinkGoogle

LEMMA ContinueKeeps ==
  ASSUME SignInInv, NEW r \in Requests, Continue(r)
  PROVE  SignInInv'
<1> DEFINE c == request[r].challenge
           n == challenge[c].number
           g == authorization[request[r].proof].subject
<1>1. /\ request[r].pc = "continue" /\ request[r].read \in {"known", "new"}
      /\ Finish(r) /\ UNCHANGED authorization
  BY DEF Continue, Writing
<1>2. PICK a, t : a = request[r].proof /\ t = challenge[c].token
  OBVIOUS
<1>3. /\ lock[<<"complete", c>>] = r /\ c \in Challenges
      /\ challenge[c].status = "sent" /\ t # None
      /\ request[r].read = "known" => googleUser[g] # None
  BY <1>1, <1>2, HoldsGuard DEF Guard, Guarded, Fit, Verdict
<1>4. n \in Numbers /\ t \in Tokens /\ NumberOf[t] = n
  BY <1>2, <1>3 DEF SignInInv, Types, RowInv, ChallengeFits, Challenge
<1>5. /\ a \in Authorizations /\ authorization[a].status = "used" /\ UsesAuthorization(r)
      /\ g \in Subjects /\ g = authorization[a].subject
  BY <1>1, <1>2, OfAuthorization DEF OfGoogle
<1>6. PICK u \in Users :
        /\ phoneUser[n] \in {None, u}
        /\ phoneUser' = [phoneUser EXCEPT ![n] = IF @ = None THEN u ELSE @]
        /\ NewSession(u, {a, t}) /\ Consume(c)
        /\ \/ /\ googleUser[g] = u /\ UNCHANGED googleUser
              /\ account' = [account EXCEPT ![u].phone = IF @ = None THEN n ELSE @]
           \/ Creates(u, g, n)
  <2>1. CASE Writing(r, "continue", "known")
    <3>1. googleUser[g] \in Users
      BY <1>3, <1>5, <2>1 DEF SignInInv, Types, Writing
    <3>2. /\ ~Conflict(n, googleUser[g]) /\ UNCHANGED googleUser
          /\ account' = [account EXCEPT ![googleUser[g]].phone = IF @ = None THEN n ELSE @]
          /\ phoneUser' = [phoneUser EXCEPT ![n] = IF @ = None THEN googleUser[g] ELSE @]
          /\ NewSession(googleUser[g], {a, t}) /\ Consume(c)
      BY <1>2, <2>1 DEF Continue, Writing
    <3>3. phoneUser[n] \in {None, googleUser[g]}
      BY <3>1, <3>2, Apart DEF Conflict, NumberFree
    <3> QED BY <3>1, <3>2, <3>3
  <2>2. CASE Writing(r, "continue", "new")
    <3>1. PICK u \in Users :
            /\ ~Conflict(n, None) /\ Creates(u, g, n)
            /\ phoneUser' = [phoneUser EXCEPT ![n] = IF @ = None THEN u ELSE @]
            /\ NewSession(u, {a, t}) /\ Consume(c)
      BY <1>2, <2>2 DEF Continue, Writing
    <3>2. phoneUser[n] = None
      BY <3>1 DEF Conflict, NumberFree
    <3> QED BY <3>1, <3>2
  <2> QED BY <2>1, <2>2 DEF Continue
<1>7. /\ challenge' \in [Challenges -> Challenge]
      /\ challenge'[c].status = "consumed" /\ challenge'[c].token = t
      /\ \A d \in Challenges : challenge'[d].attempts = challenge[d].attempts
      /\ \A d \in Challenges \ {c} : challenge'[d] = challenge[d]
      /\ \A d \in Challenges : ChallengeFits(d)'
      /\ \A b \in Authorizations : AuthorizationFits(b)'
      /\ SubmissionsWithinCap' /\ ChallengesGrow
  BY <1>1, <1>2, <1>3, <1>6, Consumes
<1>8. /\ phoneUser'[n] = u /\ \A m \in Numbers \ {n} : phoneUser'[m] = phoneUser[m]
      /\ phoneUser' \in [Numbers -> Users \cup {None}]
  BY <1>4, <1>6, Apart DEF SignInInv, Types
<1>9. /\ googleUser'[g] = u /\ googleUser[g] \in {None, u}
      /\ \A d \in Subjects \ {g} : googleUser'[d] = googleUser[d]
      /\ googleUser' \in [Subjects -> Users \cup {None}]
  BY <1>5, <1>6 DEF Creates, SignInInv, Types
<1>10. Grows
  BY <1>1, <1>6, <1>7, <1>8, <1>9, GrowsFrom
<1>11. Spares(r)
  BY <1>3, <1>7 DEF Spares
<1>12. ContactsAreProven' /\ account' \in [Users -> Account]
  <2>1. CASE account' = [account EXCEPT ![u].phone = IF @ = None THEN n ELSE @]
    BY <1>4, <1>8, <1>10, <2>1, PhoneTaken
  <2>2. CASE Creates(u, g, n)
    <3>1. PICK e \in Emails \cup {None}, m \in Numbers \cup {None} : e = EmailOf[g] /\ m = n
      BY <1>4, <1>5 DEF Emails
    <3>2. account' = [account EXCEPT ![u] = [exists |-> TRUE, phone |-> m, email |-> e]]
      BY <2>2, <3>1 DEF Creates
    <3>3. phoneUser'[m] = u /\ \E d \in Subjects : EmailOf[d] = e /\ googleUser'[d] = u
      BY <1>5, <1>8, <1>9, <3>1
    <3> QED BY <1>10, <3>2, <3>3, AccountMade
  <2> QED BY <1>6, <2>1, <2>2
<1>13. RowTypes' /\ RowInv'
  BY <1>1, <1>7, <1>8, <1>9, <1>12 DEF RowTypes, RowInv, SignInInv, Types
<1>14. Move(r, AtRest) /\ ProofsStand
  BY <1>1, <1>10, <1>11, Ender, MoveKeepsProofs DEF Move
<1>15. SessionInv' /\ session' \in [Sessions -> Session \cup {None}]
  <2>1. Holder(t, u)' /\ SpentProof(t)'
    BY <1>3, <1>4, <1>7, <1>8, Apart DEF Holder, SpentProof
  <2>2. Holder(a, u)' /\ SpentProof(a)'
    BY <1>1, <1>5, <1>9, Apart DEF Holder, SpentProof
  <2>3. \A s \in Sessions : ~Opened(s, t)
    BY <1>2, <1>3, FreshToken
  <2>4. \A z \in Requests : UsesAuthorization(z)' => request'[z].proof # t
    BY <1>4, Apart DEF UsesAuthorization
  <2>5. /\ \A s \in Sessions : ~Opened(s, a)
        /\ \A z \in Requests : UsesAuthorization(z)' => request'[z].proof # a
    BY <1>1, <1>2, <1>5, FreshAuthorization
  <2>6. PICK P \in SUBSET Proofs : P = {a, t}
    BY <1>4, <1>5, Apart
  <2>7. \A p \in P : /\ Holder(p, u)' /\ SpentProof(p)'
                     /\ \A s \in Sessions : ~Opened(s, p)
                     /\ \A z \in Requests : UsesAuthorization(z)' => request'[z].proof # p
    <3>1. \A p \in P : p = a \/ p = t
      BY <2>6
    <3> QED BY <2>1, <2>2, <2>3, <2>4, <2>5, <3>1
  <2>8. NewSession(u, P)
    BY <1>6, <2>6
  <2> QED BY <1>10, <1>14, <2>7, <2>8, SessionOpened
<1> QED BY <1>13, <1>14, <1>15, StepKeeps
-----------------------------------------------------------------------------
(* The steps of nobody's request.                                          *)
LEMMA OutsideKeeps ==
  ASSUME SignInInv, Grows, Spares(None), UNCHANGED <<request, lock>>, RowTypes', RowInv',
         session' \in [Sessions -> Session \cup {None}], SessionsStand
  PROVE  SignInInv'
<1>1. RequestInv'
  BY RestKeepsRequests
<1>2. ProofsStand
  BY DEF ProofsStand, UsesAuthorization
<1>3. SessionInv'
  BY <1>2, SessionsKept
<1> QED BY <1>1, <1>3 DEF SignInInv, Types, RowTypes

LEMMA StartKeeps ==
  ASSUME SignInInv, NEW c \in Challenges, NEW n \in Numbers, Start(c, n)
  PROVE  SignInInv'
<1> DEFINE h == [NoChallenge EXCEPT !.status = "sent", !.number = n]
<1>1. /\ h \in Challenge /\ h.status = "sent" /\ h.number = n /\ h.token = None /\ h.attempts = 0
      /\ MaxAttempts \in Nat
  BY Apart DEF NoChallenge, Challenge
<1>2. /\ challenge[c].status = "none" /\ challenge[c].token = None
      /\ challenge' = [challenge EXCEPT ![c] = h]
      /\ UNCHANGED <<authorization, identities, session, request, lock>>
  BY DEF Start, SignInInv, RowInv, ChallengeFits
<1> HIDE DEF h
<1>3. /\ challenge' \in [Challenges -> Challenge] /\ challenge'[c] = h
      /\ \A d \in Challenges \ {c} : challenge'[d] = challenge[d]
      /\ \A d \in Challenges : ChallengeFits(d)'
      /\ \A a \in Authorizations : AuthorizationFits(a)'
      /\ SubmissionsWithinCap' /\ ChallengesGrow
  <2>1. h.attempts <= MaxAttempts
    BY <1>1
  <2> QED BY <1>1, <1>2, <2>1, ChallengeChanges
<1>4. Grows /\ Spares(None)
  BY <1>2, <1>3, GrowsFrom DEF identities, Spares
<1>5. RowTypes' /\ RowInv' /\ session' \in [Sessions -> Session \cup {None}] /\ SessionsStand
  BY <1>2, <1>3 DEF RowTypes, RowInv, SignInInv, Types, identities, ContactsAreProven, SessionsStand
<1> QED BY <1>2, <1>4, <1>5, OutsideKeeps

LEMMA ExpireKeeps ==
  ASSUME SignInInv, NEW c \in Challenges, Expire(c)
  PROVE  SignInInv'
<1> DEFINE h == [challenge[c] EXCEPT !.late = TRUE]
<1>1. /\ challenge[c] \in Challenge /\ ChallengeFits(c) /\ challenge[c].attempts <= MaxAttempts
      /\ challenge[c].status = "sent"
  BY DEF Expire, SignInInv, Types, RowInv, SubmissionsWithinCap
<1>2. /\ h \in Challenge /\ h.status = "sent" /\ h.number = challenge[c].number
      /\ h.token = challenge[c].token /\ h.attempts = challenge[c].attempts
  BY <1>1 DEF Challenge
<1>3. /\ challenge' = [challenge EXCEPT ![c] = h]
      /\ UNCHANGED <<authorization, identities, session, request, lock>>
  BY DEF Expire
<1> HIDE DEF h
<1>4. /\ challenge' \in [Challenges -> Challenge] /\ challenge'[c] = h
      /\ \A d \in Challenges \ {c} : challenge'[d] = challenge[d]
      /\ \A d \in Challenges : ChallengeFits(d)'
      /\ \A a \in Authorizations : AuthorizationFits(a)'
      /\ SubmissionsWithinCap' /\ ChallengesGrow
  <2>1. /\ h.number \in Numbers
        /\ h.token # None =>
             /\ NumberOf[h.token] = h.number
             /\ \A d \in Challenges \ {c} : challenge[d].token # h.token
    BY <1>1, <1>2 DEF ChallengeFits
  <2> QED BY <1>1, <1>2, <1>3, <2>1, ChallengeChanges
<1>5. Grows /\ Spares(None)
  BY <1>1, <1>2, <1>3, <1>4, GrowsFrom DEF identities, Spares
<1>6. RowTypes' /\ RowInv' /\ session' \in [Sessions -> Session \cup {None}] /\ SessionsStand
  BY <1>3, <1>4 DEF RowTypes, RowInv, SignInInv, Types, identities, ContactsAreProven, SessionsStand
<1> QED BY <1>3, <1>5, <1>6, OutsideKeeps

LEMMA StartGoogleKeeps ==
  ASSUME SignInInv, NEW a \in Authorizations, StartGoogle(a)
  PROVE  SignInInv'
<1>1. PICK intent \in {"signIn", "link", "continue"}, u \in Users \cup {None},
           c \in Challenges \cup {None} :
        /\ Open(a, intent, u, c)
        /\ intent = "link" => u \in Users
        /\ intent = "continue" => c \in Challenges /\ Usable(c)
  BY DEF StartGoogle
<1> DEFINE h == [NoAuthorization EXCEPT !.status = "open", !.intent = intent, !.user = u,
                                        !.challenge = c]
<1>2. /\ h \in Authorization /\ h.status = "open" /\ h.intent = intent /\ h.user = u
      /\ h.challenge = c
  BY <1>1 DEF NoAuthorization, Authorization
<1>3. /\ authorization[a].status = "none" /\ authorization' = [authorization EXCEPT ![a] = h]
      /\ UNCHANGED <<challenge, account, phoneUser, googleUser, session, request, lock>>
  BY <1>1 DEF Open, identities
<1> HIDE DEF h
<1>4. /\ authorization' \in [Authorizations -> Authorization] /\ authorization'[a] = h
      /\ \A b \in Authorizations \ {a} : authorization'[b] = authorization[b]
  BY <1>2, <1>3 DEF SignInInv, Types
<1>5. \A b \in Authorizations : AuthorizationFits(b)'
  BY <1>1, <1>2, <1>3, <1>4 DEF AuthorizationFits, SignInInv, RowInv, Usable
<1>6. Grows /\ Spares(None)
  BY <1>3, <1>4 DEF Grows, Spares
<1>7. RowTypes' /\ RowInv' /\ session' \in [Sessions -> Session \cup {None}] /\ SessionsStand
  BY <1>3, <1>4, <1>5 DEF RowTypes, RowInv, SignInInv, Types, ChallengeFits, SubmissionsWithinCap,
                          ContactsAreProven, SessionsStand
<1> QED BY <1>3, <1>6, <1>7, OutsideKeeps

LEMMA RevokeKeeps ==
  ASSUME SignInInv, NEW S \in SUBSET Sessions, \A s \in S : session[s] # None, Revoke(S)
  PROVE  SignInInv'
<1>1. UNCHANGED <<challenge, authorization, account, phoneUser, googleUser, request, lock>>
  BY DEF Revoke, identities
<1>2. Grows /\ Spares(None)
  BY <1>1, Standing
<1>3. ASSUME NEW s \in Sessions
      PROVE  /\ session'[s] \in Session \cup {None}
             /\ session'[s] # None => /\ session[s] # None
                                      /\ session'[s].user = session[s].user
                                      /\ session'[s].proofs = session[s].proofs
  <2>1. CASE s \in S
    <3>1. session[s] \in Session /\ session'[s] = [session[s] EXCEPT !.live = FALSE]
      BY <2>1 DEF Revoke, SignInInv, Types
    <3> QED BY <2>1, <3>1 DEF Session
  <2>2. CASE s \notin S
    BY <2>2 DEF Revoke, SignInInv, Types
  <2> QED BY <2>1, <2>2
<1>4. session' \in [Sessions -> Session \cup {None}] /\ SessionsStand
  BY <1>3 DEF Revoke, SessionsStand
<1>5. RowTypes' /\ RowInv'
  BY <1>1 DEF RowTypes, RowInv, SignInInv, Types, ChallengeFits, AuthorizationFits,
              SubmissionsWithinCap, ContactsAreProven
<1> QED BY <1>1, <1>2, <1>4, <1>5, OutsideKeeps
-----------------------------------------------------------------------------
(* The invariant.                                                          *)
LEMMA InitiallyInv == Init => SignInInv
<1> SUFFICES ASSUME Init PROVE SignInInv
  OBVIOUS
<1>1. /\ NoChallenge \in Challenge /\ NoAuthorization \in Authorization /\ NoAccount \in Account
      /\ AtRest \in RequestState
      /\ NoChallenge.status = "none" /\ NoChallenge.token = None /\ NoChallenge.attempts = 0
      /\ NoAuthorization.status = "none" /\ NoAccount.phone = None /\ NoAccount.email = None
      /\ AtRest.pc = "rest" /\ AtRest.want = <<>> /\ AtRest.read = "unread"
  BY DEF NoChallenge, NoAuthorization, NoAccount, AtRest, Challenge, Authorization, Account,
         RequestState, Steps, Readings
<1>2. Types
  BY <1>1 DEF Init, Types
<1>3. RowInv
  BY <1>1, Apart DEF Init, RowInv, ChallengeFits, AuthorizationFits, SubmissionsWithinCap,
                     ContactsAreProven
<1>4. RequestInv
  <2>1. \A r \in Requests : Fit(request[r]) /\ Verdict(request[r])
    BY <1>1 DEF Init, Fit, Verdict, OfPhone, OfGoogle
  <2>2. \A r \in Requests : Locking(r)
    BY <1>1, Apart DEF Init, Locking, Ordered, Transactions, Guarded
  <2>3. \A r \in Requests : ~UsesAuthorization(r)
    BY <1>1 DEF Init, UsesAuthorization
  <2> QED BY <2>1, <2>2, <2>3 DEF RequestInv
<1>5. SessionInv
  BY <1>1 DEF Init, SessionInv, Opened, OneSessionPerProof, SessionIsHolders, UsesAuthorization
<1> QED BY <1>2, <1>3, <1>4, <1>5 DEF SignInInv

LEMMA RequestStepsKeep ==
  ASSUME SignInInv, NEW r \in Requests, RequestSteps(r)
  PROVE  SignInInv'
<1>1. CASE TakeLock(r)
  BY <1>1, TakeLockKeeps
<1>2. CASE Refuse(r) \/ RequestLost(r) \/ RollBack(r)
  BY <1>2, EndKeeps DEF Refuse, RequestLost, RollBack
<1>3. CASE \E c \in Challenges, t \in Tokens, u \in Users \cup {None} :
             \E ip \in AddressesOf[t] : Present(r, c, t, u, ip)
  BY <1>3, PresentKeeps, ConstantsAssumption
<1>4. CASE ReadClaim(r) \/ ReadCompletion(r) \/ ReadAccount(r) \/ ReadGoogle(r)
           \/ ReadContinuation(r) \/ ReadLink(r) \/ ReadGoogleLink(r)
  BY <1>4, ReadClaimKeeps, ReadCompletionKeeps, ReadAccountKeeps, ReadGoogleKeeps,
     ReadContinuationKeeps, ReadLinkKeeps
<1>5. CASE Claim(r) \/ AskProvider(r) \/ Record(r) \/ AnswerUnknown(r) \/ LinkPhone(r)
  BY <1>5, ClaimKeeps, AskProviderKeeps, RecordKeeps, AnswerUnknownKeeps, LinkPhoneKeeps
<1>6. CASE Authenticate(r) \/ CreateAccount(r) \/ IssueSession(r) \/ Continue(r)
  BY <1>6, AuthenticateKeeps, CreateAccountKeeps, IssueSessionKeeps, ContinueKeeps
<1>7. CASE \E c \in Challenges : AskAccount(r, c)
  BY <1>7, AskAccountKeeps
<1>8. CASE \E a \in Authorizations, g \in Subjects : Callback(r, a, g)
  BY <1>8, CallbackKeeps
<1>9. CASE ResolveGoogle(r) \/ LinkGoogle(r)
  BY <1>9, ResolveGoogleKeeps, LinkGoogleKeeps
<1> QED BY <1>1, <1>2, <1>3, <1>4, <1>5, <1>6, <1>7, <1>8, <1>9 DEF RequestSteps

LEMMA StepKeepsInv == SignInInv /\ [Next]_vars => SignInInv'
<1> SUFFICES ASSUME SignInInv, [Next]_vars PROVE SignInInv'
  OBVIOUS
<1>1. CASE \E r \in Requests : RequestSteps(r)
  BY <1>1, RequestStepsKeep
<1>2. CASE \E c \in Challenges : Expire(c) \/ \E n \in Numbers : Start(c, n)
  BY <1>2, ExpireKeeps, StartKeeps
<1>3. CASE \E a \in Authorizations : StartGoogle(a)
  BY <1>3, StartGoogleKeeps
<1>4. CASE \E s \in Sessions : SignOut(s)
  BY <1>4, RevokeKeeps DEF SignOut
<1>5. CASE \E u \in Users : SignOutEverywhere(u)
  <2>1. PICK S \in SUBSET Sessions : Revoke(S) /\ \A s \in S : session[s] # None
    BY <1>5 DEF SignOutEverywhere
  <2> QED BY <2>1, RevokeKeeps
<1>6. CASE UNCHANGED vars
  BY <1>6 DEF vars, identities, SignInInv, Types, RowInv, RequestInv, SessionInv, ChallengeFits,
     AuthorizationFits, SubmissionsWithinCap, ContactsAreProven, Fit, Verdict, Locking,
     UsesAuthorization, Opened, SpentProof, OneSessionPerProof, SessionIsHolders
<1> QED BY <1>1, <1>2, <1>3, <1>4, <1>5, <1>6 DEF Next

(* The invariant the others follow from: what a request holds, has read and *)
(* acts on fits the rows, and every session's proofs are spent.            *)
THEOREM SignInInvariance == Spec => []SignInInv
<1> QED BY InitiallyInv, StepKeepsInv, PTL DEF Spec
-----------------------------------------------------------------------------
(* Every variable keeps its type.                                          *)
THEOREM TypeCorrectness == Spec => []TypeOK
<1>1. SignInInv => TypeOK
  BY DEF SignInInv, Types, TypeOK, RequestState
<1> QED BY <1>1, SignInInvariance, PTL

(* A challenge's submissions stay within verifyMaxPerChallenge however many *)
(* requests present tokens to it at once (claimVerification).              *)
THEOREM SubmissionsCapped == Spec => []SubmissionsWithinCap
<1>1. SignInInv => SubmissionsWithinCap
  BY DEF SignInInv, RowInv
<1> QED BY <1>1, SignInInvariance, PTL

(* A provider token or a Google authorization opens one session at most.   *)
THEOREM ProofsOpenOneSession == Spec => []OneSessionPerProof
<1>1. SignInInv => OneSessionPerProof
  BY DEF SignInInv, SessionInv
<1> QED BY <1>1, SignInInvariance, PTL

(* A session belongs to the account that holds the identities its proofs    *)
(* name: an identity is never moved to another account.                    *)
THEOREM SessionsOfHolders == Spec => []SessionIsHolders
<1>1. SignInInv => SessionIsHolders
  BY DEF SignInInv, SessionInv
<1> QED BY <1>1, SignInInvariance, PTL

(* An account's number and address are ones its identities prove.          *)
THEOREM ContactsProven == Spec => []ContactsAreProven
<1>1. SignInInv => ContactsAreProven
  BY DEF SignInInv, RowInv
<1> QED BY <1>1, SignInInvariance, PTL

(* Transactions that wait for locks never wait for each other in a circle,  *)
(* however many there are: every list of locks rises in the same order.    *)
THEOREM NoDeadlock == Spec => []NoCircularWait
<1>1. SignInInv => NoCircularWait
  BY LocksInOrder DEF SignInInv, RequestInv
<1> QED BY <1>1, SignInInvariance, PTL
=============================================================================
