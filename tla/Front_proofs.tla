---------------------------- MODULE Front_proofs ----------------------------
(***************************************************************************)
(* Proofs about the front of the product API: who a request is from        *)
(* (Accounts), for any number of users, browsers, handlers and sessions;   *)
(* what becomes of a submission (ApiServer), for any number of handlers,   *)
(* principals, keys and jobs; the limits kept per principal (RateLimiter), *)
(* for any window and any number of workers; and what the gateway makes of *)
(* a job and the server tells of it (Gateway), for any number of jobs.     *)
(***************************************************************************)
EXTENDS Front, Ranking_proofs

Resolving == {"find", "insert", "push", "reread"}

Places ==
  {"idle", "resolve", "renew", "create", "granted", "exchange", "fetch", "anonymous",
   "expire", "touch", "unlink", "relink", "logout"} \cup Resolving

RequestRecord ==
  [at : Places, for : {"none", "cookie", "callback", "rotate", "assertion"},
   browser : Browsers \cup {None}, subject : Subjects \cup {None}, state : Nat,
   token : Nat, principal : Nat, late : BOOLEAN, read : Session \cup {None},
   checkedAt : Nat]

RequestTypes == request \in [Requests -> RequestRecord]

ClockTypes ==
  /\ shared \in BOOLEAN /\ now \in 0 .. maxTime
  /\ process \in [Requests -> Processes]
  /\ shared \/ \A g, h \in Requests : process[g] = process[h]

-----------------------------------------------------------------------------
(***************************************************************************)
(* What each handler may take for granted when its turn comes.             *)
(***************************************************************************)
Young(t, time) == time - loggedIn[t] <= absoluteTtl

CookieInOrder(r) ==
  /\ r.at \in {"anonymous", "expire", "touch", "granted", "logout"}
  /\ r.subject = None /\ r.browser \in Browsers /\ r.token \in 1 .. issued
  /\ r.at # "anonymous" => ~r.late
  /\ r.at \in {"touch", "granted", "logout"} => Young(r.token, r.checkedAt)
  /\ r.at = "touch" => r.read \in Session /\ r.read.createdAt = loggedIn[r.token]

RotateInOrder(r) ==
  /\ r.at \in {"unlink", "relink"}
  /\ r.subject = None /\ r.browser \in Browsers /\ r.token \in 1 .. issued
  /\ r.read \in Session /\ r.read.createdAt = loggedIn[r.token]

SubjectInOrder(r) ==
  /\ r.at \in {"resolve"} \cup Resolving => r.subject \in Subjects /\ r.principal = 0
  /\ r.at = "push" => ~shared /\ Documents(r.subject) = {}
  /\ r.at \in {"renew", "create", "granted"} =>
       r.subject \in Subjects /\ r.principal = principalOf[r.subject] /\ r.principal # 0

CallbackInOrder(r) ==
  /\ r.at \in {"exchange", "fetch", "resolve", "renew", "create"} \cup Resolving
  /\ r.browser \in Browsers /\ r.token \in 0 .. issued /\ r.state \in 1 .. states
  /\ r.at \in {"exchange", "fetch"} => r.subject = None /\ r.principal = 0
  /\ SubjectInOrder(r)

AssertionInOrder(r) ==
  /\ r.at \in {"resolve", "granted"} \cup Resolving
  /\ SubjectInOrder(r)

InOrder(r) ==
  /\ r.for = "none" => r = Idle
  /\ r.at = "idle" => r.for = "none"
  /\ r.for # "cookie" => ~r.late
  /\ r.for = "cookie" => CookieInOrder(r)
  /\ r.for = "rotate" => RotateInOrder(r)
  /\ r.for = "callback" => CallbackInOrder(r)
  /\ r.for = "assertion" => AssertionInOrder(r)

RequestsAreInOrder == \A h \in Requests : InOrder(request[h])

(***************************************************************************)
(* In its process, nobody else resolves the subject that a handler has     *)
(* locked.                                                                 *)
(***************************************************************************)
Locked(h) == request[h].at \in Resolving

LocksExclude ==
  /\ \A h \in Requests : Locked(h) => Lock(h) \in lockMap
  /\ \A g, h \in Requests : Locked(g) /\ Locked(h) /\ Lock(g) = Lock(h) => g = h

(***************************************************************************)
(* A user has a document from the moment the user is given a principal.    *)
(***************************************************************************)
IdentitiesAgree ==
  /\ made \in Nat /\ identities \subseteq [subject : Subjects, principal : 1 .. made]
  /\ principalOf \in [Subjects -> 0 .. made]
  /\ \A d, e \in identities : d.subject = e.subject => d = e
  /\ \A d \in identities : d.principal = principalOf[d.subject]
  /\ \A u \in Subjects : principalOf[u] # 0 => \E d \in identities : d.subject = u

(***************************************************************************)
(* A stored session was made when its sign-in was, and a session that was  *)
(* logged out is not stored.  There is room for those under way.           *)
(***************************************************************************)
Making == {h \in Requests : request[h].for \in {"callback", "rotate"}}

SessionsAgree ==
  /\ issued \in Nat /\ issued + Cardinality(Making) <= maxTokens
  /\ sessions \in [Tokens -> Session \cup {None}]
  /\ loggedIn \in [Tokens -> 0 .. maxTime]
  /\ cookie \in [Browsers -> 0 .. issued]
  /\ loggedOut \subseteq 1 .. issued
  /\ \A t \in Tokens : sessions[t] # None =>
       /\ t \in 1 .. issued /\ t \notin loggedOut
       /\ sessions[t] \in Session /\ sessions[t].createdAt = loggedIn[t]

(***************************************************************************)
(* A state is waited for, or in the hands of one handler, or has led to a  *)
(* session.                                                                *)
(***************************************************************************)
StatesAreUsedOnce ==
  /\ states \in Nat
  /\ \A p \in pendingStates : p[1] \in 1 .. states /\ p[2] \in Nat
  /\ \A p, q \in pendingStates : p[1] = q[1] => p = q
  /\ \A c \in completed : c[1] \in 1 .. states /\ \A p \in pendingStates : p[1] # c[1]
  /\ StateMakesOneSession
  /\ \A h \in Requests : request[h].for = "callback" =>
       /\ \A p \in pendingStates \cup completed : p[1] # request[h].state
       /\ \A g \in Requests \ {h} :
            request[g].for = "callback" => request[g].state # request[h].state

(***************************************************************************)
(* A process remembers a nonce until its assertion's time is up.           *)
(***************************************************************************)
NoncesAreKept ==
  /\ assertions \in Seq([sub : Subjects, exp : Nat])
  /\ seenNonces \subseteq accepted
  /\ \A s \in accepted :
       s[1] \in DOMAIN assertions /\ (s \in seenNonces \/ now > 2 * assertions[s[1]].exp)
  /\ \A p \in acceptedAgain : p[1] \in DOMAIN assertions
  /\ AcceptedOnce

AInv ==
  /\ RequestTypes /\ ClockTypes
  /\ RequestsAreInOrder
  /\ LocksExclude
  /\ IdentitiesAgree
  /\ SessionsAgree
  /\ StatesAreUsedOnce
  /\ NoncesAreKept

-----------------------------------------------------------------------------
(***************************************************************************)
(* A handler that does nothing is a record of the right form and in order. *)
(***************************************************************************)
LEMMA IdleIsInOrder == Idle \in RequestRecord /\ InOrder(Idle)
BY DEF Idle, RequestRecord, Places, InOrder

(***************************************************************************)
(* It is so whatever the state becomes.                                    *)
(***************************************************************************)
LEMMA IdleStaysInOrder == InOrder(Idle)'
BY DEF Idle, InOrder

(***************************************************************************)
(* From where a handler is follows what it is for, and what it may take    *)
(* for granted there.                                                      *)
(***************************************************************************)
LEMMA WhatItDoes ==
  ASSUME NEW r \in RequestRecord, InOrder(r)
  PROVE  /\ r.at = "idle" => r = Idle
         /\ r.at \in {"anonymous", "expire", "touch", "logout"} =>
              r.for = "cookie" /\ CookieInOrder(r)
         /\ r.at \in {"unlink", "relink"} => r.for = "rotate" /\ RotateInOrder(r)
         /\ r.at \in {"exchange", "fetch", "renew", "create"} =>
              r.for = "callback" /\ CallbackInOrder(r)
         /\ r.at = "resolve" \/ r.at \in Resolving =>
              r.for \in {"callback", "assertion"} /\ SubjectInOrder(r)
         /\ r.at = "granted" =>
              \/ r.for = "cookie" /\ CookieInOrder(r)
              \/ r.for = "assertion" /\ SubjectInOrder(r)
<1>1. CASE r.for = "none"
  BY <1>1 DEF InOrder, Idle, Resolving
<1>2. CASE r.for = "cookie"
  BY <1>2 DEF InOrder, CookieInOrder, Resolving
<1>3. CASE r.for = "rotate"
  BY <1>3 DEF InOrder, RotateInOrder, Resolving
<1>4. CASE r.for = "callback"
  <2>1. CallbackInOrder(r) BY <1>4 DEF InOrder
  <2>2. /\ SubjectInOrder(r)
        /\ r.at \in {"exchange", "fetch", "resolve", "renew", "create"} \cup Resolving
    BY <2>1 DEF CallbackInOrder
  <2> QED BY <1>4, <2>1, <2>2 DEF Resolving
<1>5. CASE r.for = "assertion"
  BY <1>5 DEF InOrder, AssertionInOrder, Resolving
<1> QED BY <1>1, <1>2, <1>3, <1>4, <1>5 DEF RequestRecord

(***************************************************************************)
(* What no step takes back: tokens, states, and the principal of a user.   *)
(***************************************************************************)
Grows ==
  /\ shared' = shared /\ process' = process
  /\ issued \in Nat /\ issued' \in Nat /\ issued <= issued'
  /\ \A t \in 1 .. issued : loggedIn'[t] = loggedIn[t]
  /\ states \in Nat /\ states' \in Nat /\ states <= states'
  /\ \A u \in Subjects : principalOf[u] # 0 => principalOf'[u] = principalOf[u]

(***************************************************************************)
(* What a handler may take for granted survives the steps of others:       *)
(* tokens and states are only added, and a principal once given out stays. *)
(***************************************************************************)
LEMMA OrderIsKept ==
  ASSUME Grows, NEW r \in RequestRecord, InOrder(r),
         r.at = "push" => Documents(r.subject)' = {}
  PROVE  InOrder(r)'
<1>1. CASE r.for = "none"
  BY <1>1, IdleStaysInOrder DEF InOrder
<1>2. CASE r.for = "cookie"
  <2>1. CookieInOrder(r) BY <1>2 DEF InOrder
  <2>2. r.token \in 1 .. issued' /\ loggedIn'[r.token] = loggedIn[r.token]
    BY <2>1 DEF CookieInOrder, Grows
  <2>3. CookieInOrder(r)' BY <2>1, <2>2 DEF CookieInOrder, Young
  <2> QED BY <1>2, <2>3 DEF InOrder
<1>3. CASE r.for = "rotate"
  <2>1. RotateInOrder(r) BY <1>3 DEF InOrder
  <2>2. r.token \in 1 .. issued' /\ loggedIn'[r.token] = loggedIn[r.token]
    BY <2>1 DEF RotateInOrder, Grows
  <2>3. RotateInOrder(r)' BY <2>1, <2>2 DEF RotateInOrder
  <2> QED BY <1>3, <2>3 DEF InOrder
<1>4. SubjectInOrder(r) => SubjectInOrder(r)'
  BY DEF SubjectInOrder, Grows
<1>5. CASE r.for = "callback"
  <2>1. CallbackInOrder(r) BY <1>5 DEF InOrder
  <2>2. r.token \in 0 .. issued' /\ r.state \in 1 .. states'
    BY <2>1 DEF CallbackInOrder, Grows
  <2>3. CallbackInOrder(r)' BY <2>1, <2>2, <1>4 DEF CallbackInOrder
  <2> QED BY <1>5, <2>3 DEF InOrder
<1>6. CASE r.for = "assertion"
  BY <1>4, <1>6 DEF InOrder, AssertionInOrder
<1> QED BY <1>1, <1>2, <1>3, <1>5, <1>6 DEF RequestRecord

(***************************************************************************)
(* A handler between the look and the push is in the one process of its    *)
(* store and nobody else has made the document.                            *)
(***************************************************************************)
LEMMA PushersAreFresh ==
  ASSUME RequestTypes, RequestsAreInOrder, NEW g \in Requests, request[g].at = "push"
  PROVE  ~shared /\ Documents(request[g].subject) = {} /\ request[g].subject \in Subjects
<1>1. request[g] \in RequestRecord /\ InOrder(request[g])
  BY DEF RequestTypes, RequestsAreInOrder
<1>2. SubjectInOrder(request[g]) BY <1>1, WhatItDoes DEF Resolving
<1> QED BY <1>2 DEF SubjectInOrder, Resolving

(***************************************************************************)
(* A step of one handler gives it a new record and leaves the others       *)
(* theirs.                                                                 *)
(***************************************************************************)
LEMMA OneIsHandled ==
  ASSUME RequestTypes, NEW h \in Requests, NEW r \in RequestRecord, Becomes(h, r)
  PROVE  /\ RequestTypes'
         /\ request'[h] = r
         /\ \A g \in Requests \ {h} : request'[g] = request[g]
BY DEF RequestTypes, Becomes

(***************************************************************************)
(* All handlers are in order after a step of one that leaves it in order.  *)
(***************************************************************************)
LEMMA AllAreInOrder ==
  ASSUME RequestTypes, RequestsAreInOrder, Grows,
         NEW h \in Requests, NEW r \in RequestRecord, Becomes(h, r), InOrder(r)',
         \A g \in Requests \ {h} :
           request[g].at = "push" => Documents(request[g].subject)' = {}
  PROVE  RequestsAreInOrder'
<1> SUFFICES ASSUME NEW g \in Requests PROVE InOrder(request[g])'
  BY DEF RequestsAreInOrder
<1>1. CASE g = h
  BY <1>1, OneIsHandled
<1>2. CASE g # h
  <2>1. request[g] \in RequestRecord /\ InOrder(request[g])
    BY DEF RequestTypes, RequestsAreInOrder
  <2>2. PICK q \in RequestRecord : q = request[g] BY <2>1
  <2>3. q.at = "push" => Documents(q.subject)' = {}
    BY <1>2, <2>2, OneIsHandled DEF Documents
  <2>4. InOrder(q)' BY <2>1, <2>2, <2>3, OrderIsKept
  <2> QED BY <1>2, <2>2, <2>4, OneIsHandled
<1> QED BY <1>1, <1>2

(***************************************************************************)
(* The handlers that may yet make a session become fewer, or more by one,  *)
(* as the handler that moves begins or ends to be one.                     *)
(***************************************************************************)
LEMMA MakersAreCounted ==
  ASSUME RequestTypes, NEW h \in Requests, NEW r \in RequestRecord, Becomes(h, r)
  PROVE  /\ Cardinality(Making) \in Nat /\ Cardinality(Making)' \in Nat
         /\ r.for \notin {"callback", "rotate"} \/ r.for = request[h].for
              => Cardinality(Making)' <= Cardinality(Making)
         /\ r.for \notin {"callback", "rotate"} /\ request[h].for \in {"callback", "rotate"}
              => Cardinality(Making)' + 1 = Cardinality(Making)
         /\ Cardinality(Making)' <= Cardinality(Making) + 1
<1>1. request'[h] = r /\ \A g \in Requests \ {h} : request'[g] = request[g]
  BY OneIsHandled
<1>2. IsFiniteSet(Making) BY RequestsAssumption, FS_Subset DEF Making
<1>3. CASE r.for \in {"callback", "rotate"}
  <2>1. Making' = Making \cup {h} BY <1>1, <1>3 DEF Making
  <2>2. h \in Making <=> request[h].for \in {"callback", "rotate"} BY DEF Making
  <2>3. Cardinality(Making)' = IF h \in Making THEN Cardinality(Making)
                                               ELSE Cardinality(Making) + 1
    BY <1>2, <2>1, FS_AddElement
  <2> QED BY <1>2, <1>3, <2>2, <2>3, FS_CardinalityType
<1>4. CASE r.for \notin {"callback", "rotate"}
  <2>1. Making' = Making \ {h} BY <1>1, <1>4 DEF Making
  <2>2. h \in Making <=> request[h].for \in {"callback", "rotate"} BY DEF Making
  <2>3. Cardinality(Making)' = IF h \in Making THEN Cardinality(Making) - 1
                                               ELSE Cardinality(Making)
    BY <1>2, <2>1, FS_RemoveElement
  <2>4. IsFiniteSet(Making \ {h}) BY <1>2, FS_RemoveElement
  <2>5. Cardinality(Making)' \in Nat BY <2>1, <2>4, FS_CardinalityType
  <2> QED BY <1>2, <1>4, <2>2, <2>3, <2>5, FS_CardinalityType
<1> QED BY <1>3, <1>4

(***************************************************************************)
(* A handler that moves without taking a lock, or gives up its own, leaves *)
(* the locks of the others.                                                *)
(***************************************************************************)
LEMMA LocksStay ==
  ASSUME RequestTypes, LocksExclude, UNCHANGED process,
         NEW h \in Requests, NEW r \in RequestRecord, Becomes(h, r),
         \/ lockMap \subseteq lockMap'
         \/ Locked(h) /\ lockMap \ {Lock(h)} \subseteq lockMap',
         r.at \in Resolving =>
           Locked(h) /\ r.subject = request[h].subject /\ lockMap' = lockMap
  PROVE  LocksExclude'
<1>1. request'[h] = r /\ \A g \in Requests \ {h} : request'[g] = request[g]
  BY OneIsHandled
<1>2. \A g \in Requests : Locked(g)' =>
        Locked(g) /\ request'[g].subject = request[g].subject
  BY <1>1 DEF Locked
<1>3. \A g \in Requests : Locked(g)' => Lock(g)' = Lock(g)
  BY <1>2 DEF Lock
<1>4. ASSUME NEW g \in Requests, Locked(g)'
      PROVE  Lock(g)' \in lockMap'
  <2>1. Locked(g) /\ Lock(g) \in lockMap BY <1>2, <1>4 DEF LocksExclude
  <2>2. CASE lockMap \subseteq lockMap' BY <1>3, <1>4, <2>1, <2>2
  <2>3. CASE g = h
    <3>1. lockMap' = lockMap BY <1>1, <1>4, <2>3 DEF Locked
    <3> QED BY <1>3, <1>4, <2>1, <3>1
  <2>4. CASE g # h /\ Locked(h) /\ lockMap \ {Lock(h)} \subseteq lockMap'
    <3>1. Lock(g) # Lock(h) BY <2>1, <2>4 DEF LocksExclude
    <3> QED BY <1>3, <1>4, <2>1, <2>4, <3>1
  <2> QED BY <2>2, <2>3, <2>4
<1>5. ASSUME NEW f \in Requests, NEW g \in Requests, Locked(f)', Locked(g)',
             Lock(f)' = Lock(g)'
      PROVE  f = g
  BY <1>2, <1>3, <1>5 DEF LocksExclude
<1> QED BY <1>4, <1>5 DEF LocksExclude

(***************************************************************************)
(* The documents agree with the principals when neither changes.           *)
(***************************************************************************)
LEMMA IdentitiesStay ==
  ASSUME IdentitiesAgree, UNCHANGED <<identities, made, principalOf>>
  PROVE  IdentitiesAgree'
BY DEF IdentitiesAgree

(***************************************************************************)
(* The stored sessions remain in agreement when some are deleted or seen   *)
(* again.                                                                  *)
(***************************************************************************)
LEMMA SessionsStay ==
  ASSUME SessionsAgree, UNCHANGED <<issued, loggedIn, loggedOut, cookie>>,
         Cardinality(Making)' \in Nat, Cardinality(Making) \in Nat,
         Cardinality(Making)' <= Cardinality(Making),
         sessions' \in [Tokens -> Session \cup {None}],
         \A t \in Tokens : sessions'[t] # None =>
           /\ sessions[t] # None
           /\ sessions'[t] \in Session /\ sessions'[t].createdAt = sessions[t].createdAt
  PROVE  SessionsAgree'
<1>1. issued' + Cardinality(Making)' <= maxTokens
  BY BoundsAssumption DEF SessionsAgree
<1>2. \A t \in Tokens : sessions'[t] # None =>
       /\ t \in 1 .. issued /\ t \notin loggedOut
       /\ sessions'[t] \in Session /\ sessions'[t].createdAt = loggedIn[t]
  BY DEF SessionsAgree
<1> QED BY <1>1, <1>2 DEF SessionsAgree

(***************************************************************************)
(* OAuth states are in one place each when no handler takes one up.        *)
(***************************************************************************)
LEMMA StatesStay ==
  ASSUME RequestTypes, StatesAreUsedOnce, UNCHANGED <<pendingStates, states, completed>>,
         NEW h \in Requests, NEW r \in RequestRecord, Becomes(h, r),
         r.for = "callback" => request[h].for = "callback" /\ r.state = request[h].state
  PROVE  StatesAreUsedOnce'
<1>1. request'[h] = r /\ \A g \in Requests \ {h} : request'[g] = request[g]
  BY OneIsHandled
<1>2. \A g \in Requests : request'[g].for = "callback" =>
        request[g].for = "callback" /\ request'[g].state = request[g].state
  BY <1>1
<1>3. StateMakesOneSession' BY DEF StatesAreUsedOnce, StateMakesOneSession
<1> QED BY <1>2, <1>3 DEF StatesAreUsedOnce

(***************************************************************************)
(* Nonces are remembered long enough when neither they nor the clock       *)
(* change.                                                                 *)
(***************************************************************************)
LEMMA NoncesStay ==
  ASSUME NoncesAreKept, UNCHANGED <<now, bot>>
  PROVE  NoncesAreKept'
BY DEF NoncesAreKept, bot, AcceptedOnce

(***************************************************************************)
(* The invariant is kept by a step of one handler that issues nothing,     *)
(* given what it does to locks, sessions and nonces.                       *)
(***************************************************************************)
LEMMA QuietStep ==
  ASSUME AInv, NEW h \in Requests, NEW r \in RequestRecord, Becomes(h, r), InOrder(r),
         UNCHANGED <<clock, identities, made, principalOf, oauth, issued, loggedIn>>,
         r.for = "callback" => request[h].for = "callback" /\ r.state = request[h].state,
         LocksExclude', SessionsAgree', NoncesAreKept'
  PROVE  AInv'
<1>1. RequestTypes' BY OneIsHandled DEF AInv
<1>2. ClockTypes' BY DEF AInv, ClockTypes, clock
<1>3. Grows
  BY DEF Grows, AInv, clock, oauth, SessionsAgree, StatesAreUsedOnce
<1>4. \A g \in Requests \ {h} :
        request[g].at = "push" => Documents(request[g].subject)' = {}
  BY PushersAreFresh, OneIsHandled DEF AInv, Documents
<1>5. r.at = "push" => Documents(r.subject)' = {}
  BY WhatItDoes DEF SubjectInOrder, Documents, Resolving
<1>6. InOrder(r)' BY <1>3, <1>5, OrderIsKept
<1>7. RequestsAreInOrder' BY <1>3, <1>4, <1>6, AllAreInOrder DEF AInv
<1>8. IdentitiesAgree' BY IdentitiesStay DEF AInv
<1>9. StatesAreUsedOnce' BY StatesStay DEF AInv, oauth
<1> QED BY <1>1, <1>2, <1>7, <1>8, <1>9 DEF AInv

(***************************************************************************)
(* The invariant is kept by a step that at most deletes sessions or sees   *)
(* them again.                                                             *)
(***************************************************************************)
LEMMA SessionStep ==
  ASSUME AInv, NEW h \in Requests, NEW r \in RequestRecord, Becomes(h, r), InOrder(r),
         UNCHANGED <<clock, identity, oauth, bot, issued, loggedIn, loggedOut, cookie>>,
         r.for = "callback" => request[h].for = "callback" /\ r.state = request[h].state,
         r.for = "rotate" => request[h].for = "rotate",
         r.at \in Resolving => Locked(h) /\ r.subject = request[h].subject,
         sessions' \in [Tokens -> Session \cup {None}],
         \A t \in Tokens : sessions'[t] # None =>
           /\ sessions[t] # None
           /\ sessions'[t] \in Session /\ sessions'[t].createdAt = sessions[t].createdAt
  PROVE  AInv'
<1>1. LocksExclude' BY LocksStay DEF AInv, clock, identity
<1>2. SessionsAgree' BY MakersAreCounted, SessionsStay DEF AInv
<1>3. NoncesAreKept' BY NoncesStay DEF AInv, clock
<1> QED BY <1>1, <1>2, <1>3, QuietStep DEF identity

(***************************************************************************)
(* The invariant is kept by a step that changes nothing but where the      *)
(* handler is.                                                             *)
(***************************************************************************)
LEMMA PlainStep ==
  ASSUME AInv, NEW h \in Requests, NEW r \in RequestRecord, Becomes(h, r), InOrder(r),
         UNCHANGED <<clock, identity, store, oauth, bot, cookie>>,
         r.for = "callback" => request[h].for = "callback" /\ r.state = request[h].state,
         r.for = "rotate" => request[h].for = "rotate",
         r.at \in Resolving => Locked(h) /\ r.subject = request[h].subject
  PROVE  AInv'
<1>1. sessions' = sessions /\ sessions \in [Tokens -> Session \cup {None}]
  BY DEF store, AInv, SessionsAgree
<1>2. \A t \in Tokens : sessions[t] # None => sessions[t] \in Session
  BY DEF AInv, SessionsAgree
<1> QED BY <1>1, <1>2, SessionStep DEF store

(***************************************************************************)
(* Every handler has a record of the right form and is in order.           *)
(***************************************************************************)
LEMMA RequestIsInOrder ==
  ASSUME AInv, NEW h \in Requests
  PROVE  request[h] \in RequestRecord /\ InOrder(request[h])
BY DEF AInv, RequestTypes, RequestsAreInOrder

(***************************************************************************)
(* A handler may end at any time.                                          *)
(***************************************************************************)
LEMMA FailsStep ==
  ASSUME AInv, NEW h \in Requests, Fails(h),
         UNCHANGED <<clock, identity, store, oauth, bot, cookie>>
  PROVE  AInv'
<1>1. Idle.for = "none" /\ Idle.at = "idle" BY DEF Idle
<1> QED BY <1>1, IdleIsInOrder, PlainStep DEF Fails, Resolving

-----------------------------------------------------------------------------
(***************************************************************************)
(* ExchangeCode keeps the invariant, whether the exchange succeeds or      *)
(* fails.                                                                  *)
(***************************************************************************)
LEMMA ExchangeCodeKeeps == ASSUME AInv, NEW h \in Requests, ExchangeCode(h) PROVE AInv'
<1>1. UNCHANGED <<clock, identity, store, oauth, bot, cookie>>
  BY DEF ExchangeCode, browser
<1>2. CASE Fails(h)
  BY <1>1, <1>2, FailsStep
<1>3. CASE Goes(h, "fetch")
  <2>1. request[h] \in RequestRecord /\ InOrder(request[h]) BY RequestIsInOrder
  <2>2. request[h].for = "callback" /\ CallbackInOrder(request[h])
    BY <2>1, WhatItDoes DEF ExchangeCode, At
  <2>3. PICK r \in RequestRecord : r = [request[h] EXCEPT !.at = "fetch"]
    BY <2>1 DEF RequestRecord, Places
  <2>4. CallbackInOrder(r)
    BY <2>1, <2>2, <2>3 DEF ExchangeCode, At, RequestRecord, CallbackInOrder, SubjectInOrder,
       Resolving
  <2>5. InOrder(r)
    BY <2>1, <2>2, <2>3, <2>4 DEF RequestRecord, InOrder
  <2>6. Becomes(h, r) BY <1>3, <2>3 DEF Goes
  <2>7. r.for = "callback" /\ r.state = request[h].state /\ r.at \notin Resolving
    BY <2>1, <2>2, <2>3 DEF RequestRecord, Resolving
  <2> QED BY <1>1, <2>2, <2>5, <2>6, <2>7, PlainStep
<1> QED BY <1>2, <1>3 DEF ExchangeCode

(***************************************************************************)
(* FetchDiscordUser keeps the invariant, whoever the user is.              *)
(***************************************************************************)
LEMMA FetchDiscordUserKeeps ==
  ASSUME AInv, NEW h \in Requests, NEW u \in Subjects, FetchDiscordUser(h, u)
  PROVE  AInv'
<1>1. UNCHANGED <<clock, identity, store, oauth, bot, cookie>>
  BY DEF FetchDiscordUser, browser
<1>2. CASE Fails(h)
  BY <1>1, <1>2, FailsStep
<1>3. CASE Becomes(h, [request[h] EXCEPT !.at = "resolve", !.subject = u])
  <2>1. request[h] \in RequestRecord /\ InOrder(request[h]) BY RequestIsInOrder
  <2>2. request[h].for = "callback" /\ CallbackInOrder(request[h])
    BY <2>1, WhatItDoes DEF FetchDiscordUser, At
  <2>3. PICK r \in RequestRecord : r = [request[h] EXCEPT !.at = "resolve", !.subject = u]
    BY <2>1 DEF RequestRecord, Places
  <2>4. CallbackInOrder(r)
    BY <2>1, <2>2, <2>3 DEF FetchDiscordUser, At, RequestRecord, CallbackInOrder, SubjectInOrder,
       Resolving
  <2>5. InOrder(r)
    BY <2>1, <2>2, <2>3, <2>4 DEF RequestRecord, InOrder
  <2>6. Becomes(h, r) BY <1>3, <2>3
  <2>7. r.for = "callback" /\ r.state = request[h].state /\ r.at \notin Resolving
    BY <2>1, <2>2, <2>3 DEF RequestRecord, Resolving
  <2> QED BY <1>1, <2>2, <2>5, <2>6, <2>7, PlainStep
<1> QED BY <1>2, <1>3 DEF FetchDiscordUser

(***************************************************************************)
(* Answer keeps the invariant.                                             *)
(***************************************************************************)
LEMMA AnswerKeeps == ASSUME AInv, NEW h \in Requests, Answer(h) PROVE AInv'
BY FailsStep DEF Answer, Fails

(***************************************************************************)
(* Fallback keeps the invariant.                                           *)
(***************************************************************************)
LEMMA FallbackKeeps == ASSUME AInv, NEW h \in Requests, Fallback(h) PROVE AInv'
BY FailsStep DEF Fallback, browser

(***************************************************************************)
(* BeginLogout keeps the invariant, whether the CSRF token is right or     *)
(* wrong.                                                                  *)
(***************************************************************************)
LEMMA BeginLogoutKeeps == ASSUME AInv, NEW h \in Requests, BeginLogout(h) PROVE AInv'
<1>1. UNCHANGED <<clock, identity, store, oauth, bot, cookie>>
  BY DEF BeginLogout, browser
<1>2. CASE Fails(h)
  BY <1>1, <1>2, FailsStep
<1>3. CASE Goes(h, "logout")
  <2>1. request[h] \in RequestRecord /\ InOrder(request[h]) BY RequestIsInOrder
  <2>2. request[h].for = "cookie" /\ CookieInOrder(request[h])
    BY <2>1 DEF BeginLogout, InOrder
  <2>3. PICK r \in RequestRecord : r = [request[h] EXCEPT !.at = "logout"]
    BY <2>1 DEF RequestRecord, Places
  <2>4. CookieInOrder(r)
    BY <2>1, <2>2, <2>3 DEF BeginLogout, At, RequestRecord, CookieInOrder
  <2>5. InOrder(r)
    BY <2>1, <2>2, <2>3, <2>4 DEF RequestRecord, InOrder
  <2>6. Becomes(h, r) BY <1>3, <2>3 DEF Goes
  <2>7. r.for = "cookie" /\ r.at \notin Resolving
    BY <2>1, <2>2, <2>3 DEF RequestRecord, Resolving
  <2> QED BY <1>1, <2>5, <2>6, <2>7, PlainStep
<1> QED BY <1>2, <1>3 DEF BeginLogout

(***************************************************************************)
(* A handler that holds the lock may go on to insert, to push or to read   *)
(* again.                                                                  *)
(***************************************************************************)
LEMMA InsertWaitsKeeps ==
  ASSUME AInv, NEW h \in Requests, NEW place \in {"insert", "push", "reread"},
         request[h].at \in Resolving, Goes(h, place),
         place = "push" => ~shared /\ Documents(request[h].subject) = {},
         UNCHANGED <<clock, identity, store, oauth, bot, cookie>>
  PROVE  AInv'
<1>1. request[h] \in RequestRecord /\ InOrder(request[h]) BY RequestIsInOrder
<1>2. request[h].for \in {"callback", "assertion"} /\ SubjectInOrder(request[h])
  BY <1>1, WhatItDoes
<1>3. PICK r \in RequestRecord : r = [request[h] EXCEPT !.at = place]
  BY <1>1 DEF RequestRecord, Places, Resolving
<1>4. /\ r.at = place /\ r.for = request[h].for /\ r.subject = request[h].subject
      /\ r.principal = request[h].principal /\ r.state = request[h].state
      /\ r.browser = request[h].browser /\ r.token = request[h].token
      /\ r.late = request[h].late
  BY <1>1, <1>3 DEF RequestRecord
<1>5. SubjectInOrder(r)
  BY <1>2, <1>4 DEF SubjectInOrder, Resolving
<1>6. r.for = "callback" => CallbackInOrder(r)
  BY <1>1, <1>4, <1>5 DEF InOrder, CallbackInOrder, Resolving
<1>7. r.for = "assertion" => AssertionInOrder(r)
  BY <1>4, <1>5 DEF AssertionInOrder, Resolving
<1>8. InOrder(r)
  BY <1>1, <1>2, <1>4, <1>6, <1>7 DEF InOrder
<1>9. Becomes(h, r) BY <1>3 DEF Goes
<1> QED BY <1>2, <1>4, <1>8, <1>9, PlainStep DEF Locked

(***************************************************************************)
(* TakeLock keeps the invariant: the lock was free, so in one process no   *)
(* other handler resolves the user.                                        *)
(***************************************************************************)
LEMMA TakeLockKeeps == ASSUME AInv, NEW h \in Requests, TakeLock(h) PROVE AInv'
<1>1. request[h] \in RequestRecord /\ InOrder(request[h]) BY RequestIsInOrder
<1>2. request[h].for \in {"callback", "assertion"} /\ SubjectInOrder(request[h])
      /\ request[h].at = "resolve"
  BY <1>1, WhatItDoes DEF TakeLock, At
<1>3. PICK r \in RequestRecord : r = [request[h] EXCEPT !.at = "find"]
  BY <1>1 DEF RequestRecord, Places, Resolving
<1>4. /\ r.at = "find" /\ r.for = request[h].for /\ r.subject = request[h].subject
      /\ r.principal = request[h].principal /\ r.state = request[h].state
      /\ r.browser = request[h].browser /\ r.token = request[h].token
      /\ r.late = request[h].late
  BY <1>1, <1>3 DEF RequestRecord
<1>5. SubjectInOrder(r)
  BY <1>2, <1>4 DEF SubjectInOrder, Resolving
<1>6. r.for = "callback" => CallbackInOrder(r)
  BY <1>1, <1>2, <1>4, <1>5 DEF InOrder, CallbackInOrder, Resolving
<1>7. r.for = "assertion" => AssertionInOrder(r)
  BY <1>4, <1>5 DEF AssertionInOrder, Resolving
<1>8. InOrder(r)
  BY <1>1, <1>2, <1>4, <1>6, <1>7 DEF InOrder
<1>9. Becomes(h, r) /\ lockMap' = lockMap \cup {Lock(h)} /\ Lock(h) \notin lockMap
  BY <1>3 DEF Goes, TakeLock, Unlocked
<1>10. UNCHANGED <<clock, identities, made, principalOf, store, oauth, bot, browser>>
  BY DEF TakeLock
<1>11. request'[h] = r /\ \A g \in Requests \ {h} : request'[g] = request[g]
  BY <1>9, OneIsHandled DEF AInv
<1>12. ~Locked(h) /\ Locked(h)' BY <1>2, <1>4, <1>11 DEF Locked, Resolving
<1>13. \A g \in Requests : (Locked(g)' <=> Locked(g) \/ g = h) /\ Lock(g)' = Lock(g)
  BY <1>4, <1>10, <1>11, <1>12 DEF Locked, Lock, clock
<1>14. LocksExclude'
  <2>1. \A g \in Requests : Locked(g)' => Lock(g)' \in lockMap'
    BY <1>9, <1>13 DEF AInv, LocksExclude
  <2>2. \A g \in Requests : Locked(g) => Lock(g) # Lock(h)
    BY <1>9 DEF AInv, LocksExclude
  <2>3. ASSUME NEW f \in Requests, NEW g \in Requests, Locked(f)', Locked(g)',
               Lock(f)' = Lock(g)'
        PROVE  f = g
    BY <1>13, <2>2, <2>3 DEF AInv, LocksExclude
  <2> QED BY <2>1, <2>3 DEF LocksExclude
<1>15. SessionsAgree'
  <2>1. sessions \in [Tokens -> Session \cup {None}]
        /\ \A t \in Tokens : sessions[t] # None => sessions[t] \in Session
    BY DEF AInv, SessionsAgree
  <2> QED BY <1>4, <1>9, <1>10, <2>1, MakersAreCounted, SessionsStay DEF AInv, store, browser
<1>16. NoncesAreKept' BY <1>10, NoncesStay DEF AInv, clock
<1>17. r.for = "callback" => request[h].for = "callback" /\ r.state = request[h].state
  BY <1>4
<1> QED BY <1>8, <1>9, <1>10, <1>14, <1>15, <1>16, <1>17, QuietStep DEF store

(***************************************************************************)
(* A handler that leaves with its lock released leaves the others as they  *)
(* were.                                                                   *)
(***************************************************************************)
LEMMA ReleaseStep ==
  ASSUME AInv, NEW h \in Requests, Locked(h),
         NEW r \in RequestRecord, Becomes(h, r), InOrder(r), r.at \notin Resolving,
         r.for \in {"none", request[h].for}, r.for = "callback" => r.state = request[h].state,
         lockMap' = lockMap \ {Lock(h)},
         UNCHANGED <<clock, identities, made, principalOf, store, oauth, bot, cookie>>
  PROVE  AInv'
<1>1. LocksExclude' BY LocksStay DEF AInv, clock
<1>2. SessionsAgree'
  <2>1. sessions \in [Tokens -> Session \cup {None}]
        /\ \A t \in Tokens : sessions[t] # None => sessions[t] \in Session
    BY DEF AInv, SessionsAgree
  <2> QED BY <2>1, MakersAreCounted, SessionsStay DEF AInv, store
<1>3. NoncesAreKept' BY NoncesStay DEF AInv, clock
<1> QED BY <1>1, <1>2, <1>3, QuietStep DEF store

(***************************************************************************)
(* DatabaseFails keeps the invariant, since the lock is released.          *)
(***************************************************************************)
LEMMA DatabaseFailsKeeps == ASSUME AInv, NEW h \in Requests, DatabaseFails(h) PROVE AInv'
<1>1. Locked(h) BY DEF DatabaseFails, Locked, Resolving
<1>2. Idle.for = "none" /\ Idle.at = "idle" BY DEF Idle
<1> QED BY <1>1, <1>2, IdleIsInOrder, ReleaseStep DEF DatabaseFails, Fails, browser, Resolving

\* A handler's record once its user has principal p.
After(r, p) ==
  [r EXCEPT !.principal = p, !.at = IF r.for = "callback" THEN "renew" ELSE "granted"]

(***************************************************************************)
(* A handler that goes on with the principal of its user is in order.      *)
(***************************************************************************)
LEMMA ResolvedIsInOrder ==
  ASSUME AInv, NEW h \in Requests, Locked(h), NEW p \in Nat,
         NEW r, r = After(request[h], p)
  PROVE  /\ r \in RequestRecord /\ r.at \notin Resolving
         /\ r.for \in {"callback", "assertion"} /\ r.for = request[h].for
         /\ r.state = request[h].state /\ r.subject = request[h].subject
         /\ p # 0 /\ p = principalOf[request[h].subject] => InOrder(r)
         /\ p # 0 /\ p = principalOf'[request[h].subject] /\ UNCHANGED <<issued, states>>
              => InOrder(r)'
<1>1. request[h] \in RequestRecord /\ InOrder(request[h]) BY RequestIsInOrder
<1>2. request[h].for \in {"callback", "assertion"} /\ SubjectInOrder(request[h])
      /\ request[h].at \in Resolving
  BY <1>1, WhatItDoes DEF Locked
<1>3. r \in RequestRecord
  BY <1>1 DEF RequestRecord, Places, Resolving, After
<1>4. /\ r.at = (IF request[h].for = "callback" THEN "renew" ELSE "granted")
      /\ r.for = request[h].for /\ r.subject = request[h].subject
      /\ r.principal = p /\ r.state = request[h].state
      /\ r.browser = request[h].browser /\ r.token = request[h].token
      /\ r.late = request[h].late
  BY <1>1 DEF RequestRecord, After
<1>5. r.subject \in Subjects /\ r.at \notin Resolving /\ r.at \in {"renew", "granted"} /\ ~r.late
  BY <1>1, <1>2, <1>4 DEF SubjectInOrder, Resolving, InOrder
<1>6. r.for = "callback" =>
        r.browser \in Browsers /\ r.token \in 0 .. issued /\ r.state \in 1 .. states
        /\ r.at = "renew"
  BY <1>1, <1>4 DEF InOrder, CallbackInOrder
<1>7. ASSUME p # 0, p = principalOf[request[h].subject] PROVE InOrder(r)
  <2>1. SubjectInOrder(r) BY <1>4, <1>5, <1>7 DEF SubjectInOrder, Resolving
  <2> QED BY <1>2, <1>4, <1>5, <1>6, <2>1 DEF InOrder, CallbackInOrder, AssertionInOrder
<1>8. ASSUME p # 0, p = principalOf'[request[h].subject], UNCHANGED <<issued, states>>
      PROVE  InOrder(r)'
  <2>1. SubjectInOrder(r)' BY <1>4, <1>5, <1>8 DEF SubjectInOrder, Resolving
  <2> QED BY <1>2, <1>4, <1>5, <1>6, <1>8, <2>1 DEF InOrder, CallbackInOrder, AssertionInOrder
<1> QED BY <1>2, <1>3, <1>4, <1>5, <1>7, <1>8

(***************************************************************************)
(* The principal of a document that is found is the one given out before.  *)
(***************************************************************************)
LEMMA FoundKeeps ==
  ASSUME AInv, NEW h \in Requests, Locked(h),
         NEW d \in Documents(request[h].subject), Resolved(h, d.principal),
         UNCHANGED <<clock, identities, made, store, oauth, bot, browser>>
  PROVE  AInv'
<1>1. d \in identities /\ d.subject = request[h].subject BY DEF Documents
<1>2. /\ d.principal \in Nat /\ d.principal # 0 /\ d.subject \in Subjects
      /\ d.principal = principalOf[d.subject] /\ principalOf \in [Subjects -> 0 .. made]
  BY <1>1 DEF AInv, IdentitiesAgree
<1>3. principalOf' = principalOf
  BY <1>1, <1>2 DEF Resolved
<1>4. PICK r : r = After(request[h], d.principal) OBVIOUS
<1>5. Becomes(h, r) /\ lockMap' = lockMap \ {Lock(h)} BY <1>4 DEF Resolved, After
<1>6. /\ r \in RequestRecord /\ r.at \notin Resolving /\ r.for = request[h].for
      /\ r.state = request[h].state /\ InOrder(r)
  BY <1>1, <1>2, <1>4, ResolvedIsInOrder
<1> QED BY <1>3, <1>5, <1>6, ReleaseStep DEF browser

(***************************************************************************)
(* A document made where there was none gives the user a first principal.  *)
(***************************************************************************)
LEMMA CreatedKeeps ==
  ASSUME AInv, NEW h \in Requests, Locked(h), Documents(request[h].subject) = {}, Created(h),
         UNCHANGED <<clock, store, oauth, bot, browser>>
  PROVE  AInv'
<1> DEFINE u == request[h].subject
           d == [subject |-> u, principal |-> made + 1]
<1>1. request[h] \in RequestRecord /\ InOrder(request[h]) BY RequestIsInOrder
<1>2. u \in Subjects
  BY <1>1, WhatItDoes DEF Locked, SubjectInOrder
<1>3. /\ made \in Nat /\ principalOf \in [Subjects -> 0 .. made] /\ principalOf[u] = 0
      /\ \A e \in identities : e.subject # u
  BY <1>2 DEF AInv, IdentitiesAgree, Documents
<1>4. /\ made' = made + 1 /\ identities' = identities \cup {d}
      /\ lockMap' = lockMap \ {Lock(h)}
      /\ principalOf' = [principalOf EXCEPT ![u] = made + 1]
  BY <1>3 DEF Created, Resolved
<1>5. PICK r : r = After(request[h], made + 1) OBVIOUS
<1>6. Becomes(h, r) BY <1>5 DEF Created, Resolved, After
<1>7. /\ r \in RequestRecord /\ r.at \notin Resolving /\ InOrder(r)'
      /\ r.for \in {"callback", "assertion"} /\ r.for = request[h].for
      /\ r.state = request[h].state
  <2>1. made + 1 \in Nat /\ made + 1 # 0 /\ made + 1 = principalOf'[u]
        /\ UNCHANGED <<issued, states>>
    BY <1>2, <1>3, <1>4 DEF store, oauth
  <2> QED BY <1>5, <2>1, ResolvedIsInOrder
<1>8. request'[h] = r /\ \A g \in Requests \ {h} : request'[g] = request[g]
  BY <1>6, <1>7, OneIsHandled DEF AInv
<1>9. RequestTypes' /\ ClockTypes'
  BY <1>6, <1>7, OneIsHandled DEF AInv, ClockTypes, clock
<1>10. Grows
  BY <1>2, <1>3, <1>4 DEF Grows, AInv, clock, oauth, store, SessionsAgree, StatesAreUsedOnce
<1>11. ASSUME NEW g \in Requests \ {h}, request[g].at = "push"
       PROVE  Documents(request[g].subject)' = {}
  <2>1. ~shared /\ Documents(request[g].subject) = {} BY <1>11, PushersAreFresh DEF AInv
  <2>2. request[g].subject # u
    <3>1. process[g] = process[h] /\ Locked(g) /\ Locked(h) /\ g # h
      BY <1>11, <2>1 DEF AInv, ClockTypes, Locked, Resolving
    <3> QED BY <3>1 DEF AInv, LocksExclude, Lock
  <2> QED BY <1>4, <1>8, <2>1, <2>2 DEF Documents
<1>12. RequestsAreInOrder' BY <1>6, <1>7, <1>10, <1>11, AllAreInOrder DEF AInv
<1>13. LocksExclude' BY <1>4, <1>6, <1>7, LocksStay DEF AInv, clock
<1>14. IdentitiesAgree'
  <2>1. identities' \subseteq [subject : Subjects, principal : 1 .. made']
    BY <1>2, <1>3, <1>4 DEF AInv, IdentitiesAgree
  <2>2. made' \in Nat /\ principalOf' \in [Subjects -> 0 .. made']
    BY <1>2, <1>3, <1>4
  <2>3. \A e, f \in identities' : e.subject = f.subject => e = f
    BY <1>3, <1>4 DEF AInv, IdentitiesAgree
  <2>4. \A e \in identities' : e.principal = principalOf'[e.subject]
    <3>1. \A e \in identities : e.subject \in Subjects /\ e.principal = principalOf[e.subject]
      BY DEF AInv, IdentitiesAgree
    <3> QED BY <1>2, <1>3, <1>4, <3>1
  <2>5. ASSUME NEW v \in Subjects, principalOf'[v] # 0
        PROVE  \E e \in identities' : e.subject = v
    <3>1. CASE v = u
      <4>1. d \in identities' /\ d.subject = v BY <1>4, <3>1
      <4> QED BY <4>1
    <3>2. CASE v # u
      <4>1. principalOf[v] # 0 BY <1>2, <1>3, <1>4, <2>5, <3>2
      <4> QED BY <1>4, <4>1 DEF AInv, IdentitiesAgree
    <3> QED BY <3>1, <3>2
  <2> QED BY <2>1, <2>2, <2>3, <2>4, <2>5 DEF IdentitiesAgree
<1>15. SessionsAgree'
  <2>1. sessions \in [Tokens -> Session \cup {None}]
        /\ \A t \in Tokens : sessions[t] # None => sessions[t] \in Session
    BY DEF AInv, SessionsAgree
  <2> QED BY <1>6, <1>7, <2>1, MakersAreCounted, SessionsStay DEF AInv, store, browser
<1>16. StatesAreUsedOnce' BY <1>6, <1>7, StatesStay DEF AInv, oauth
<1>17. NoncesAreKept' BY NoncesStay DEF AInv, clock
<1> QED BY <1>9, <1>12, <1>13, <1>14, <1>15, <1>16, <1>17 DEF AInv

(***************************************************************************)
(* Find keeps the invariant.                                               *)
(***************************************************************************)
LEMMA FindKeeps == ASSUME AInv, NEW h \in Requests, Find(h) PROVE AInv'
<1>1. Locked(h) BY DEF Find, At, Locked, Resolving
<1>2. UNCHANGED <<clock, identities, made, store, oauth, bot, browser>>
  BY DEF Find
<1>3. CASE \E d \in Documents(request[h].subject) : Resolved(h, d.principal)
  BY <1>1, <1>2, <1>3, FoundKeeps
<1>4. CASE Goes(h, "insert") /\ UNCHANGED <<lockMap, principalOf>>
  BY <1>1, <1>2, <1>4, InsertWaitsKeeps DEF Locked, identity, browser
<1> QED BY <1>3, <1>4 DEF Find

(***************************************************************************)
(* Reread keeps the invariant.                                             *)
(***************************************************************************)
LEMMA RereadKeeps == ASSUME AInv, NEW h \in Requests, Reread(h) PROVE AInv'
<1>1. Locked(h) BY DEF Reread, At, Locked, Resolving
<1> QED BY <1>1, FoundKeeps DEF Reread

(***************************************************************************)
(* Insert keeps the invariant, in a database and in one process.           *)
(***************************************************************************)
LEMMA InsertKeeps == ASSUME AInv, NEW h \in Requests, Insert(h) PROVE AInv'
<1>1. Locked(h) BY DEF Insert, At, Locked, Resolving
<1>2. UNCHANGED <<clock, store, oauth, bot, browser>>
  BY DEF Insert
<1>3. CASE ~Unique(request[h].subject)
  <2>1. Goes(h, "reread") /\ UNCHANGED identity BY <1>3 DEF Insert
  <2> QED BY <1>1, <1>2, <2>1, InsertWaitsKeeps DEF Locked, browser
<1>4. CASE Unique(request[h].subject) /\ shared
  <2>1. Created(h) BY <1>4 DEF Insert
  <2> QED BY <1>1, <1>2, <1>4, <2>1, CreatedKeeps DEF Unique
<1>5. CASE Unique(request[h].subject) /\ ~shared
  <2>1. Goes(h, "push") /\ UNCHANGED identity BY <1>5 DEF Insert
  <2> QED BY <1>1, <1>2, <1>5, <2>1, InsertWaitsKeeps DEF Locked, browser, Unique
<1> QED BY <1>3, <1>4, <1>5

(***************************************************************************)
(* Push keeps the invariant: between the look and the push the lock has    *)
(* kept the others out.                                                    *)
(***************************************************************************)
LEMMA PushKeeps == ASSUME AInv, NEW h \in Requests, Push(h) PROVE AInv'
<1>1. Locked(h) /\ request[h].at = "push" BY DEF Push, At, Locked, Resolving
<1>2. Documents(request[h].subject) = {} BY <1>1, PushersAreFresh DEF AInv
<1> QED BY <1>1, <1>2, CreatedKeeps DEF Push

-----------------------------------------------------------------------------
(***************************************************************************)
(* A token that was issued is within the bound.                            *)
(***************************************************************************)
LEMMA TokensAreIssued ==
  ASSUME AInv, NEW t \in 1 .. issued
  PROVE  t \in Tokens
<1>1. Cardinality(Making) \in Nat
  BY RequestsAssumption, FS_Subset, FS_CardinalityType DEF Making
<1> QED BY <1>1, BoundsAssumption DEF AInv, SessionsAgree, Tokens

(***************************************************************************)
(* A deletion leaves the other sessions as they are.                       *)
(***************************************************************************)
LEMMA RemovedStep ==
  ASSUME AInv, NEW t, Removed(t)
  PROVE  /\ sessions' \in [Tokens -> Session \cup {None}]
         /\ \A k \in Tokens : sessions'[k] # None =>
              /\ sessions[k] # None
              /\ sessions'[k] \in Session /\ sessions'[k].createdAt = sessions[k].createdAt
BY DEF Removed, AInv, SessionsAgree

(***************************************************************************)
(* Expire keeps the invariant.                                             *)
(***************************************************************************)
LEMMA ExpireKeeps == ASSUME AInv, NEW h \in Requests, Expire(h) PROVE AInv'
<1>1. request[h] \in RequestRecord /\ InOrder(request[h]) BY RequestIsInOrder
<1>2. request[h].for = "cookie" /\ CookieInOrder(request[h])
  BY <1>1, WhatItDoes DEF Expire, At
<1>3. PICK r \in RequestRecord : r = [request[h] EXCEPT !.at = "anonymous"]
  BY <1>1 DEF RequestRecord, Places
<1>4. CookieInOrder(r)
  BY <1>1, <1>2, <1>3 DEF RequestRecord, CookieInOrder
<1>5. InOrder(r) /\ r.for = "cookie" /\ r.at \notin Resolving
  BY <1>1, <1>2, <1>3, <1>4 DEF RequestRecord, InOrder, Resolving
<1>6. Becomes(h, r) /\ Removed(request[h].token) BY <1>3 DEF Expire, Goes
<1>7. UNCHANGED <<clock, identity, oauth, bot, issued, loggedIn, loggedOut, cookie>>
  BY DEF Expire, browser
<1> QED BY <1>5, <1>6, <1>7, RemovedStep, SessionStep

(***************************************************************************)
(* Unlink keeps the invariant.                                             *)
(***************************************************************************)
LEMMA UnlinkKeeps == ASSUME AInv, NEW h \in Requests, Unlink(h) PROVE AInv'
<1>1. request[h] \in RequestRecord /\ InOrder(request[h]) BY RequestIsInOrder
<1>2. request[h].for = "rotate" /\ RotateInOrder(request[h])
  BY <1>1, WhatItDoes DEF Unlink, At
<1>3. PICK r \in RequestRecord : r = [request[h] EXCEPT !.at = "relink"]
  BY <1>1 DEF RequestRecord, Places
<1>4. RotateInOrder(r)
  BY <1>1, <1>2, <1>3 DEF RequestRecord, RotateInOrder
<1>5. InOrder(r) /\ r.for = "rotate" /\ r.at \notin Resolving
  BY <1>1, <1>2, <1>3, <1>4 DEF RequestRecord, InOrder, Resolving
<1>6. Becomes(h, r) /\ Removed(request[h].token) BY <1>3 DEF Unlink, Goes
<1>7. UNCHANGED <<clock, identity, oauth, bot, issued, loggedIn, loggedOut, cookie>>
  BY DEF Unlink, browser
<1> QED BY <1>2, <1>5, <1>6, <1>7, RemovedStep, SessionStep

(***************************************************************************)
(* DestroyOldSession keeps the invariant, whether the deletion succeeds or *)
(* fails.                                                                  *)
(***************************************************************************)
LEMMA DestroyOldSessionKeeps ==
  ASSUME AInv, NEW h \in Requests, DestroyOldSession(h)
  PROVE  AInv'
<1>1. request[h] \in RequestRecord /\ InOrder(request[h]) BY RequestIsInOrder
<1>2. request[h].for = "callback" /\ CallbackInOrder(request[h]) /\ request[h].at = "renew"
  BY <1>1, WhatItDoes DEF DestroyOldSession, At
<1>3. PICK r \in RequestRecord : r = [request[h] EXCEPT !.at = "create"]
  BY <1>1 DEF RequestRecord, Places
<1>4. CallbackInOrder(r)
  BY <1>1, <1>2, <1>3 DEF RequestRecord, CallbackInOrder, SubjectInOrder, Resolving
<1>5. InOrder(r) /\ r.for = "callback" /\ r.state = request[h].state /\ r.at \notin Resolving
  BY <1>1, <1>2, <1>3, <1>4 DEF RequestRecord, InOrder, Resolving
<1>6. Becomes(h, r) BY <1>3 DEF DestroyOldSession, Goes
<1>7. UNCHANGED <<clock, identity, oauth, bot, issued, loggedIn, loggedOut, cookie>>
  BY DEF DestroyOldSession, browser
<1>8. CASE Removed(request[h].token)
  BY <1>2, <1>5, <1>6, <1>7, <1>8, RemovedStep, SessionStep
<1>9. CASE UNCHANGED sessions
  <2>1. UNCHANGED <<clock, identity, store, oauth, bot, cookie>> BY <1>7, <1>9 DEF store
  <2> QED BY <1>2, <1>5, <1>6, <2>1, PlainStep
<1> QED BY <1>8, <1>9 DEF DestroyOldSession

(***************************************************************************)
(* A stored session that is seen again is as old as before and was not     *)
(* logged out.                                                             *)
(***************************************************************************)
LEMMA SeenAgain ==
  ASSUME AInv, NEW t \in Tokens, sessions[t] # None, NEW time \in 0 .. maxTime
  PROVE  /\ sessions[t] \in Session /\ [sessions[t] EXCEPT !.lastSeenAt = time] \in Session
         /\ [sessions[t] EXCEPT !.lastSeenAt = time].createdAt = loggedIn[t]
         /\ [sessions[t] EXCEPT !.lastSeenAt = time].lastSeenAt = time
         /\ sessions[t].createdAt = loggedIn[t] /\ sessions[t].principal \in Nat
         /\ t \notin loggedOut
<1>1. sessions[t] \in Session /\ sessions[t].createdAt = loggedIn[t] /\ t \notin loggedOut
  BY DEF AInv, SessionsAgree
<1> QED BY <1>1 DEF Session

(***************************************************************************)
(* Touch keeps the invariant: an update after the logout finds no document *)
(* and makes none.                                                         *)
(***************************************************************************)
LEMMA TouchKeeps == ASSUME AInv, NEW h \in Requests, Touch(h) PROVE AInv'
<1> DEFINE t == request[h].token
<1>1. request[h] \in RequestRecord /\ InOrder(request[h]) BY RequestIsInOrder
<1>2. request[h].for = "cookie" /\ CookieInOrder(request[h]) /\ request[h].at = "touch"
  BY <1>1, WhatItDoes DEF Touch, At
<1>3. request[h].read \in Session /\ t \in 1 .. issued
  BY <1>2 DEF CookieInOrder
<1>4. PICK r \in RequestRecord :
        r = [request[h] EXCEPT !.at = "granted", !.principal = request[h].read.principal]
  BY <1>1, <1>3 DEF RequestRecord, Places, Session
<1>5. CookieInOrder(r)
  BY <1>1, <1>2, <1>4 DEF RequestRecord, CookieInOrder
<1>6. InOrder(r) /\ r.for = "cookie" /\ r.at \notin Resolving
  BY <1>1, <1>2, <1>4, <1>5 DEF RequestRecord, InOrder, Resolving
<1>7. Becomes(h, r) BY <1>4 DEF Touch
<1>8. UNCHANGED <<clock, identity, oauth, bot, issued, loggedIn, loggedOut, cookie>>
  BY DEF Touch, browser
<1>9. t \in Tokens BY <1>3, TokensAreIssued
<1>10. PICK time \in 0 .. maxTime : time = request[h].read.lastSeenAt
  BY <1>3 DEF Session
<1>11. sessions' = [sessions EXCEPT ![t] =
          IF sessions[t] = None THEN None ELSE [sessions[t] EXCEPT !.lastSeenAt = time]]
  BY <1>10 DEF Touch, Touched
<1>12. /\ sessions' \in [Tokens -> Session \cup {None}]
       /\ \A k \in Tokens : sessions'[k] # None =>
            /\ sessions[k] # None
            /\ sessions'[k] \in Session /\ sessions'[k].createdAt = sessions[k].createdAt
  <2>1. sessions \in [Tokens -> Session \cup {None}]
        /\ \A k \in Tokens : sessions[k] # None => sessions[k] \in Session
    BY DEF AInv, SessionsAgree
  <2>2. CASE sessions[t] = None
    BY <1>9, <1>11, <2>1, <2>2
  <2>3. CASE sessions[t] # None
    <3>1. PICK s \in Session : s = [sessions[t] EXCEPT !.lastSeenAt = time]
      BY <1>9, <2>3, SeenAgain
    <3>2. s.createdAt = sessions[t].createdAt
      BY <1>9, <2>3, <3>1, SeenAgain
    <3>3. sessions' = [sessions EXCEPT ![t] = s] BY <1>11, <2>3, <3>1
    <3> QED BY <1>9, <2>1, <2>3, <3>2, <3>3
  <2> QED BY <2>2, <2>3
<1> QED BY <1>6, <1>7, <1>8, <1>12, SessionStep

(***************************************************************************)
(* A request with a cookie that is left in order keeps the invariant.      *)
(***************************************************************************)
LEMMA CookieSteps ==
  ASSUME AInv, NEW h \in Requests, NEW r \in RequestRecord, Becomes(h, r),
         CookieInOrder(r), r.for = "cookie",
         UNCHANGED <<clock, identity, issued, loggedIn, loggedOut, oauth, bot, browser>>,
         sessions' \in [Tokens -> Session \cup {None}],
         \A t \in Tokens : sessions'[t] # None =>
           /\ sessions[t] # None
           /\ sessions'[t] \in Session /\ sessions'[t].createdAt = sessions[t].createdAt
  PROVE  AInv'
<1>1. InOrder(r) /\ r.at \notin Resolving
  BY DEF InOrder, CookieInOrder, Resolving
<1>2. UNCHANGED cookie BY DEF browser
<1> QED BY <1>1, <1>2, SessionStep

(***************************************************************************)
(* GetSession keeps the invariant: what is found young is granted, and     *)
(* what was logged out is not found.                                       *)
(***************************************************************************)
LEMMA GetSessionKeeps ==
  ASSUME AInv, NEW h \in Requests, NEW b \in Browsers,
         NEW t \in {cookie[b]} \cup loggedOut, GetSession(h, b, t)
  PROVE  AInv'
<1>1. t \in 1 .. issued /\ t \in Tokens
  <2>1. t \in 1 .. issued BY DEF AInv, SessionsAgree, GetSession
  <2> QED BY <2>1, TokensAreIssued
<1>2. now \in 0 .. maxTime /\ now \in Nat /\ issued \in Nat
  BY BoundsAssumption DEF AInv, ClockTypes, SessionsAgree
<1>3. /\ sessions \in [Tokens -> Session \cup {None}]
      /\ \A k \in Tokens : sessions[k] # None => sessions[k] \in Session
  BY DEF AInv, SessionsAgree
<1> DEFINE s == sessions[t]
<1>0. PICK late \in BOOLEAN : late = (t \in loggedOut)
  <2>1. (t \in loggedOut) \in BOOLEAN OBVIOUS
  <2> QED BY <2>1
<1> DEFINE basis == [Idle EXCEPT !.for = "cookie", !.browser = b, !.token = t,
                       !.checkedAt = now, !.late = late, !.read = s]
<1>9. PICK q \in RequestRecord : q = basis
  <2>1. t \in Nat /\ now \in Nat /\ s \in Session \cup {None}
    BY <1>1, <1>2, <1>3
  <2>2. Idle \in RequestRecord BY IdleIsInOrder
  <2> HIDE DEF s
  <2>3. basis \in RequestRecord BY <2>1, <2>2 DEF RequestRecord
  <2> QED BY <2>3
<1>10. q.for = "cookie" /\ q.subject = None /\ q.browser = b /\ q.token = t
       /\ q.late = late /\ q.checkedAt = now /\ q.read = s
  BY <1>9 DEF Idle
<1>4. UNCHANGED <<clock, identity, issued, loggedIn, loggedOut, oauth, bot, browser>>
  BY DEF GetSession
<1>5. ASSUME s = None \/ Expired(s), NEW place \in {"anonymous", "expire"},
             place = "anonymous" \/ s # None,
             Becomes(h, [q EXCEPT !.at = place]),
             UNCHANGED sessions \/ Removed(t)
      PROVE  AInv'
  <2>1. PICK r \in RequestRecord : r = [q EXCEPT !.at = place]
    BY <1>1, <1>2, <1>3 DEF RequestRecord, Places
  <2>2. r.for = "cookie" /\ r.at = place /\ r.subject = None /\ r.browser = b /\ r.token = t
        /\ r.late = late
    BY <1>10, <2>1 DEF RequestRecord
  <2>3. s # None => t \notin loggedOut BY <1>1 DEF AInv, SessionsAgree
  <2>4. CookieInOrder(r) BY <1>0, <1>9, <1>1, <1>5, <2>2, <2>3 DEF CookieInOrder
  <2>5. CASE Removed(t) BY <1>4, <1>5, <2>1, <2>2, <2>4, <2>5, RemovedStep, CookieSteps
  <2>6. CASE UNCHANGED sessions BY <1>3, <1>4, <1>5, <2>1, <2>2, <2>4, <2>6, CookieSteps
  <2> QED BY <1>5, <2>5, <2>6
<1>6. ASSUME s # None, ~Expired(s) PROVE AInv'
  <2>1. PICK s2 \in Session : s2 = [s EXCEPT !.lastSeenAt = now]
    BY <1>1, <1>2, <1>6, SeenAgain
  <2>2. /\ s2.createdAt = loggedIn[t] /\ s2.createdAt = s.createdAt
        /\ t \notin loggedOut /\ s.principal \in Nat /\ s \in Session
    BY <1>1, <1>2, <1>6, <2>1, SeenAgain
  <2>3. Young(t, now) BY <1>2, <1>6, <2>2, TtlAssumption DEF Expired, Young, Session
  <2>4. CASE shared
    <3>1. PICK r \in RequestRecord : r = [q EXCEPT !.at = "touch", !.read = s2]
      BY <1>1, <1>2, <1>3, <2>1 DEF RequestRecord, Places
    <3>2. r.for = "cookie" /\ r.at = "touch" /\ r.subject = None /\ r.browser = b /\ r.token = t
          /\ r.late = late /\ r.checkedAt = now /\ r.read = s2
      BY <1>10, <3>1 DEF RequestRecord
    <3>3. CookieInOrder(r) BY <1>0, <1>9, <1>1, <2>2, <2>3, <3>2 DEF CookieInOrder
    <3>4. Becomes(h, r) /\ UNCHANGED sessions
      BY <1>0, <1>9, <1>6, <2>1, <2>4, <3>1 DEF GetSession
    <3> QED BY <1>3, <1>4, <3>2, <3>3, <3>4, CookieSteps
  <2>5. CASE ~shared
    <3>1. PICK r \in RequestRecord : r = [q EXCEPT !.at = "granted", !.principal = s.principal]
      BY <1>1, <1>2, <1>3, <2>2 DEF RequestRecord, Places
    <3>2. r.for = "cookie" /\ r.at = "granted" /\ r.subject = None /\ r.browser = b /\ r.token = t
          /\ r.late = late /\ r.checkedAt = now
      BY <1>10, <3>1 DEF RequestRecord
    <3>3. CookieInOrder(r) BY <1>0, <1>9, <1>1, <2>2, <2>3, <3>2 DEF CookieInOrder
    <3>4. Becomes(h, r) /\ sessions' = [sessions EXCEPT ![t] = s2]
      BY <1>0, <1>9, <1>6, <2>1, <2>5, <3>1 DEF GetSession
    <3>5. /\ sessions' \in [Tokens -> Session \cup {None}]
          /\ \A k \in Tokens : sessions'[k] # None =>
               /\ sessions[k] # None
               /\ sessions'[k] \in Session /\ sessions'[k].createdAt = sessions[k].createdAt
      BY <1>1, <1>3, <1>6, <2>2, <3>4
    <3> QED BY <1>4, <3>2, <3>3, <3>4, <3>5, CookieSteps
  <2> QED BY <2>4, <2>5
<1>7. CASE s = None
  <2>1. Becomes(h, [q EXCEPT !.at = "anonymous"]) /\ UNCHANGED sessions
    BY <1>0, <1>9, <1>7 DEF GetSession
  <2> QED BY <1>5, <1>7, <2>1
<1>8. CASE s # None /\ Expired(s)
  <2>1. \/ Becomes(h, [q EXCEPT !.at = "expire"]) /\ UNCHANGED sessions
        \/ Becomes(h, [q EXCEPT !.at = "anonymous"]) /\ Removed(t)
    BY <1>0, <1>9, <1>8 DEF GetSession
  <2> QED BY <1>5, <1>8, <2>1
<1> QED BY <1>6, <1>7, <1>8

(***************************************************************************)
(* HandleLogout keeps the invariant: the session is deleted before the     *)
(* logout is answered.                                                     *)
(***************************************************************************)
LEMMA HandleLogoutKeeps == ASSUME AInv, NEW h \in Requests, HandleLogout(h) PROVE AInv'
<1> DEFINE t == request[h].token
<1>1. request[h] \in RequestRecord /\ InOrder(request[h]) BY RequestIsInOrder
<1>2. CookieInOrder(request[h]) /\ t \in 1 .. issued
  BY <1>1, WhatItDoes DEF HandleLogout, At, CookieInOrder
<1>3. Becomes(h, Idle) /\ Idle.for = "none" /\ Idle.at = "idle" BY DEF HandleLogout, Idle
<1>4. UNCHANGED <<clock, identity, issued, loggedIn, oauth, bot>>
  BY DEF HandleLogout
<1>5. SessionsAgree'
  <2>1. Cardinality(Making)' \in Nat /\ Cardinality(Making) \in Nat
        /\ Cardinality(Making)' <= Cardinality(Making)
    BY <1>3, IdleIsInOrder, MakersAreCounted DEF AInv
  <2>2. issued' \in Nat /\ issued' + Cardinality(Making)' <= maxTokens
    BY <1>4, <2>1, BoundsAssumption DEF AInv, SessionsAgree
  <2>3. loggedOut' \subseteq 1 .. issued' /\ cookie' \in [Browsers -> 0 .. issued']
    <3>1. cookie \in [Browsers -> 0 .. issued] /\ loggedOut \subseteq 1 .. issued
      BY DEF AInv, SessionsAgree
    <3>2. issued' = issued /\ loggedOut' = loggedOut \cup {t}
          /\ cookie' = [cookie EXCEPT ![request[h].browser] = 0]
      BY DEF HandleLogout
    <3>3. 0 \in 0 .. issued BY <1>4, <2>2
    <3> QED BY <1>2, <3>1, <3>2, <3>3
  <2>4. /\ sessions' \in [Tokens -> Session \cup {None}]
        /\ \A k \in Tokens : sessions'[k] # None => k # t /\ sessions'[k] = sessions[k]
    BY DEF HandleLogout, Removed, AInv, SessionsAgree
  <2>5. \A k \in Tokens : sessions'[k] # None =>
          /\ k \in 1 .. issued' /\ k \notin loggedOut'
          /\ sessions'[k] \in Session /\ sessions'[k].createdAt = loggedIn'[k]
    BY <1>4, <2>4 DEF HandleLogout, AInv, SessionsAgree
  <2> QED BY <1>4, <2>2, <2>3, <2>4, <2>5 DEF AInv, SessionsAgree
<1>6. LocksExclude' BY <1>3, <1>4, IdleIsInOrder, LocksStay DEF AInv, clock, identity, Resolving
<1>7. NoncesAreKept' BY <1>4, NoncesStay DEF AInv, clock
<1> QED BY <1>3, <1>4, <1>5, <1>6, <1>7, IdleIsInOrder, QuietStep DEF identity

(***************************************************************************)
(* The invariant is kept by a step that issues a token or takes up a       *)
(* state, given what it does to sessions and states.                       *)
(***************************************************************************)
LEMMA GrowStep ==
  ASSUME AInv, NEW h \in Requests, NEW r \in RequestRecord, Becomes(h, r), InOrder(r)',
         Grows, UNCHANGED <<clock, identity, bot>>, r.at \notin Resolving,
         SessionsAgree', StatesAreUsedOnce'
  PROVE  AInv'
<1>1. RequestTypes' BY OneIsHandled DEF AInv
<1>2. ClockTypes' BY DEF AInv, ClockTypes, clock
<1>3. \A g \in Requests \ {h} :
        request[g].at = "push" => Documents(request[g].subject)' = {}
  BY PushersAreFresh, OneIsHandled DEF AInv, Documents, identity
<1>4. RequestsAreInOrder' BY <1>3, AllAreInOrder DEF AInv
<1>5. LocksExclude' BY LocksStay DEF AInv, clock, identity
<1>6. IdentitiesAgree' BY IdentitiesStay DEF AInv, identity
<1>7. NoncesAreKept' BY NoncesStay DEF AInv, clock
<1> QED BY <1>1, <1>2, <1>4, <1>5, <1>6, <1>7 DEF AInv

(***************************************************************************)
(* A session under a new token, made when its sign-in was, agrees with the *)
(* others.                                                                 *)
(***************************************************************************)
LEMMA SessionIsAdded ==
  ASSUME SessionsAgree, NEW s \in Session, NEW b \in Browsers,
         issued' = issued + 1,
         sessions' \in [Tokens -> Session \cup {None}], sessions'[issued + 1] = s,
         \A k \in Tokens \ {issued + 1} : sessions'[k] = None \/ sessions'[k] = sessions[k],
         loggedIn' = [loggedIn EXCEPT ![issued + 1] = s.createdAt],
         cookie' = [cookie EXCEPT ![b] = issued + 1],
         UNCHANGED loggedOut,
         Cardinality(Making)' \in Nat, issued + 1 + Cardinality(Making)' <= maxTokens
  PROVE  SessionsAgree'
<1>1. issued \in Nat /\ issued' \in Nat /\ issued + 1 \in 1 .. issued'
  BY DEF SessionsAgree
<1>2. issued + 1 \in Tokens BY <1>1, BoundsAssumption DEF Tokens
<1>3. s.createdAt \in 0 .. maxTime BY DEF Session
<1>4. loggedIn' \in [Tokens -> 0 .. maxTime] /\ loggedIn'[issued + 1] = s.createdAt
      /\ \A k \in Tokens \ {issued + 1} : loggedIn'[k] = loggedIn[k]
  BY <1>2, <1>3 DEF SessionsAgree
<1>5. cookie' \in [Browsers -> 0 .. issued'] BY <1>1 DEF SessionsAgree
<1>6. loggedOut' \subseteq 1 .. issued' /\ issued + 1 \notin loggedOut'
  BY <1>1 DEF SessionsAgree
<1>7. ASSUME NEW k \in Tokens, sessions'[k] # None
      PROVE  /\ k \in 1 .. issued' /\ k \notin loggedOut'
             /\ sessions'[k] \in Session /\ sessions'[k].createdAt = loggedIn'[k]
  <2>1. CASE k = issued + 1 BY <1>1, <1>4, <1>6, <2>1
  <2>2. CASE k # issued + 1
    <3>1. sessions'[k] = sessions[k] BY <1>7, <2>2
    <3>2. k \in 1 .. issued /\ k \notin loggedOut
          /\ sessions[k] \in Session /\ sessions[k].createdAt = loggedIn[k]
      BY <1>7, <3>1 DEF SessionsAgree
    <3> QED BY <1>1, <1>4, <2>2, <3>1, <3>2
  <2> QED BY <2>1, <2>2
<1>8. issued' + Cardinality(Making)' <= maxTokens BY <1>1
<1> QED BY <1>1, <1>4, <1>5, <1>6, <1>7, <1>8 DEF SessionsAgree

(***************************************************************************)
(* The invariant is kept by a handler that issues a session and ends.      *)
(***************************************************************************)
LEMMA IssueStep ==
  ASSUME AInv, NEW h \in Requests, Becomes(h, Idle), NEW s \in Session, NEW b \in Browsers,
         UNCHANGED <<clock, identity, loggedOut, states, bot>>, issued' = issued + 1,
         sessions' \in [Tokens -> Session \cup {None}], sessions'[issued + 1] = s,
         \A k \in Tokens \ {issued + 1} : sessions'[k] = None \/ sessions'[k] = sessions[k],
         loggedIn' = [loggedIn EXCEPT ![issued + 1] = s.createdAt],
         cookie' = [cookie EXCEPT ![b] = issued + 1],
         issued + 1 + Cardinality(Making)' <= maxTokens, StatesAreUsedOnce'
  PROVE  AInv'
<1>1. Idle.for = "none" /\ Idle.at = "idle" BY DEF Idle
<1>2. Cardinality(Making)' \in Nat BY IdleIsInOrder, MakersAreCounted DEF AInv
<1>3. SessionsAgree' BY <1>2, SessionIsAdded DEF AInv
<1>4. issued \in Nat /\ \A t \in 1 .. issued : t \in Tokens /\ t # issued + 1
  BY TokensAreIssued DEF AInv, SessionsAgree
<1>5. Grows
  BY <1>4 DEF Grows, AInv, clock, identity, SessionsAgree, StatesAreUsedOnce
<1> QED BY <1>1, <1>3, <1>5, IdleIsInOrder, IdleStaysInOrder, GrowStep DEF Resolving

(***************************************************************************)
(* Relink keeps the invariant: the new session is as old as the one it     *)
(* replaces.                                                               *)
(***************************************************************************)
LEMMA RelinkKeeps == ASSUME AInv, NEW h \in Requests, Relink(h) PROVE AInv'
<1> DEFINE t == request[h].token
<1>1. request[h] \in RequestRecord /\ InOrder(request[h]) BY RequestIsInOrder
<1>2. request[h].for = "rotate" /\ RotateInOrder(request[h])
  BY <1>1, WhatItDoes DEF Relink, At
<1>3. request[h].read \in Session /\ request[h].read.createdAt = loggedIn[t]
      /\ request[h].browser \in Browsers
  BY <1>2 DEF RotateInOrder
<1>4. PICK s \in Session : s = Rotated(request[h].read) /\ s.createdAt = loggedIn[t]
  <2>1. PICK q \in Session : q = request[h].read BY <1>3
  <2>2. now \in 0 .. maxTime BY DEF AInv, ClockTypes
  <2>3. Rotated(q) \in Session /\ Rotated(q).createdAt = q.createdAt
    BY <2>2 DEF Rotated, Session
  <2> QED BY <1>3, <2>1, <2>3
<1>5. /\ issued' = issued + 1 /\ sessions' = [sessions EXCEPT ![issued + 1] = s]
      /\ loggedIn' = [loggedIn EXCEPT ![issued + 1] = s.createdAt]
      /\ cookie' = [cookie EXCEPT ![request[h].browser] = issued + 1]
      /\ Becomes(h, Idle)
  BY <1>4 DEF Relink, NewSession
<1>6. issued + 1 + Cardinality(Making)' <= maxTokens
  <2>1. Idle.for = "none" BY DEF Idle
  <2>2. Cardinality(Making) \in Nat /\ Cardinality(Making)' \in Nat
        /\ Cardinality(Making)' + 1 = Cardinality(Making)
    BY <1>2, <1>5, <2>1, IdleIsInOrder, MakersAreCounted DEF AInv
  <2> QED BY <2>2, BoundsAssumption DEF AInv, SessionsAgree
<1>7. issued \in Nat /\ issued + 1 \in Tokens
  <2>1. Cardinality(Making)' \in Nat BY <1>5, IdleIsInOrder, MakersAreCounted DEF AInv
  <2> QED BY <1>6, <2>1, BoundsAssumption DEF AInv, SessionsAgree, Tokens
<1>8. /\ sessions' \in [Tokens -> Session \cup {None}] /\ sessions'[issued + 1] = s
      /\ \A k \in Tokens \ {issued + 1} : sessions'[k] = sessions[k]
  BY <1>5, <1>7 DEF AInv, SessionsAgree
<1>9. UNCHANGED <<clock, identity, loggedOut, oauth, bot>> BY DEF Relink
<1>10. StatesAreUsedOnce'
  BY <1>5, <1>9, IdleIsInOrder, StatesStay DEF AInv, oauth, Idle
<1> QED BY <1>3, <1>5, <1>6, <1>8, <1>9, <1>10, IssueStep DEF oauth

(***************************************************************************)
(* CreateSession keeps the invariant: the state leads to no second         *)
(* session, since the handler had it alone.                                *)
(***************************************************************************)
LEMMA CreateSessionKeeps == ASSUME AInv, NEW h \in Requests, CreateSession(h) PROVE AInv'
<1> DEFINE st == request[h].state
<1>1. request[h] \in RequestRecord /\ InOrder(request[h]) BY RequestIsInOrder
<1>2. request[h].for = "callback" /\ CallbackInOrder(request[h]) /\ request[h].at = "create"
  BY <1>1, WhatItDoes DEF CreateSession, At
<1>3. /\ request[h].browser \in Browsers /\ st \in 1 .. states
      /\ request[h].principal \in Nat \ {0}
  BY <1>1, <1>2 DEF CallbackInOrder, SubjectInOrder, RequestRecord
<1>4. PICK s \in Session :
        s = [principal |-> request[h].principal, createdAt |-> now, lastSeenAt |-> now]
  BY <1>3 DEF Session, AInv, ClockTypes
<1>5. s.createdAt = now BY <1>4
<1>6. /\ issued' = issued + 1 /\ sessions' = [sessions EXCEPT ![issued + 1] = s]
      /\ loggedIn' = [loggedIn EXCEPT ![issued + 1] = s.createdAt]
      /\ cookie' = [cookie EXCEPT ![request[h].browser] = issued + 1]
      /\ Becomes(h, Idle)
  BY <1>4, <1>5 DEF CreateSession, NewSession
<1>7. issued + 1 + Cardinality(Making)' <= maxTokens /\ Cardinality(Making)' \in Nat
  <2>1. Idle.for = "none" BY DEF Idle
  <2>2. Cardinality(Making) \in Nat /\ Cardinality(Making)' \in Nat
        /\ Cardinality(Making)' + 1 = Cardinality(Making)
    BY <1>2, <1>6, <2>1, IdleIsInOrder, MakersAreCounted DEF AInv
  <2> QED BY <2>2, BoundsAssumption DEF AInv, SessionsAgree
<1>8. issued \in Nat /\ issued + 1 \in Tokens
  BY <1>7, BoundsAssumption DEF AInv, SessionsAgree, Tokens
<1>9. /\ sessions' \in [Tokens -> Session \cup {None}] /\ sessions'[issued + 1] = s
      /\ \A k \in Tokens \ {issued + 1} : sessions'[k] = sessions[k]
  BY <1>6, <1>8 DEF AInv, SessionsAgree
<1>10. UNCHANGED <<clock, identity, loggedOut, pendingStates, states, bot>>
  BY DEF CreateSession
<1>11. completed' = completed \cup {<<st, issued + 1>>} BY DEF CreateSession
<1>12. StatesAreUsedOnce'
  <2>1. request'[h] = Idle /\ \A g \in Requests \ {h} : request'[g] = request[g]
    BY <1>6, IdleIsInOrder, OneIsHandled DEF AInv
  <2>2. /\ \A p \in pendingStates \cup completed : p[1] # st
        /\ \A g \in Requests \ {h} : request[g].for = "callback" => request[g].state # st
    BY <1>2 DEF AInv, StatesAreUsedOnce
  <2>3. \A c \in completed' : c[1] \in 1 .. states /\ \A p \in pendingStates : p[1] # c[1]
    BY <1>3, <1>11, <2>2 DEF AInv, StatesAreUsedOnce
  <2>4. StateMakesOneSession'
    BY <1>11, <2>2 DEF AInv, StatesAreUsedOnce, StateMakesOneSession
  <2>5. ASSUME NEW g \in Requests, request'[g].for = "callback"
        PROVE  /\ \A p \in pendingStates \cup completed' : p[1] # request'[g].state
               /\ \A f \in Requests \ {g} :
                    request'[f].for = "callback" => request'[f].state # request'[g].state
    <3>1. g # h BY <2>1, <2>5 DEF Idle
    <3>2. request'[g] = request[g] /\ request[g].for = "callback" BY <2>1, <2>5, <3>1
    <3>3. \A f \in Requests : request'[f].for = "callback" =>
            request'[f] = request[f] /\ request[f].for = "callback"
      BY <2>1 DEF Idle
    <3> QED BY <1>11, <2>2, <3>1, <3>2, <3>3 DEF AInv, StatesAreUsedOnce
  <2> QED BY <1>10, <2>3, <2>4, <2>5 DEF AInv, StatesAreUsedOnce
<1> QED BY <1>3, <1>6, <1>7, <1>9, <1>10, <1>12, IssueStep

(***************************************************************************)
(* RotateSession keeps the invariant, in a database and in one process.    *)
(***************************************************************************)
LEMMA RotateSessionKeeps ==
  ASSUME AInv, NEW h \in Requests, NEW b \in Browsers, RotateSession(h, b)
  PROVE  AInv'
<1> DEFINE t == cookie[b]
           s == sessions[t]
<1>1. request[h] = Idle /\ Idle \in RequestRecord /\ Idle.for = "none" /\ Idle.at = "idle"
  BY RequestIsInOrder, WhatItDoes, IdleIsInOrder DEF RotateSession, At, Idle
<1>2. issued \in Nat /\ t \in 1 .. issued /\ t \in Tokens
  <2>1. issued \in Nat /\ t \in 1 .. issued BY DEF AInv, SessionsAgree, RotateSession
  <2> QED BY <2>1, TokensAreIssued
<1>3. s # None /\ s \in Session /\ s.createdAt = loggedIn[t]
  BY <1>2 DEF RotateSession, AInv, SessionsAgree
<1>4. UNCHANGED <<clock, identity, loggedOut, oauth, bot>> BY DEF RotateSession
<1>5. Cardinality(Making) \in Nat /\ issued + Cardinality(Making) < maxTokens
  <2>1. Cardinality(Making) \in Nat
    BY RequestsAssumption, FS_Subset, FS_CardinalityType DEF Making
  <2> QED BY <2>1 DEF RotateSession, Room, Making
<1>6. request \in [Requests -> RequestRecord] BY DEF AInv, RequestTypes
<1>7. ASSUME Expired(s) PROVE AInv'
  <2>1. Removed(t) /\ UNCHANGED <<request, issued, loggedIn, cookie>>
    BY <1>7 DEF RotateSession
  <2>2. Becomes(h, Idle) BY <1>1, <1>6, <2>1 DEF Becomes
  <2> QED BY <1>1, <1>4, <2>1, <2>2, IdleIsInOrder, RemovedStep, SessionStep DEF Resolving
<1>8. ASSUME ~Expired(s), shared PROVE AInv'
  <2>1. PICK r \in RequestRecord :
          r = [Idle EXCEPT !.at = "unlink", !.for = "rotate", !.browser = b,
                           !.token = t, !.read = s]
    <3>1. t \in Nat /\ s \in Session BY <1>2, <1>3
    <3> HIDE DEF s, t
    <3> QED BY <1>1, <3>1 DEF RequestRecord, Places
  <2>2. r.at = "unlink" /\ r.for = "rotate" /\ r.browser = b /\ r.token = t /\ r.read = s
        /\ r.subject = None /\ r.late = FALSE
    BY <2>1 DEF Idle
  <2>3. InOrder(r) /\ r.at \notin Resolving
    BY <1>2, <1>3, <2>2 DEF InOrder, RotateInOrder, Resolving
  <2>4. Becomes(h, r) /\ UNCHANGED <<sessions, issued, loggedIn, cookie>>
    BY <1>8, <2>1 DEF RotateSession
  <2>5. SessionsAgree'
    <3>1. Cardinality(Making)' \in Nat /\ issued' + Cardinality(Making)' <= maxTokens
      BY <1>2, <1>5, <2>4, MakersAreCounted, BoundsAssumption DEF AInv
    <3> QED BY <1>4, <2>4, <3>1 DEF AInv, SessionsAgree
  <2>6. LocksExclude' BY <1>4, <2>3, <2>4, LocksStay DEF AInv, clock, identity
  <2>7. NoncesAreKept' BY <1>4, NoncesStay DEF AInv, clock
  <2> QED BY <1>4, <2>2, <2>3, <2>4, <2>5, <2>6, <2>7, QuietStep DEF identity
<1>9. ASSUME ~Expired(s), ~shared PROVE AInv'
  <2>1. /\ issued' = issued + 1 /\ UNCHANGED request
        /\ sessions' = [sessions EXCEPT ![t] = None, ![issued + 1] = Rotated(s)]
        /\ loggedIn' = [loggedIn EXCEPT ![issued + 1] = loggedIn[t]]
        /\ cookie' = [cookie EXCEPT ![b] = issued + 1]
    BY <1>9 DEF RotateSession
  <2>2. PICK q \in Session : q = Rotated(s) /\ q.createdAt = loggedIn[t]
    <3>1. PICK q0 \in Session : q0 = s BY <1>3
    <3>2. now \in 0 .. maxTime BY DEF AInv, ClockTypes
    <3>3. Rotated(q0) \in Session /\ Rotated(q0).createdAt = q0.createdAt
      BY <3>2 DEF Rotated, Session
    <3> QED BY <1>3, <3>1, <3>3
  <2>3. Becomes(h, Idle) BY <1>1, <1>6, <2>1 DEF Becomes
  <2>4. issued + 1 + Cardinality(Making)' <= maxTokens /\ issued + 1 \in Tokens
    <3>1. Making' = Making BY <2>1 DEF Making
    <3> QED BY <1>2, <1>5, <3>1, BoundsAssumption DEF Tokens
  <2>5. /\ sessions' \in [Tokens -> Session \cup {None}] /\ sessions'[issued + 1] = q
        /\ \A k \in Tokens \ {issued + 1} : sessions'[k] = None \/ sessions'[k] = sessions[k]
    <3>1. sessions \in [Tokens -> Session \cup {None}] BY DEF AInv, SessionsAgree
    <3>2. sessions' = [sessions EXCEPT ![t] = None, ![issued + 1] = q] BY <2>1, <2>2
    <3> QED BY <1>2, <2>4, <3>1, <3>2
  <2>6. StatesAreUsedOnce' BY <1>1, <1>4, <2>3, StatesStay DEF AInv, oauth
  <2> QED BY <1>4, <2>1, <2>2, <2>3, <2>4, <2>5, <2>6, IssueStep DEF oauth
<1> QED BY <1>7, <1>8, <1>9

(***************************************************************************)
(* HandleCallback keeps the invariant: the state is used up in the step    *)
(* that finds it.                                                          *)
(***************************************************************************)
LEMMA HandleCallbackKeeps ==
  ASSUME AInv, NEW h \in Requests, NEW b \in Browsers, NEW st \in 1 .. states,
         HandleCallback(h, b, st)
  PROVE  AInv'
<1>1. request[h] = Idle /\ Idle \in RequestRecord /\ Idle.for = "none" /\ Idle.at = "idle"
  BY RequestIsInOrder, WhatItDoes, IdleIsInOrder DEF HandleCallback, At, Idle
<1>2. PICK p \in pendingStates :
        /\ p[1] = st /\ pendingStates' = pendingStates \ {p}
        /\ \/ UNCHANGED request
           \/ Becomes(h, [Idle EXCEPT !.at = "exchange", !.for = "callback", !.browser = b,
                                      !.state = st, !.token = cookie[b]])
  BY DEF HandleCallback, Used
<1>3. UNCHANGED <<clock, identity, store, states, completed, bot, cookie>>
  BY DEF HandleCallback, browser
<1>4. request \in [Requests -> RequestRecord] BY DEF AInv, RequestTypes
<1>5. Grows
  BY <1>3 DEF Grows, AInv, clock, identity, store, SessionsAgree, StatesAreUsedOnce
<1>6. \A q \in pendingStates' : q \in pendingStates /\ q[1] # st
  BY <1>2 DEF AInv, StatesAreUsedOnce
<1>7. Cardinality(Making) \in Nat /\ issued + Cardinality(Making) < maxTokens
  <2>1. Cardinality(Making) \in Nat
    BY RequestsAssumption, FS_Subset, FS_CardinalityType DEF Making
  <2> QED BY <2>1 DEF HandleCallback, Room, Making
<1>8. ASSUME NEW r \in RequestRecord, Becomes(h, r), InOrder(r)', r.at \notin Resolving,
             r.for = "callback" => r.state = st
      PROVE  AInv'
  <2>1. SessionsAgree'
    <3>1. Cardinality(Making)' \in Nat /\ issued' + Cardinality(Making)' <= maxTokens
      BY <1>3, <1>7, <1>8, MakersAreCounted, BoundsAssumption DEF AInv, store, SessionsAgree
    <3> QED BY <1>3, <3>1 DEF AInv, store, SessionsAgree
  <2>2. StatesAreUsedOnce'
    <3>1. request'[h] = r /\ \A g \in Requests \ {h} : request'[g] = request[g]
      BY <1>8, OneIsHandled DEF AInv
    <3>2. StateMakesOneSession' /\ \A c \in completed : c[1] # st
      BY <1>2, <1>3 DEF AInv, StatesAreUsedOnce, StateMakesOneSession
    <3>3. \A g \in Requests : request[g].for = "callback" => request[g].state # st
      BY <1>2 DEF AInv, StatesAreUsedOnce
    <3>4. ASSUME NEW g \in Requests, request'[g].for = "callback"
          PROVE  /\ \A q \in pendingStates' \cup completed' : q[1] # request'[g].state
                 /\ \A f \in Requests \ {g} :
                      request'[f].for = "callback" => request'[f].state # request'[g].state
      <4>1. CASE g = h
        <5>1. request'[g].state = st BY <1>8, <3>1, <3>4, <4>1
        <5> QED BY <1>3, <1>6, <3>1, <3>2, <3>3, <4>1, <5>1
      <4>2. CASE g # h
        <5>1. request'[g] = request[g] /\ request[g].for = "callback" BY <3>1, <3>4, <4>2
        <5>2. \A f \in Requests \ {g} :
                request'[f].for = "callback" =>
                  \/ f = h /\ request'[f].state = st
                  \/ request'[f] = request[f] /\ request[f].for = "callback"
          BY <1>8, <3>1
        <5> QED BY <1>3, <1>6, <3>3, <5>1, <5>2 DEF AInv, StatesAreUsedOnce
      <4> QED BY <4>1, <4>2
    <3>5. states' \in Nat /\ \A q \in pendingStates' : q[1] \in 1 .. states' /\ q[2] \in Nat
      BY <1>3, <1>6 DEF AInv, StatesAreUsedOnce
    <3>6. \A q, q2 \in pendingStates' : q[1] = q2[1] => q = q2
      BY <1>6 DEF AInv, StatesAreUsedOnce
    <3>7. \A c \in completed' : c[1] \in 1 .. states' /\ \A q \in pendingStates' : q[1] # c[1]
      BY <1>3, <1>6 DEF AInv, StatesAreUsedOnce
    <3> QED BY <3>2, <3>4, <3>5, <3>6, <3>7 DEF StatesAreUsedOnce
  <2> QED BY <1>3, <1>5, <1>8, <2>1, <2>2, GrowStep
<1>9. CASE UNCHANGED request
  <2>1. Becomes(h, Idle) BY <1>1, <1>4, <1>9 DEF Becomes
  <2> QED BY <1>1, <1>8, <2>1, IdleStaysInOrder DEF Resolving
<1>10. CASE Becomes(h, [Idle EXCEPT !.at = "exchange", !.for = "callback", !.browser = b,
                                    !.state = st, !.token = cookie[b]])
  <2>1. issued \in Nat /\ states \in Nat /\ cookie[b] \in 0 .. issued
    BY DEF AInv, SessionsAgree, StatesAreUsedOnce
  <2>2. PICK t \in Nat : t = cookie[b] BY <2>1
  <2>3. PICK r \in RequestRecord :
          r = [Idle EXCEPT !.at = "exchange", !.for = "callback", !.browser = b,
                           !.state = st, !.token = t]
    <3>1. st \in Nat BY <2>1
    <3> QED BY <1>1, <3>1 DEF RequestRecord, Places
  <2>4. r.at = "exchange" /\ r.for = "callback" /\ r.browser = b /\ r.token = t /\ r.state = st
        /\ r.subject = None /\ r.late = FALSE /\ r.principal = 0
    BY <2>3 DEF Idle
  <2>5. CallbackInOrder(r)'
    <3>1. issued' = issued /\ states' = states BY <1>3 DEF store
    <3> QED BY <2>1, <2>2, <2>4, <3>1 DEF CallbackInOrder, SubjectInOrder, Resolving
  <2>6. InOrder(r)' BY <2>4, <2>5 DEF InOrder
  <2> QED BY <1>8, <1>10, <2>2, <2>3, <2>4, <2>6 DEF Resolving
<1> QED BY <1>2, <1>9, <1>10

(***************************************************************************)
(* The invariant is kept by a step of no handler, given what it does to    *)
(* the rest.                                                               *)
(***************************************************************************)
LEMMA NobodyStep ==
  ASSUME AInv, Grows, UNCHANGED <<request, identity>>, ClockTypes',
         SessionsAgree', StatesAreUsedOnce', NoncesAreKept'
  PROVE  AInv'
<1>1. RequestTypes' BY DEF AInv, RequestTypes
<1>2. ASSUME NEW g \in Requests PROVE InOrder(request[g])'
  <2>1. PICK q \in RequestRecord : q = request[g] /\ InOrder(q) BY RequestIsInOrder
  <2>2. q.at = "push" => Documents(q.subject)' = {}
    BY <2>1, PushersAreFresh DEF AInv, Documents, identity
  <2>3. InOrder(q)' BY <2>1, <2>2, OrderIsKept
  <2> QED BY <2>1, <2>3
<1>3. LocksExclude'
  BY DEF AInv, LocksExclude, Locked, Lock, identity, Grows
<1>4. IdentitiesAgree' BY IdentitiesStay DEF AInv, identity
<1> QED BY <1>1, <1>2, <1>3, <1>4 DEF AInv, RequestsAreInOrder

(***************************************************************************)
(* The sessions agree when neither they nor the handlers change.           *)
(***************************************************************************)
LEMMA SessionsRest ==
  ASSUME SessionsAgree, UNCHANGED <<request, store, cookie>>
  PROVE  SessionsAgree'
<1>1. Making' = Making BY DEF Making
<1> QED BY <1>1 DEF SessionsAgree, store

(***************************************************************************)
(* The states are in one place each when neither they nor the handlers     *)
(* change.                                                                 *)
(***************************************************************************)
LEMMA StatesRest ==
  ASSUME StatesAreUsedOnce, UNCHANGED <<request, oauth>>
  PROVE  StatesAreUsedOnce'
BY DEF StatesAreUsedOnce, StateMakesOneSession, oauth

(***************************************************************************)
(* An element of a sequence over a set is in the set.                      *)
(***************************************************************************)
LEMMA ElementsAreTyped ==
  ASSUME NEW S, NEW s \in Seq(S), NEW n \in DOMAIN s
  PROVE  s[n] \in S
OBVIOUS

(***************************************************************************)
(* An assertion names a user and a second.                                 *)
(***************************************************************************)
LEMMA AssertionsAreTyped ==
  ASSUME AInv
  PROVE  /\ \A s \in accepted : s[1] \in DOMAIN assertions
         /\ \A n \in DOMAIN assertions :
              assertions[n].sub \in Subjects /\ assertions[n].exp \in Nat
<1>1. /\ assertions \in Seq([sub : Subjects, exp : Nat])
      /\ \A s \in accepted : s[1] \in DOMAIN assertions
  BY DEF AInv, NoncesAreKept
<1>2. \A n \in DOMAIN assertions : assertions[n] \in [sub : Subjects, exp : Nat]
  BY <1>1, ElementsAreTyped
<1> QED BY <1>1, <1>2

(***************************************************************************)
(* Tick keeps the invariant: an expiry that is past stays past.            *)
(***************************************************************************)
LEMMA TickKeeps == ASSUME AInv, Tick PROVE AInv'
<1>1. /\ UNCHANGED <<shared, process, identity, store, oauth, bot, browser, request>>
      /\ now' = now + 1 /\ now < maxTime
  BY DEF Tick
<1>2. now \in Nat /\ ClockTypes' BY <1>1, BoundsAssumption DEF AInv, ClockTypes
<1>3. Grows
  BY <1>1 DEF Grows, AInv, identity, store, oauth, SessionsAgree, StatesAreUsedOnce
<1>4. NoncesAreKept'
  <2>1. \A s \in accepted : assertions[s[1]].exp \in Nat
    BY AssertionsAreTyped
  <2>2. \A s \in accepted : s \in seenNonces \/ now' > 2 * assertions[s[1]].exp
    BY <1>1, <1>2, <2>1 DEF AInv, NoncesAreKept
  <2> QED BY <1>1, <2>2 DEF AInv, NoncesAreKept, AcceptedOnce, bot
<1> QED BY <1>1, <1>2, <1>3, <1>4, NobodyStep, SessionsRest, StatesRest DEF AInv, browser

(***************************************************************************)
(* HandleAuthorize keeps the invariant: the state is a new one.            *)
(***************************************************************************)
LEMMA HandleAuthorizeKeeps ==
  ASSUME AInv, NEW o \in Processes, NEW b \in Browsers, HandleAuthorize(o, b)
  PROVE  AInv'
<1> DEFINE p == <<states + 1, now + stateTtl, o>>
<1>1. UNCHANGED <<clock, identity, store, completed, bot, cookie, page, request>>
      /\ states' = states + 1 /\ pendingStates' = pendingStates \cup {p}
  BY DEF HandleAuthorize
<1>2. states \in Nat /\ now \in Nat /\ stateTtl \in Nat
  BY TtlAssumption, BoundsAssumption DEF AInv, ClockTypes, StatesAreUsedOnce
<1>3. Grows
  BY <1>1, <1>2 DEF Grows, AInv, clock, identity, store, SessionsAgree
<1>4. StatesAreUsedOnce'
  <2>1. p[1] = states + 1 /\ p[2] \in Nat BY <1>2
  <2>2. /\ \A q \in pendingStates : q[1] \in 1 .. states /\ q[2] \in Nat
        /\ \A c \in completed : c[1] \in 1 .. states
        /\ \A q, q2 \in pendingStates : q[1] = q2[1] => q = q2
    BY DEF AInv, StatesAreUsedOnce
  <2>3. \A h \in Requests : request[h].for = "callback" => request[h].state \in 1 .. states
    BY DEF AInv, RequestsAreInOrder, InOrder, CallbackInOrder
  <2>4. \A q \in pendingStates' : q[1] \in 1 .. states' /\ q[2] \in Nat
    BY <1>1, <1>2, <2>1, <2>2
  <2>5. \A q, q2 \in pendingStates' : q[1] = q2[1] => q = q2
    BY <1>1, <1>2, <2>1, <2>2
  <2>6. \A c \in completed' : c[1] \in 1 .. states' /\ \A q \in pendingStates' : q[1] # c[1]
    BY <1>1, <1>2, <2>1, <2>2 DEF AInv, StatesAreUsedOnce
  <2>7. StateMakesOneSession' BY <1>1 DEF AInv, StatesAreUsedOnce, StateMakesOneSession
  <2>8. ASSUME NEW h \in Requests, request'[h].for = "callback"
        PROVE  /\ \A q \in pendingStates' \cup completed' : q[1] # request'[h].state
               /\ \A g \in Requests \ {h} :
                    request'[g].for = "callback" => request'[g].state # request'[h].state
    BY <1>1, <1>2, <2>1, <2>3, <2>8 DEF AInv, StatesAreUsedOnce
  <2> QED BY <1>1, <1>2, <2>4, <2>5, <2>6, <2>7, <2>8 DEF StatesAreUsedOnce
<1>5. ClockTypes' BY <1>1 DEF AInv, ClockTypes, clock
<1>6. NoncesAreKept' BY <1>1, NoncesStay DEF AInv, clock
<1> QED BY <1>1, <1>3, <1>4, <1>5, <1>6, NobodyStep, SessionsRest DEF AInv

(***************************************************************************)
(* SignAssertion keeps the invariant.                                      *)
(***************************************************************************)
LEMMA SignAssertionKeeps ==
  ASSUME AInv, NEW u \in Subjects, SignAssertion(u)
  PROVE  AInv'
<1> DEFINE a == [sub |-> u, exp |-> Second(now) + assertionTtl]
<1>1. UNCHANGED <<clock, identity, store, oauth, seenNonces, accepted, acceptedAgain,
                  browser, request>>
      /\ assertions' = Append(assertions, a)
  BY DEF SignAssertion
<1>2. now \in Nat /\ assertionTtl \in Nat
  BY TtlAssumption, BoundsAssumption DEF AInv, ClockTypes
<1>3. Grows
  BY <1>1 DEF Grows, AInv, clock, identity, store, oauth, SessionsAgree, StatesAreUsedOnce
<1>4. NoncesAreKept'
  <2>1. a \in [sub : Subjects, exp : Nat] BY <1>2 DEF Second
  <2>2. /\ assertions \in Seq([sub : Subjects, exp : Nat])
        /\ \A s \in accepted : s[1] \in DOMAIN assertions
    BY DEF AInv, NoncesAreKept
  <2> HIDE DEF a
  <2>3. /\ assertions' \in Seq([sub : Subjects, exp : Nat])
        /\ \A n \in DOMAIN assertions : n \in DOMAIN assertions' /\ assertions'[n] = assertions[n]
    BY <1>1, <2>1, <2>2
  <2>4. \A s \in accepted :
          assertions'[s[1]] = assertions[s[1]] /\ s[1] \in DOMAIN assertions'
    BY <2>2, <2>3
  <2>5. UNCHANGED <<now, seenNonces, accepted, acceptedAgain>> BY <1>1 DEF clock
  <2>6. \A p \in acceptedAgain :
          p[1] \in DOMAIN assertions' /\ assertions'[p[1]] = assertions[p[1]]
    BY <2>3 DEF AInv, NoncesAreKept
  <2>7. AcceptedOnce' BY <2>5, <2>6 DEF AInv, NoncesAreKept, AcceptedOnce
  <2>8. \A s \in accepted : s \in seenNonces \/ now > 2 * assertions'[s[1]].exp
    BY <2>4 DEF AInv, NoncesAreKept
  <2> QED BY <2>3, <2>4, <2>5, <2>6, <2>7, <2>8 DEF AInv, NoncesAreKept
<1>5. ClockTypes' BY <1>1 DEF AInv, ClockTypes, clock
<1> QED BY <1>1, <1>3, <1>4, <1>5, NobodyStep, SessionsRest, StatesRest DEF AInv, browser

(***************************************************************************)
(* An expiry that is past in milliseconds and not in seconds is in the     *)
(* second that runs.                                                       *)
(***************************************************************************)
LEMMA LastSecond ==
  ASSUME NEW t \in Nat, NEW e \in Nat, t > 2 * e, e >= Second(t)
  PROVE  Second(t) = e
BY DEF Second

(***************************************************************************)
(* VerifyPrincipalAssertion keeps the invariant: a process forgets only    *)
(* nonces of its own whose time is up.                                     *)
(***************************************************************************)
LEMMA VerifyPrincipalAssertionKeeps ==
  ASSUME AInv, NEW h \in Requests, NEW n \in DOMAIN assertions, VerifyPrincipalAssertion(h, n)
  PROVE  AInv'
<1> DEFINE a == assertions[n]
<1>1. request[h] = Idle /\ Idle \in RequestRecord
  BY RequestIsInOrder, WhatItDoes, IdleIsInOrder DEF VerifyPrincipalAssertion, At
<1>2. /\ assertions \in Seq([sub : Subjects, exp : Nat]) /\ now \in Nat
      /\ \A m \in DOMAIN assertions : assertions[m].sub \in Subjects /\ assertions[m].exp \in Nat
  BY BoundsAssumption, AssertionsAreTyped DEF AInv, NoncesAreKept, ClockTypes
<1>3. PICK u \in Subjects : u = a.sub BY <1>2
<1>4. PICK r \in RequestRecord :
        r = [Idle EXCEPT !.at = "resolve", !.for = "assertion", !.subject = u]
  BY <1>1 DEF RequestRecord, Places
<1>5. r.at = "resolve" /\ r.for = "assertion" /\ r.subject = u /\ r.principal = 0 /\ r.late = FALSE
  BY <1>4 DEF Idle
<1>6. InOrder(r) BY <1>5 DEF InOrder, AssertionInOrder, SubjectInOrder, Resolving
<1>7. Becomes(h, r) BY <1>3, <1>4 DEF VerifyPrincipalAssertion
<1>8. UNCHANGED <<clock, identity, store, oauth, assertions, browser>>
  BY DEF VerifyPrincipalAssertion
<1>9. NoncesAreKept'
  <2> DEFINE seen == <<n, process[h]>>
  <2>1. /\ a.exp >= Second(now) /\ seen \notin seenNonces
        /\ seenNonces' = {s \in seenNonces \cup {seen} :
                           s[2] = process[h] => now <= 2 * assertions[s[1]].exp}
        /\ accepted' = accepted \cup {seen}
        /\ acceptedAgain' = IF seen \in accepted THEN acceptedAgain \cup {<<n, now>>}
                                                 ELSE acceptedAgain
    BY DEF VerifyPrincipalAssertion, Remembered
  <2>2. /\ seenNonces \subseteq accepted
        /\ \A s \in accepted :
             s[1] \in DOMAIN assertions /\ (s \in seenNonces \/ now > 2 * assertions[s[1]].exp)
        /\ \A p \in acceptedAgain : p[1] \in DOMAIN assertions
    BY DEF AInv, NoncesAreKept
  <2>3. seen[1] = n /\ <<n, now>>[1] = n /\ <<n, now>>[2] = now OBVIOUS
  <2> HIDE DEF seen
  <2>4. /\ seenNonces' \subseteq accepted'
        /\ \A s \in accepted' :
             s[1] \in DOMAIN assertions /\ (s \in seenNonces' \/ now > 2 * assertions[s[1]].exp)
    BY <1>2, <2>1, <2>2, <2>3
  <2>5. \A p \in acceptedAgain' : p[1] \in DOMAIN assertions
    BY <2>1, <2>2, <2>3
  <2>6. seen \in accepted => now > 2 * a.exp /\ Second(now) = a.exp
    BY <1>2, <2>1, <2>2, <2>3, LastSecond
  <2>7. \A p \in acceptedAgain' :
          Second(p[2]) = assertions[p[1]].exp /\ p[2] > 2 * assertions[p[1]].exp
    BY <2>1, <2>3, <2>6 DEF AInv, NoncesAreKept, AcceptedOnce
  <2>8. now' = now /\ assertions' = assertions BY <1>8 DEF clock
  <2>9. AcceptedOnce' BY <2>7, <2>8 DEF AcceptedOnce
  <2> QED BY <1>2, <2>4, <2>5, <2>8, <2>9 DEF NoncesAreKept
<1>10. LocksExclude' BY <1>5, <1>7, <1>8, LocksStay DEF AInv, clock, identity, Resolving
<1>11. SessionsAgree'
  <2>1. sessions \in [Tokens -> Session \cup {None}]
        /\ \A t \in Tokens : sessions[t] # None => sessions[t] \in Session
    BY DEF AInv, SessionsAgree
  <2> QED BY <1>5, <1>7, <1>8, <2>1, MakersAreCounted, SessionsStay DEF AInv, store, browser
<1> QED BY <1>5, <1>6, <1>7, <1>8, <1>9, <1>10, <1>11, QuietStep DEF identity, store

-----------------------------------------------------------------------------
(***************************************************************************)
(* The invariant holds when nobody has signed in yet.                      *)
(***************************************************************************)
LEMMA AInvInitially == Init => AInv
<1> SUFFICES ASSUME Init PROVE AInv OBVIOUS
<1> USE DEF Init
<1>1. RequestTypes /\ RequestsAreInOrder
  BY IdleIsInOrder DEF RequestTypes, RequestsAreInOrder
<1>2. ClockTypes BY BoundsAssumption DEF ClockTypes
<1>3. LocksExclude BY DEF LocksExclude, Locked, Idle, Resolving
<1>4. IdentitiesAgree BY DEF IdentitiesAgree
<1>5. SessionsAgree
  <2>1. Making = {} BY DEF Making, Idle
  <2>2. Cardinality(Making) = 0 BY <2>1, FS_EmptySet
  <2> QED BY <2>2, BoundsAssumption DEF SessionsAgree
<1>6. StatesAreUsedOnce BY DEF StatesAreUsedOnce, StateMakesOneSession, Idle
<1>7. NoncesAreKept BY DEF NoncesAreKept, AcceptedOnce
<1> QED BY <1>1, <1>2, <1>3, <1>4, <1>5, <1>6, <1>7 DEF AInv

(***************************************************************************)
(* The invariant is kept while nothing happens.                            *)
(***************************************************************************)
LEMMA UnchangedKeeps == ASSUME AInv, UNCHANGED vars PROVE AInv'
<1>1. UNCHANGED <<clock, identity, store, oauth, bot, browser, request>> BY DEF vars
<1>2. Grows
  BY <1>1 DEF Grows, AInv, clock, identity, store, oauth, SessionsAgree, StatesAreUsedOnce
<1>3. ClockTypes' BY <1>1 DEF AInv, ClockTypes, clock
<1> QED BY <1>1, <1>2, <1>3, NobodyStep, SessionsRest, StatesRest, NoncesStay
        DEF AInv, browser, clock

(***************************************************************************)
(* Every step keeps the invariant.                                         *)
(***************************************************************************)
LEMMA AInvIsKept == ASSUME AInv, [Next]_vars PROVE AInv'
<1>1. CASE UNCHANGED vars BY <1>1, UnchangedKeeps
<1>2. CASE Tick BY <1>2, TickKeeps
<1>3. CASE \E p \in Processes, b \in Browsers : HandleAuthorize(p, b)
  BY <1>3, HandleAuthorizeKeeps
<1>4. CASE \E u \in Subjects : SignAssertion(u) BY <1>4, SignAssertionKeeps
<1>5. ASSUME NEW h \in Requests, Begin(h) PROVE AInv'
  <2>1. CASE \E n \in DOMAIN assertions : VerifyPrincipalAssertion(h, n)
    BY <2>1, VerifyPrincipalAssertionKeeps
  <2>2. CASE \E b \in Browsers : \E t \in {cookie[b]} \cup loggedOut : GetSession(h, b, t)
    BY <2>2, GetSessionKeeps
  <2>3. CASE \E b \in Browsers : RotateSession(h, b) BY <2>3, RotateSessionKeeps
  <2>4. CASE \E b \in Browsers : \E st \in 1..states : HandleCallback(h, b, st)
    BY <2>4, HandleCallbackKeeps
  <2> QED BY <1>5, <2>1, <2>2, <2>3, <2>4 DEF Begin
<1>6. ASSUME NEW h \in Requests, Continue(h) PROVE AInv'
  BY <1>6, TakeLockKeeps, FindKeeps, InsertKeeps, PushKeeps, RereadKeeps, DatabaseFailsKeeps,
     ExpireKeeps, TouchKeeps, UnlinkKeeps, RelinkKeeps, ExchangeCodeKeeps,
     FetchDiscordUserKeeps, DestroyOldSessionKeeps, CreateSessionKeeps, AnswerKeeps,
     BeginLogoutKeeps, HandleLogoutKeeps, FallbackKeeps DEF Continue
<1> QED BY <1>1, <1>2, <1>3, <1>4, <1>5, <1>6 DEF Next

(***************************************************************************)
(* The invariant holds always.                                             *)
(***************************************************************************)
LEMMA AInvHolds == Spec => []AInv
<1>1. AInv /\ [Next]_vars => AInv' BY AInvIsKept
<1> QED BY AInvInitially, <1>1, PTL DEF Spec

(***************************************************************************)
(* However many sign-ins and assertions of one Discord user overlap, and   *)
(* whether one process or several resolve them, the user has one document, *)
(* and every request of the user goes on with the principal first given    *)
(* out (MongoIdentityStore.getOrCreatePrincipal).                          *)
(***************************************************************************)
THEOREM Identities == Spec => []OnePrincipalPerSubject
<1>1. ASSUME AInv PROVE OnePrincipalPerSubject
  <2>1. \A d, e \in identities : d.subject = e.subject => d = e
    BY <1>1 DEF AInv, IdentitiesAgree
  <2>2. ASSUME NEW h \in Requests, request[h].subject # None, request[h].principal # 0
        PROVE  request[h].principal = principalOf[request[h].subject]
    <3>1. request[h] \in RequestRecord /\ InOrder(request[h]) BY <1>1, RequestIsInOrder
    <3>2. request[h].for \in {"callback", "assertion"}
      BY <2>2, <3>1 DEF InOrder, CookieInOrder, RotateInOrder, RequestRecord, Idle
    <3>3. SubjectInOrder(request[h]) /\ request[h].at \notin {"exchange", "fetch"}
      BY <2>2, <3>1, <3>2 DEF InOrder, CallbackInOrder, AssertionInOrder, Resolving
    <3>4. request[h].at \in {"renew", "create", "granted"}
      BY <2>2, <3>1, <3>2, <3>3 DEF InOrder, CallbackInOrder, AssertionInOrder, SubjectInOrder,
         Resolving
    <3> QED BY <3>3, <3>4 DEF SubjectInOrder
  <2> QED BY <2>1, <2>2 DEF OnePrincipalPerSubject
<1> QED BY <1>1, AInvHolds, PTL

(***************************************************************************)
(* A session that was logged out grants nothing to a request that comes in *)
(* later, and no rotation takes it past its absolute lifetime, whatever    *)
(* else is under way with it (session-store.js).                           *)
(***************************************************************************)
THEOREM Ends == Spec => []SessionsEnd
<1>1. ASSUME AInv PROVE SessionsEnd
  <2>1. ASSUME NEW h \in Requests, request[h].at = "granted"
        PROVE  /\ ~request[h].late
               /\ request[h].for = "cookie" =>
                    request[h].checkedAt - loggedIn[request[h].token] <= absoluteTtl
    <3>1. InOrder(request[h]) BY <1>1, RequestIsInOrder
    <3> QED BY <2>1, <3>1 DEF InOrder, CookieInOrder, Young
  <2> QED BY <2>1 DEF SessionsEnd, LoggedOutStaysOut, RotationDoesNotProlong, At
<1> QED BY <1>1, AInvHolds, PTL

(***************************************************************************)
(* An OAuth state leads to one session however often its redirect is       *)
(* followed, and an assertion is accepted once by a process, but for the   *)
(* last second of its life (DiscordOAuthController,                        *)
(* verifyPrincipalAssertion).                                              *)
(***************************************************************************)
THEOREM SingleUse == Spec => []LoginsAreSingleUse
<1>1. AInv => LoginsAreSingleUse
  BY DEF AInv, StatesAreUsedOnce, NoncesAreKept, LoginsAreSingleUse
<1> QED BY <1>1, AInvHolds, PTL

-----------------------------------------------------------------------------
(***************************************************************************)
(* Submissions.  What a handler carries from await to await.               *)
(***************************************************************************)
JobsOf(p) == Submissions!JobsOf(p)

Carries(h) ==
  /\ h.at = "none" => h.principal = None
  /\ h.at # "none" => h.principal \in Principals
  /\ h.at \in {"submit", "record"} => h.content \in Contents
  /\ h.at = "record" =>
       /\ h.job \in JobIds /\ job[h.job] # None
       /\ job[h.job].principal = h.principal
       /\ job[h.job].content = h.content /\ job[h.job].key = h.key

(***************************************************************************)
(* The count that will be written back, plus one, is no more than what the *)
(* principal will then have submitted.                                     *)
(***************************************************************************)
CountsNoMore(h) ==
  /\ h.at \in {"body", "submit"} => h.count <= Cardinality(JobsOf(h.principal))
  /\ h.at = "record" => h.count + 1 <= Cardinality(JobsOf(h.principal))

(***************************************************************************)
(* Of a principal whose requests come one after the other there is one     *)
(* handler, its count is exact and below the quota, a key it will submit   *)
(* is not in the registry, and the jobs that carry keys are registered or  *)
(* about to be.                                                            *)
(***************************************************************************)
OneHandler(p) ==
  \A q, r \in Requests : handler[q].principal = p /\ handler[r].principal = p => q = r

CountIsExact(p) ==
  /\ Cardinality(JobsOf(p)) <= maxJobsPerDay
  /\ \A r \in Requests : handler[r].principal = p =>
       /\ handler[r].count < maxJobsPerDay
       /\ handler[r].at \in {"body", "submit"} => handler[r].count = Cardinality(JobsOf(p))
       /\ handler[r].at = "record" => handler[r].count + 1 = Cardinality(JobsOf(p))
  /\ (\A r \in Requests : handler[r].principal = p => handler[r].at # "record")
       => dailyJobCounts[p] = Cardinality(JobsOf(p))

KeysAreRegistered(p) ==
  /\ \A j \in JobsOf(p) : job[j].key # None =>
       \/ /\ idempotencyRegistry[p][job[j].key] # None
          /\ idempotencyRegistry[p][job[j].key].job = j
       \/ \E r \in Requests :
            handler[r].principal = p /\ handler[r].at = "record" /\ handler[r].job = j
  /\ \A r \in Requests :
       handler[r].principal = p /\ handler[r].at = "submit" /\ handler[r].key # None
         => idempotencyRegistry[p][handler[r].key] = None

InSequence(p) == OneHandler(p) /\ CountIsExact(p) /\ KeysAreRegistered(p)

NobodyIsAhead == \A p \in Principals : dailyJobCounts[p] <= Cardinality(JobsOf(p))

SInv ==
  /\ Submissions!TypeOK
  /\ \A r \in Requests : Carries(handler[r]) /\ CountsNoMore(handler[r])
  /\ Submissions!ReplayIsOwn
  /\ NobodyIsAhead
  /\ \A p \in Principals \ overlapped : InSequence(p)
  /\ Submissions!OneJobPerKeyInSequence

(***************************************************************************)
(* What is assumed of the constants, with the operators of this module.    *)
(***************************************************************************)
LEMMA SubmissionConstants ==
  /\ maxJobsPerDay \in Nat \ {0} /\ IsFiniteSet(JobIds)
  /\ None \notin JobIds \cup Principals \cup Keys \cup Contents
  /\ None \notin Submissions!Job /\ None \notin Submissions!Entry
BY SubmissionsAssumption DEF Submissions!Assumptions, Submissions!IsFiniteSet, IsFiniteSet

(***************************************************************************)
(* ApiServer has the finite sets of the standard module.                   *)
(***************************************************************************)
LEMMA SameCardinality == \A S : Submissions!Cardinality(S) = Cardinality(S)
BY DEF Submissions!Cardinality, Cardinality

(***************************************************************************)
(* A principal has a finite number of jobs.                                *)
(***************************************************************************)
LEMMA JobsAreCounted ==
  ASSUME NEW p
  PROVE  /\ JobsOf(p) \subseteq JobIds /\ IsFiniteSet(JobsOf(p))
         /\ Cardinality(JobsOf(p)) \in Nat
<1>1. JobsOf(p) \subseteq JobIds BY DEF JobsOf, Submissions!JobsOf
<1> QED BY <1>1, SubmissionConstants, FS_Subset, FS_CardinalityType

(***************************************************************************)
(* Whose jobs they are changes only where a job is made.                   *)
(***************************************************************************)
LEMMA JobsRest ==
  ASSUME \A j \in JobIds : (job'[j] = None <=> job[j] = None),
         \A j \in JobIds : job[j] # None => job'[j].principal = job[j].principal,
         NEW p
  PROVE  JobsOf(p)' = JobsOf(p)
BY DEF JobsOf, Submissions!JobsOf

(***************************************************************************)
(* A step of one handler leaves the others where they are.                 *)
(***************************************************************************)
LEMMA OneHandlerMoves ==
  ASSUME Submissions!TypeOK, NEW r \in Requests, NEW h \in Submissions!Handler,
         handler' = [handler EXCEPT ![r] = h]
  PROVE  /\ handler' \in [Requests -> Submissions!Handler]
         /\ handler'[r] = h
         /\ \A q \in Requests \ {r} : handler'[q] = handler[q]
BY DEF Submissions!TypeOK

(***************************************************************************)
(* A handler at rest is for nobody.                                        *)
(***************************************************************************)
LEMMA NobodyIsInOrder ==
  /\ Submissions!NoHandler \in Submissions!Handler
  /\ Submissions!NoHandler.at = "none" /\ Submissions!NoHandler.principal = None
BY DEF Submissions!NoHandler, Submissions!Handler

(***************************************************************************)
(* The handler ends, or goes on with what it has to the next await.        *)
(***************************************************************************)
LEMMA HandlerGoesOn ==
  ASSUME SInv, NEW r \in Requests, NEW h \in Submissions!Handler,
         handler' = [handler EXCEPT ![r] = h],
         UNCHANGED <<dailyJobCounts, idempotencyRegistry, job, overlapped>>,
         handler[r].at # "record",
         h = Submissions!NoHandler \/
           /\ handler[r].at = "body" /\ h.at = "submit" /\ h.principal = handler[r].principal
           /\ h.count = handler[r].count /\ h.content \in Contents
           /\ h.key # None => idempotencyRegistry[h.principal][h.key] = None
  PROVE  SInv'
<1>1. /\ handler' \in [Requests -> Submissions!Handler] /\ handler'[r] = h
      /\ \A q \in Requests \ {r} : handler'[q] = handler[q]
  BY OneHandlerMoves DEF SInv
<1>2. \A p : JobsOf(p)' = JobsOf(p) BY JobsRest
<1>3. Submissions!TypeOK' BY <1>1 DEF SInv, Submissions!TypeOK
<1>4. Carries(handler[r]) /\ CountsNoMore(handler[r]) BY DEF SInv
<1>5. \A q \in Requests : Carries(handler[q])' /\ CountsNoMore(handler[q])'
  <2>1. Carries(h)' BY <1>4, NobodyIsInOrder DEF Carries
  <2>2. CountsNoMore(h)' BY <1>2, <1>4, NobodyIsInOrder DEF CountsNoMore
  <2>3. ASSUME NEW q \in Requests \ {r} PROVE Carries(handler[q])' /\ CountsNoMore(handler[q])'
    BY <1>1, <1>2, <2>3 DEF SInv, Carries, CountsNoMore
  <2> QED BY <1>1, <2>1, <2>2, <2>3
<1>6. Submissions!ReplayIsOwn'
  BY <1>2 DEF SInv, Submissions!ReplayIsOwn, JobsOf
<1>7. NobodyIsAhead' BY <1>2 DEF SInv, NobodyIsAhead
<1>8. Submissions!OneJobPerKeyInSequence'
  BY <1>2 DEF SInv, Submissions!OneJobPerKeyInSequence, JobsOf, Submissions!SameKey
<1>9. ASSUME NEW p \in Principals \ overlapped PROVE InSequence(p)'
  <2>1. InSequence(p) /\ p # None BY SubmissionConstants DEF SInv
  <2>2. \A q \in Requests : handler'[q].principal = p =>
          /\ handler[q].principal = p /\ handler'[q].count = handler[q].count
          /\ handler'[q].at = "record" => handler[q].at = "record" /\ handler'[q] = handler[q]
          /\ handler'[q].at \in {"body", "submit"} => handler[q].at \in {"body", "submit"}
          /\ handler'[q].at = "submit" /\ handler'[q].key # None =>
               idempotencyRegistry[p][handler'[q].key] = None
    BY <1>1, <2>1, NobodyIsInOrder DEF InSequence, KeysAreRegistered
  <2>3. \A q \in Requests : handler[q].at = "record" => handler'[q] = handler[q]
    BY <1>1
  <2>4. OneHandler(p)' BY <2>1, <2>2 DEF InSequence, OneHandler
  <2>5. CountIsExact(p)' BY <1>2, <2>1, <2>2, <2>3 DEF InSequence, CountIsExact
  <2>6. KeysAreRegistered(p)' BY <1>2, <2>1, <2>2, <2>3 DEF InSequence, KeysAreRegistered
  <2> QED BY <2>4, <2>5, <2>6 DEF InSequence
<1> QED BY <1>3, <1>5, <1>6, <1>7, <1>8, <1>9 DEF SInv

(***************************************************************************)
(* The look-up in the registry keeps the invariant: a key that was not     *)
(* found is not there as long as the principal has no other request under  *)
(* way.                                                                    *)
(***************************************************************************)
LEMMA ReadBodyKeeps ==
  ASSUME SInv, NEW r \in Requests, NEW k \in Keys \cup {None}, NEW c \in Contents,
         Submissions!ReadBody(r, k, c)
  PROVE  SInv'
<1> DEFINE p == handler[r].principal
<1>1. handler[r] \in Submissions!Handler /\ handler[r].at = "body" /\ p \in Principals
  BY DEF SInv, Submissions!TypeOK, Submissions!ReadBody, Carries
<1>2. UNCHANGED <<dailyJobCounts, idempotencyRegistry, job, overlapped>>
  BY DEF Submissions!ReadBody
<1>3. CASE handler' = [handler EXCEPT ![r] = Submissions!NoHandler]
  BY <1>1, <1>2, <1>3, HandlerGoesOn, NobodyIsInOrder
<1>4. CASE ~Submissions!Registered(p, k)
           /\ handler' = [handler EXCEPT
                            ![r] = [@ EXCEPT !.at = "submit", !.key = k, !.content = c]]
  <2>1. PICK h \in Submissions!Handler :
          h = [handler[r] EXCEPT !.at = "submit", !.key = k, !.content = c]
    BY <1>1 DEF Submissions!Handler
  <2>2. h.at = "submit" /\ h.key = k /\ h.content = c /\ h.principal = p
        /\ h.count = handler[r].count
    BY <1>1, <2>1 DEF Submissions!Handler
  <2>3. handler' = [handler EXCEPT ![r] = h] BY <1>4, <2>1 DEF SInv, Submissions!TypeOK
  <2>4. k # None => idempotencyRegistry[p][k] = None BY <1>4 DEF Submissions!Registered
  <2> QED BY <1>1, <1>2, <2>2, <2>3, <2>4, HandlerGoesOn
<1> QED BY <1>3, <1>4 DEF Submissions!ReadBody

(***************************************************************************)
(* So does a refusal, by the gateway or of the body.                       *)
(***************************************************************************)
LEMMA RefusalsKeep ==
  ASSUME SInv, NEW r \in Requests, Submissions!SubmitRefused(r) \/ Submissions!BodyRefused(r)
  PROVE  SInv'
BY HandlerGoesOn, NobodyIsInOrder DEF Submissions!SubmitRefused, Submissions!BodyRefused

(***************************************************************************)
(* So does the arrival of a request: either it is the only one of its      *)
(* principal, whose count is then exact, or the principal leaves those     *)
(* whose requests come one after the other.                                *)
(***************************************************************************)
LEMMA ArriveKeeps ==
  ASSUME SInv, NEW r \in Requests, NEW p \in Principals, Submissions!Arrive(r, p)
  PROVE  SInv'
<1>1. /\ dailyJobCounts[p] \in Nat /\ dailyJobCounts[p] < maxJobsPerDay
      /\ handler[r].at = "none" /\ handler[r].principal = None
  BY DEF SInv, Submissions!TypeOK, Submissions!Arrive, Submissions!QuotaLeft, Carries
<1>2. PICK h \in Submissions!Handler :
        h = [Submissions!NoHandler EXCEPT !.at = "body", !.principal = p,
                                          !.count = dailyJobCounts[p]]
  BY <1>1, NobodyIsInOrder DEF Submissions!Handler
<1>3. h.at = "body" /\ h.principal = p /\ h.count = dailyJobCounts[p]
  BY <1>2 DEF Submissions!NoHandler
<1>4. handler' = [handler EXCEPT ![r] = h]
      /\ UNCHANGED <<dailyJobCounts, idempotencyRegistry, job>>
  BY <1>2 DEF Submissions!Arrive
<1>5. /\ handler' \in [Requests -> Submissions!Handler] /\ handler'[r] = h
      /\ \A q \in Requests \ {r} : handler'[q] = handler[q]
  BY <1>4, OneHandlerMoves DEF SInv
<1>6. \A q : JobsOf(q)' = JobsOf(q) BY <1>4, JobsRest
<1>7. overlapped' \subseteq overlapped \cup {p} /\ overlapped \subseteq overlapped'
      /\ (p \notin overlapped' => \A q \in Requests : handler[q].principal # p)
  BY DEF Submissions!Arrive
<1>8. Submissions!TypeOK' BY <1>4, <1>5, <1>7 DEF SInv, Submissions!TypeOK
<1>9. \A q \in Requests : Carries(handler[q])' /\ CountsNoMore(handler[q])'
  <2>1. Carries(h)' BY <1>3 DEF Carries
  <2>2. CountsNoMore(h)' BY <1>3, <1>6 DEF CountsNoMore, SInv, NobodyIsAhead
  <2>3. ASSUME NEW q \in Requests \ {r} PROVE Carries(handler[q])' /\ CountsNoMore(handler[q])'
    BY <1>4, <1>5, <1>6, <2>3 DEF SInv, Carries, CountsNoMore
  <2> QED BY <1>5, <2>1, <2>2, <2>3
<1>10. Submissions!ReplayIsOwn'
  BY <1>4, <1>6 DEF SInv, Submissions!ReplayIsOwn, JobsOf
<1>11. NobodyIsAhead' BY <1>4, <1>6 DEF SInv, NobodyIsAhead
<1>12. Submissions!OneJobPerKeyInSequence'
  BY <1>4, <1>6, <1>7 DEF SInv, Submissions!OneJobPerKeyInSequence, JobsOf, Submissions!SameKey
<1>13. ASSUME NEW u \in Principals \ overlapped' PROVE InSequence(u)'
  <2>1. InSequence(u) /\ u # None BY <1>7, SubmissionConstants DEF SInv
  <2>2. CASE u = p
    <3>1. \A q \in Requests : handler[q].principal # p BY <1>7, <2>2
    <3>2. \A q \in Requests : handler'[q].principal = p => q = r /\ handler'[q] = h
      BY <1>5, <3>1
    <3>3. dailyJobCounts[p] = Cardinality(JobsOf(p)) /\ Cardinality(JobsOf(p)) <= maxJobsPerDay
      BY <2>1, <2>2, <3>1 DEF InSequence, CountIsExact
    <3>4. OneHandler(p)' BY <3>2 DEF OneHandler
    <3>5. CountIsExact(p)' BY <1>1, <1>3, <1>4, <1>6, <3>2, <3>3 DEF CountIsExact
    <3>6. KeysAreRegistered(p)'
      BY <1>3, <1>4, <1>6, <2>1, <2>2, <3>1, <3>2 DEF InSequence, KeysAreRegistered
    <3> QED BY <2>2, <3>4, <3>5, <3>6 DEF InSequence
  <2>3. CASE u # p
    <3>1. \A q \in Requests : handler'[q].principal = u =>
            handler[q].principal = u /\ handler'[q] = handler[q]
      BY <1>3, <1>5, <2>3
    <3>2. \A q \in Requests : handler[q].principal = u => handler'[q] = handler[q]
      BY <1>1, <1>5, <2>1
    <3>3. OneHandler(u)' BY <2>1, <3>1 DEF InSequence, OneHandler
    <3>4. CountIsExact(u)'
      BY <1>4, <1>6, <2>1, <3>1, <3>2 DEF InSequence, CountIsExact
    <3>5. KeysAreRegistered(u)'
      BY <1>4, <1>6, <2>1, <3>1, <3>2 DEF InSequence, KeysAreRegistered
    <3> QED BY <3>3, <3>4, <3>5 DEF InSequence
  <2> QED BY <2>2, <2>3
<1> QED BY <1>8, <1>9, <1>10, <1>11, <1>12, <1>13 DEF SInv

(***************************************************************************)
(* So does the end of a job, which stays its principal's.                  *)
(***************************************************************************)
LEMMA FinishKeeps ==
  ASSUME SInv, NEW j \in JobIds, Submissions!Finish(j)
  PROVE  SInv'
<1>1. UNCHANGED <<handler, dailyJobCounts, idempotencyRegistry, overlapped>>
  BY DEF Submissions!Finish
<1>2. job[j] # None /\ job[j] \in Submissions!Job /\ job \in [JobIds -> Submissions!Job \cup {None}]
  BY DEF SInv, Submissions!TypeOK, Submissions!Finish
<1>3. PICK d \in Submissions!Job : d = [job[j] EXCEPT !.active = FALSE]
  BY <1>2 DEF Submissions!Job
<1>4. /\ d.principal = job[j].principal /\ d.content = job[j].content /\ d.key = job[j].key
  BY <1>2, <1>3 DEF Submissions!Job
<1>5. job' = [job EXCEPT ![j] = d] BY <1>3 DEF Submissions!Finish
<1>6. d # None BY SubmissionConstants
<1>7. \A i \in JobIds :
        /\ job'[i] = None <=> job[i] = None
        /\ job[i] # None => /\ job'[i].principal = job[i].principal
                            /\ job'[i].content = job[i].content /\ job'[i].key = job[i].key
  BY <1>2, <1>4, <1>5, <1>6
<1>8. \A p : JobsOf(p)' = JobsOf(p) BY <1>7, JobsRest
<1>9. \A p : \A i \in JobsOf(p) : i \in JobIds /\ job[i] # None
  BY DEF JobsOf, Submissions!JobsOf
<1>10. Submissions!TypeOK' BY <1>1, <1>2, <1>5 DEF SInv, Submissions!TypeOK
<1>11. \A q \in Requests : Carries(handler[q])' /\ CountsNoMore(handler[q])'
  BY <1>1, <1>7, <1>8 DEF SInv, Carries, CountsNoMore
<1>12. Submissions!ReplayIsOwn'
  BY <1>1, <1>7, <1>8, <1>9 DEF SInv, Submissions!ReplayIsOwn, JobsOf
<1>13. NobodyIsAhead' BY <1>1, <1>8 DEF SInv, NobodyIsAhead
<1>14. Submissions!OneJobPerKeyInSequence'
  BY <1>1, <1>7, <1>8, <1>9 DEF SInv, Submissions!OneJobPerKeyInSequence, JobsOf,
     Submissions!SameKey
<1>15. ASSUME NEW u \in Principals \ overlapped PROVE InSequence(u)'
  <2>1. InSequence(u) BY DEF SInv
  <2>2. OneHandler(u)' BY <1>1, <2>1 DEF InSequence, OneHandler
  <2>3. CountIsExact(u)' BY <1>1, <1>8, <2>1 DEF InSequence, CountIsExact
  <2>4. KeysAreRegistered(u)'
    BY <1>1, <1>7, <1>8, <1>9, <2>1 DEF InSequence, KeysAreRegistered
  <2> QED BY <2>2, <2>3, <2>4 DEF InSequence
<1> QED BY <1>1, <1>10, <1>11, <1>12, <1>13, <1>14, <1>15 DEF SInv

(***************************************************************************)
(* So does the submission to the gateway: the new job is one more of its   *)
(* principal, and its key, if it has one, is no other job's.               *)
(***************************************************************************)
LEMMA SubmitKeeps ==
  ASSUME SInv, NEW r \in Requests, NEW j \in JobIds, Submissions!Submit(r, j)
  PROVE  SInv'
<1>. PICK p : p = handler[r].principal OBVIOUS
<1>1. /\ handler[r].at = "submit" /\ job[j] = None
      /\ UNCHANGED <<dailyJobCounts, idempotencyRegistry, overlapped>>
  BY DEF Submissions!Submit
<1>2. /\ handler[r] \in Submissions!Handler /\ p \in Principals
      /\ handler[r].content \in Contents /\ job \in [JobIds -> Submissions!Job \cup {None}]
      /\ handler[r].key \in Keys \cup {None} /\ handler[r].count \in Nat
  BY <1>1 DEF SInv, Submissions!TypeOK, Carries, Submissions!Handler
<1>3. PICK d \in Submissions!Job :
        d = [principal |-> p, content |-> handler[r].content, key |-> handler[r].key,
             active |-> TRUE]
  BY <1>2 DEF Submissions!Job
<1>4. /\ d.principal = p /\ d.content = handler[r].content /\ d.key = handler[r].key
      /\ d # None
  BY <1>3, SubmissionConstants
<1>5. job' = [job EXCEPT ![j] = d] BY <1>3 DEF Submissions!Submit
<1>6. PICK h \in Submissions!Handler : h = [handler[r] EXCEPT !.at = "record", !.job = j]
  BY <1>2 DEF Submissions!Handler
<1>7. /\ h.at = "record" /\ h.job = j /\ h.principal = p /\ h.content = handler[r].content
      /\ h.key = handler[r].key /\ h.count = handler[r].count
  BY <1>2, <1>6 DEF Submissions!Handler
<1>8. handler' = [handler EXCEPT ![r] = h]
  BY <1>6 DEF Submissions!Submit, SInv, Submissions!TypeOK
<1>9. /\ handler' \in [Requests -> Submissions!Handler] /\ handler'[r] = h
      /\ \A q \in Requests \ {r} : handler'[q] = handler[q]
  BY <1>8, OneHandlerMoves DEF SInv
<1>10. job' \in [JobIds -> Submissions!Job \cup {None}] /\ job'[j] = d
       /\ \A i \in JobIds \ {j} : job'[i] = job[i]
  BY <1>2, <1>5
<1>11. JobsOf(p)' = JobsOf(p) \cup {j} /\ j \notin JobsOf(p)
       /\ \A u : u # p => JobsOf(u)' = JobsOf(u)
  <2>1. ASSUME NEW u, NEW i PROVE i \in JobsOf(u)' <=> i \in JobsOf(u) \/ (i = j /\ u = p)
    BY <1>1, <1>4, <1>10 DEF JobsOf, Submissions!JobsOf
  <2>2. j \notin JobsOf(p) BY <1>1 DEF JobsOf, Submissions!JobsOf
  <2>3. JobsOf(p)' = JobsOf(p) \cup {j} BY <2>1
  <2>4. ASSUME NEW u, u # p PROVE JobsOf(u)' = JobsOf(u)
    <3>1. \A i : i \in JobsOf(u)' <=> i \in JobsOf(u) BY <2>1, <2>4
    <3> QED BY <3>1
  <2> QED BY <2>2, <2>3, <2>4
<1>12. /\ Cardinality(JobsOf(p))' = Cardinality(JobsOf(p)) + 1
       /\ \A u : Cardinality(JobsOf(u)) \in Nat /\ Cardinality(JobsOf(u))' \in Nat
       /\ \A u : Cardinality(JobsOf(u)) <= Cardinality(JobsOf(u))'
  <2>1. Cardinality(JobsOf(p))' = Cardinality(JobsOf(p)) + 1
    BY <1>11, JobsAreCounted, FS_AddElement
  <2>2. ASSUME NEW u
        PROVE  /\ Cardinality(JobsOf(u)) \in Nat /\ Cardinality(JobsOf(u))' \in Nat
               /\ Cardinality(JobsOf(u)) <= Cardinality(JobsOf(u))'
    <3>1. Cardinality(JobsOf(u)) \in Nat BY JobsAreCounted
    <3>2. CASE u = p BY <2>1, <3>1, <3>2
    <3>3. CASE u # p
      <4>1. JobsOf(u)' = JobsOf(u) BY <1>11, <3>3
      <4> QED BY <3>1, <4>1
    <3> QED BY <3>1, <3>2, <3>3
  <2> QED BY <2>1, <2>2
<1>13. \A u : \A i \in JobsOf(u) : i \in JobIds /\ i # j /\ job'[i] = job[i]
  BY <1>1, <1>10 DEF JobsOf, Submissions!JobsOf
<1>14. Submissions!TypeOK' BY <1>1, <1>9, <1>10 DEF SInv, Submissions!TypeOK
<1>15. \A q \in Requests : Carries(handler[q])' /\ CountsNoMore(handler[q])'
  <2>1. Carries(h)' BY <1>2, <1>4, <1>7, <1>10 DEF Carries
  <2>2. CountsNoMore(h)'
    BY <1>1, <1>2, <1>7, <1>12 DEF CountsNoMore, SInv
  <2>3. ASSUME NEW q \in Requests \ {r} PROVE Carries(handler[q])' /\ CountsNoMore(handler[q])'
    <3>1. Carries(handler[q]) /\ CountsNoMore(handler[q]) /\ handler[q].count \in Nat
      BY <2>3 DEF SInv, Submissions!TypeOK, Submissions!Handler
    <3>2. Carries(handler[q])' BY <1>1, <1>9, <1>10, <2>3, <3>1 DEF Carries
    <3>3. PICK e : e = handler[q] OBVIOUS
    <3>4. CountsNoMore(e)' BY <1>12, <3>1, <3>3 DEF CountsNoMore
    <3>5. CountsNoMore(handler[q])' BY <1>9, <2>3, <3>3, <3>4
    <3> QED BY <3>2, <3>5
  <2> QED BY <1>9, <2>1, <2>2, <2>3
<1>16. Submissions!ReplayIsOwn'
  <2>1. \A u : JobsOf(u) \subseteq JobsOf(u)' BY <1>11
  <2> QED BY <1>1, <1>13, <2>1 DEF SInv, Submissions!ReplayIsOwn, JobsOf
<1>17. NobodyIsAhead'
  <2> SUFFICES ASSUME NEW u \in Principals
               PROVE  dailyJobCounts'[u] <= Cardinality(JobsOf(u))'
    BY DEF NobodyIsAhead
  <2>1. dailyJobCounts'[u] = dailyJobCounts[u] /\ dailyJobCounts[u] \in Nat
    BY <1>1 DEF SInv, Submissions!TypeOK
  <2>2. dailyJobCounts[u] <= Cardinality(JobsOf(u)) BY DEF SInv, NobodyIsAhead
  <2> QED BY <1>12, <2>1, <2>2
<1>18. ASSUME NEW u \in Principals \ overlapped PROVE InSequence(u)'
  <2>1. InSequence(u) /\ u # None BY SubmissionConstants DEF SInv
  <2>2. \A q \in Requests : handler'[q].principal = handler[q].principal
    BY <1>7, <1>9
  <2>3. OneHandler(u)' BY <2>1, <2>2 DEF InSequence, OneHandler
  <2>4. CASE u = p
    <3>1. \A q \in Requests : handler[q].principal = p => q = r
      BY <2>1, <2>4 DEF InSequence, OneHandler
    <3>2. handler[r].count = Cardinality(JobsOf(p)) /\ handler[r].count < maxJobsPerDay
      BY <1>1, <2>1, <2>4 DEF InSequence, CountIsExact
    <3>3. CountIsExact(p)'
      BY <1>2, <1>7, <1>9, <1>12, <2>2, <3>1, <3>2, SubmissionConstants DEF CountIsExact
    <3>4. KeysAreRegistered(p)'
      BY <1>1, <1>7, <1>9, <1>11, <1>13, <2>1, <2>2, <2>4, <3>1 DEF InSequence, KeysAreRegistered
    <3> QED BY <2>3, <2>4, <3>3, <3>4 DEF InSequence
  <2>5. CASE u # p
    <3>1. \A q \in Requests : handler[q].principal = u => handler'[q] = handler[q]
      BY <1>9, <2>5
    <3>2. CountIsExact(u)'
      BY <1>1, <1>11, <2>1, <2>2, <2>5, <3>1 DEF InSequence, CountIsExact
    <3>3. KeysAreRegistered(u)'
      BY <1>1, <1>11, <1>13, <2>1, <2>2, <2>5, <3>1 DEF InSequence, KeysAreRegistered
    <3> QED BY <2>3, <3>2, <3>3 DEF InSequence
  <2> QED BY <2>4, <2>5
<1>19. Submissions!OneJobPerKeyInSequence'
  <2> SUFFICES ASSUME NEW u \in Principals \ overlapped,
                      NEW i \in JobsOf(u)', NEW k \in JobsOf(u)',
                      job'[i].key # None, job'[i].key = job'[k].key
               PROVE  i = k
    BY <1>1 DEF Submissions!OneJobPerKeyInSequence, JobsOf, Submissions!SameKey
  <2>1. InSequence(u) BY DEF SInv
  <2>2. CASE i \in JobsOf(u) /\ k \in JobsOf(u)
    <3>1. Submissions!SameKey(i, k)
      BY <1>13, <2>2 DEF Submissions!SameKey, JobsOf, Submissions!JobsOf
    <3> QED BY <2>2, <3>1 DEF SInv, Submissions!OneJobPerKeyInSequence, JobsOf
  <2>3. ASSUME u = p, NEW old \in JobsOf(u), job[old].key = handler[r].key,
               handler[r].key # None
        PROVE  FALSE
    <3>1. \A q \in Requests : handler[q].principal = p => q = r
      BY <2>1, <2>3 DEF InSequence, OneHandler
    <3>2. idempotencyRegistry[p][handler[r].key] = None
      BY <1>1, <2>1, <2>3 DEF InSequence, KeysAreRegistered
    <3> QED BY <1>1, <2>1, <2>3, <3>1, <3>2 DEF InSequence, KeysAreRegistered
  <2> QED BY <1>4, <1>10, <1>11, <1>13, <2>2, <2>3
<1> QED BY <1>1, <1>14, <1>15, <1>16, <1>17, <1>18, <1>19 DEF SInv

(***************************************************************************)
(* So does the record of usage and key: the count catches up with the      *)
(* jobs, and the key leads to the job just made.                           *)
(***************************************************************************)
LEMMA RecordKeeps ==
  ASSUME SInv, NEW r \in Requests, Submissions!Record(r)
  PROVE  SInv'
<1>. PICK h : h = handler[r] OBVIOUS
<1>. PICK p : p = h.principal OBVIOUS
<1>1. /\ h \in Submissions!Handler /\ h.at = "record" /\ p \in Principals /\ p # None
      /\ h.content \in Contents /\ h.key \in Keys \cup {None} /\ h.count \in Nat
      /\ h.job \in JobIds /\ job[h.job] # None /\ job[h.job].principal = p
      /\ job[h.job].content = h.content /\ job[h.job].key = h.key
      /\ h.count + 1 <= Cardinality(JobsOf(p))
  BY SubmissionConstants DEF SInv, Submissions!TypeOK, Submissions!Handler,
     Submissions!Record, Carries, CountsNoMore
<1>2. handler' = [handler EXCEPT ![r] = Submissions!NoHandler] /\ UNCHANGED <<job, overlapped>>
  BY DEF Submissions!Record
<1>3. /\ handler' \in [Requests -> Submissions!Handler]
      /\ handler'[r] = Submissions!NoHandler
      /\ \A q \in Requests \ {r} : handler'[q] = handler[q]
  BY <1>2, OneHandlerMoves, NobodyIsInOrder DEF SInv
<1>4. /\ dailyJobCounts' \in [Principals -> Nat] /\ dailyJobCounts'[p] = h.count + 1
      /\ \A u \in Principals \ {p} : dailyJobCounts'[u] = dailyJobCounts[u]
  <2>1. dailyJobCounts' = [dailyJobCounts EXCEPT ![p] = h.count + 1]
        /\ dailyJobCounts \in [Principals -> Nat]
    BY DEF Submissions!Record, Submissions!UsageAfter, SInv, Submissions!TypeOK
  <2> QED BY <1>1, <2>1
<1>5. PICK e \in Submissions!Entry : e = [job |-> h.job, content |-> h.content]
  BY <1>1 DEF Submissions!Entry
<1>6. e.job = h.job /\ e.content = h.content /\ e # None BY <1>5, SubmissionConstants
<1>7. /\ idempotencyRegistry' \in [Principals -> [Keys -> Submissions!Entry \cup {None}]]
      /\ \A u \in Principals \ {p} : idempotencyRegistry'[u] = idempotencyRegistry[u]
      /\ \A k \in Keys : idempotencyRegistry'[p][k] =
                           IF k = h.key THEN e ELSE idempotencyRegistry[p][k]
  <2>1. idempotencyRegistry \in [Principals -> [Keys -> Submissions!Entry \cup {None}]]
    BY DEF SInv, Submissions!TypeOK
  <2>2. idempotencyRegistry' = Submissions!KeyRecorded(h) BY DEF Submissions!Record
  <2>3. CASE h.key = None
    <3>1. idempotencyRegistry' = idempotencyRegistry
      BY <2>2, <2>3 DEF Submissions!KeyRecorded
    <3> QED BY <2>1, <2>3, <3>1, SubmissionConstants
  <2>4. CASE h.key \in Keys
    <3>1. PICK f : f = [idempotencyRegistry[p] EXCEPT ![h.key] = e] OBVIOUS
    <3>2. /\ f \in [Keys -> Submissions!Entry \cup {None}]
          /\ \A k \in Keys : f[k] = IF k = h.key THEN e ELSE idempotencyRegistry[p][k]
      BY <1>1, <2>1, <2>4, <3>1
    <3>3. idempotencyRegistry' = [idempotencyRegistry EXCEPT ![p] = f]
      BY <1>1, <1>5, <2>1, <2>2, <2>4, <3>1, SubmissionConstants DEF Submissions!KeyRecorded
    <3> QED BY <1>1, <2>1, <3>2, <3>3
  <2> QED BY <1>1, <2>3, <2>4
<1>8. \A u : JobsOf(u)' = JobsOf(u) BY <1>2, JobsRest
<1>9. h.job \in JobsOf(p) BY <1>1 DEF JobsOf, Submissions!JobsOf
<1>10. Submissions!TypeOK' BY <1>2, <1>3, <1>4, <1>7 DEF SInv, Submissions!TypeOK
<1>11. \A q \in Requests : Carries(handler[q])' /\ CountsNoMore(handler[q])'
  <2>1. Carries(Submissions!NoHandler)' /\ CountsNoMore(Submissions!NoHandler)'
    BY NobodyIsInOrder DEF Carries, CountsNoMore
  <2>2. ASSUME NEW q \in Requests \ {r} PROVE Carries(handler[q])' /\ CountsNoMore(handler[q])'
    BY <1>2, <1>3, <1>8, <2>2 DEF SInv, Carries, CountsNoMore
  <2> QED BY <1>3, <2>1, <2>2
<1>12. Submissions!ReplayIsOwn'
  <2> SUFFICES ASSUME NEW u \in Principals, NEW k \in Keys, idempotencyRegistry'[u][k] # None
               PROVE  /\ idempotencyRegistry'[u][k].job \in JobsOf(u)'
                      /\ job'[idempotencyRegistry'[u][k].job].content
                           = idempotencyRegistry'[u][k].content
                      /\ job'[idempotencyRegistry'[u][k].job].key = k
    BY DEF Submissions!ReplayIsOwn, JobsOf
  <2>1. CASE u = p /\ k = h.key
    <3>1. idempotencyRegistry'[u][k] = e BY <1>7, <2>1
    <3> QED BY <1>1, <1>2, <1>6, <1>8, <1>9, <2>1, <3>1
  <2>2. CASE ~(u = p /\ k = h.key)
    <3>1. idempotencyRegistry'[u][k] = idempotencyRegistry[u][k] BY <1>7, <2>2
    <3> QED BY <1>2, <1>8, <3>1 DEF SInv, Submissions!ReplayIsOwn, JobsOf
  <2> QED BY <2>1, <2>2
<1>13. NobodyIsAhead' BY <1>1, <1>4, <1>8 DEF SInv, NobodyIsAhead
<1>14. Submissions!OneJobPerKeyInSequence'
  BY <1>2, <1>8 DEF SInv, Submissions!OneJobPerKeyInSequence, JobsOf, Submissions!SameKey
<1>15. ASSUME NEW u \in Principals \ overlapped PROVE InSequence(u)'
  <2>1. InSequence(u) /\ u # None BY SubmissionConstants DEF SInv
  <2>2. \A q \in Requests : handler'[q].principal = u =>
          q # r /\ handler[q].principal = u /\ handler'[q] = handler[q]
    BY <1>3, <2>1, NobodyIsInOrder
  <2>3. OneHandler(u)' BY <2>1, <2>2 DEF InSequence, OneHandler
  <2>4. CASE u = p
    <3>1. \A q \in Requests : handler[q].principal = p => q = r
      BY <2>1, <2>4 DEF InSequence, OneHandler
    <3>2. \A q \in Requests : handler'[q].principal # p BY <2>2, <2>4, <3>1
    <3>3. h.count + 1 = Cardinality(JobsOf(p)) /\ Cardinality(JobsOf(p)) <= maxJobsPerDay
      BY <1>1, <2>1, <2>4 DEF InSequence, CountIsExact
    <3>4. CountIsExact(p)' BY <1>4, <1>8, <3>2, <3>3 DEF CountIsExact
    <3>5. KeysAreRegistered(p)'
      <4> SUFFICES ASSUME NEW j \in JobsOf(p), job[j].key # None
                   PROVE  /\ idempotencyRegistry'[p][job[j].key] # None
                          /\ idempotencyRegistry'[p][job[j].key].job = j
        BY <1>2, <1>8, <3>2 DEF KeysAreRegistered
      <4>1. job[j].key \in Keys
        BY DEF JobsOf, Submissions!JobsOf, SInv, Submissions!TypeOK, Submissions!Job
      <4>2. CASE job[j].key = h.key
        <5>1. Submissions!SameKey(j, h.job)
          BY <1>1, <4>2 DEF Submissions!SameKey, JobsOf, Submissions!JobsOf
        <5>2. j = h.job
          BY <1>9, <2>4, <5>1 DEF SInv, Submissions!OneJobPerKeyInSequence, JobsOf
        <5>3. idempotencyRegistry'[p][job[j].key] = e BY <1>7, <4>1, <4>2
        <5> QED BY <1>6, <5>2, <5>3
      <4>3. CASE job[j].key # h.key
        <5>1. ~\E q \in Requests :
                 handler[q].principal = p /\ handler[q].at = "record" /\ handler[q].job = j
          BY <1>1, <3>1, <4>3
        <5>2. idempotencyRegistry'[p][job[j].key] = idempotencyRegistry[p][job[j].key]
          BY <1>7, <4>1, <4>3
        <5> QED BY <2>1, <2>4, <5>1, <5>2 DEF InSequence, KeysAreRegistered
      <4> QED BY <4>2, <4>3
    <3> QED BY <2>3, <2>4, <3>4, <3>5 DEF InSequence
  <2>5. CASE u # p
    <3>1. \A q \in Requests : handler[q].principal = u => handler'[q] = handler[q]
      BY <1>3, <2>5
    <3>2. /\ dailyJobCounts'[u] = dailyJobCounts[u]
          /\ idempotencyRegistry'[u] = idempotencyRegistry[u]
      BY <1>4, <1>7, <2>5
    <3>3. CountIsExact(u)'
      BY <1>8, <2>1, <2>2, <3>1, <3>2 DEF InSequence, CountIsExact
    <3>4. KeysAreRegistered(u)'
      BY <1>2, <1>8, <2>1, <2>2, <3>1, <3>2 DEF InSequence, KeysAreRegistered
    <3> QED BY <2>3, <3>3, <3>4 DEF InSequence
  <2> QED BY <2>4, <2>5
<1> QED BY <1>2, <1>10, <1>11, <1>12, <1>13, <1>14, <1>15 DEF SInv

(***************************************************************************)
(* The invariant holds of a server that has just started, ...              *)
(***************************************************************************)
LEMMA SInvInitially == Submissions!Init => SInv
<1> SUFFICES ASSUME Submissions!Init PROVE SInv OBVIOUS
<1>1. /\ handler = [r \in Requests |-> Submissions!NoHandler]
      /\ dailyJobCounts = [p \in Principals |-> 0]
      /\ idempotencyRegistry = [p \in Principals |-> [k \in Keys |-> None]]
      /\ job = [j \in JobIds |-> None] /\ overlapped = {}
  BY DEF Submissions!Init
<1>2. \A p : JobsOf(p) = {} /\ Cardinality(JobsOf(p)) = 0
  <2>1. \A p : JobsOf(p) = {} BY <1>1 DEF JobsOf, Submissions!JobsOf
  <2> QED BY <2>1, FS_EmptySet
<1>3. Submissions!TypeOK BY <1>1, NobodyIsInOrder DEF Submissions!TypeOK
<1>4. \A r \in Requests : Carries(handler[r]) /\ CountsNoMore(handler[r])
  BY <1>1, NobodyIsInOrder DEF Carries, CountsNoMore
<1>5. Submissions!ReplayIsOwn BY <1>1 DEF Submissions!ReplayIsOwn
<1>6. NobodyIsAhead BY <1>1, <1>2 DEF NobodyIsAhead
<1>7. Submissions!OneJobPerKeyInSequence
  BY <1>2 DEF Submissions!OneJobPerKeyInSequence, JobsOf
<1>8. ASSUME NEW p \in Principals PROVE InSequence(p)
  <2>1. \A r \in Requests : handler[r].principal # p
    BY <1>1, NobodyIsInOrder, SubmissionConstants
  <2>2. CountIsExact(p) BY <1>1, <1>2, <2>1, SubmissionConstants DEF CountIsExact
  <2>3. KeysAreRegistered(p) BY <1>2, <2>1 DEF KeysAreRegistered
  <2> QED BY <2>1, <2>2, <2>3 DEF InSequence, OneHandler
<1> QED BY <1>3, <1>4, <1>5, <1>6, <1>7, <1>8 DEF SInv

(***************************************************************************)
(* ... is kept by every step, ...                                          *)
(***************************************************************************)
LEMMA SInvIsKept == SInv /\ [Submissions!Next]_submissionVars => SInv'
<1> SUFFICES ASSUME SInv, [Submissions!Next]_submissionVars PROVE SInv' OBVIOUS
<1>1. CASE UNCHANGED submissionVars
  <2>1. UNCHANGED <<handler, dailyJobCounts, idempotencyRegistry, job, overlapped>>
    BY <1>1 DEF submissionVars
  <2>2. \A p : JobsOf(p)' = JobsOf(p) BY <2>1, JobsRest
  <2>3. Submissions!TypeOK' BY <2>1 DEF SInv, Submissions!TypeOK
  <2>4. \A r \in Requests : Carries(handler[r])' /\ CountsNoMore(handler[r])'
    BY <2>1, <2>2 DEF SInv, Carries, CountsNoMore
  <2>5. Submissions!ReplayIsOwn' /\ NobodyIsAhead' /\ Submissions!OneJobPerKeyInSequence'
    BY <2>1, <2>2 DEF SInv, Submissions!ReplayIsOwn, NobodyIsAhead,
       Submissions!OneJobPerKeyInSequence, Submissions!SameKey, JobsOf
  <2>6. ASSUME NEW p \in Principals \ overlapped PROVE InSequence(p)'
    BY <2>1, <2>2 DEF SInv, InSequence, OneHandler, CountIsExact, KeysAreRegistered
  <2> QED BY <2>1, <2>3, <2>4, <2>5, <2>6 DEF SInv
<1>2. CASE Submissions!Next
  <2>1. ASSUME NEW r \in Requests, NEW p \in Principals, Submissions!Arrive(r, p) PROVE SInv'
    BY <2>1, ArriveKeeps
  <2>2. ASSUME NEW r \in Requests, NEW k \in Keys \cup {None}, NEW c \in Contents,
               Submissions!ReadBody(r, k, c)
        PROVE  SInv'
    BY <2>2, ReadBodyKeeps
  <2>3. ASSUME NEW r \in Requests, NEW j \in JobIds, Submissions!Submit(r, j) PROVE SInv'
    BY <2>3, SubmitKeeps
  <2>4. ASSUME NEW r \in Requests, Submissions!SubmitRefused(r) PROVE SInv'
    BY <2>4, RefusalsKeep
  <2>5. ASSUME NEW r \in Requests, Submissions!Record(r) PROVE SInv'
    BY <2>5, RecordKeeps
  <2>6. ASSUME NEW r \in Requests, Submissions!BodyRefused(r) PROVE SInv'
    BY <2>6, RefusalsKeep
  <2>7. ASSUME NEW j \in JobIds, Submissions!Finish(j) PROVE SInv'
    BY <2>7, FinishKeeps
  <2> QED BY <1>2, <2>1, <2>2, <2>3, <2>4, <2>5, <2>6, <2>7 DEF Submissions!Next
<1> QED BY <1>1, <1>2

(***************************************************************************)
(* ... and so always holds.                                                *)
(***************************************************************************)
LEMMA SInvHolds == Submissions!Spec => []SInv
<1>1. Submissions!Spec => Submissions!Init /\ [][Submissions!Next]_submissionVars
  BY DEF Submissions!Spec, Submissions!vars, submissionVars
<1> QED BY <1>1, SInvInitially, SInvIsKept, PTL

(***************************************************************************)
(* However the handlers of the product API interleave at their awaits, an  *)
(* idempotency key that is replayed answers with the job, content and key  *)
(* of the principal who used it, and a principal whose requests come one   *)
(* after the other has one job per key (ProductApiServer.                  *)
(* _handleSubmitRecovery).                                                 *)
(***************************************************************************)
THEOREM Replays == Submissions!Spec => []KeysNameJobs
<1>1. SInv => KeysNameJobs BY DEF SInv, KeysNameJobs, Submissions!KeysNameJobs
<1> QED BY <1>1, SInvHolds, PTL

(***************************************************************************)
(* The usage count is only ever behind what a principal has submitted, so  *)
(* nobody is refused early, and a principal whose requests come one after  *)
(* the other gets no more than maxJobsPerDay jobs.                         *)
(***************************************************************************)
THEOREM Usage == Submissions!Spec => []UsageIsFair
<1>1. SInv => UsageIsFair
  BY SameCardinality DEF SInv, UsageIsFair, Submissions!UsageIsFair, NobodyIsAhead, InSequence,
     CountIsExact, Submissions!NobodyIsRefusedEarly, Submissions!QuotaHoldsInSequence, JobsOf
<1> QED BY <1>1, SInvHolds, PTL

-----------------------------------------------------------------------------
(***************************************************************************)
(* Limits.  What is assumed of them, with the operators of this module.    *)
(***************************************************************************)
Ages == Seq(0 .. windowMs + 1)

Younger(ages, age0) == Cardinality({i \in DOMAIN ages : ages[i] < age0})

(***************************************************************************)
(* What is assumed of the constants, each fact by itself.                  *)
(***************************************************************************)
LEMMA LimitConstants ==
  /\ windowMs \in Nat /\ windowMs > 0 /\ second \in 1 .. windowMs
  /\ maxRequests \in Nat /\ maxRequests > 0 /\ burstLimit \in Nat /\ burstLimit > 0
  /\ maxConcurrent \in Nat /\ IsFiniteSet(Workers) /\ None \notin Principals
BY LimitsAssumption DEF Limits!Assumptions, Limits!IsFiniteSet, IsFiniteSet

(***************************************************************************)
(* The operators of RateLimiter are those of the modules it extends.       *)
(***************************************************************************)
LEMMA LimitOperators ==
  /\ \A S : Limits!Cardinality(S) = Cardinality(S)
  /\ \A ages, age0 : Limits!Within(ages, age0) =
       Filtered(ages, {i \in DOMAIN ages : ages[i] < age0})
  /\ \A ages, age0 : Limits!Younger(ages, age0) = Younger(ages, age0)
  /\ Limits!tooOld = windowMs + 1 /\ Limits!Ages = Ages
<1>1. \A S : Limits!Cardinality(S) = Cardinality(S)
  BY DEF Limits!Cardinality, Cardinality
<1>2. \A S, rank : Limits!Ranked(S, rank) = Ranked(S, rank)
  BY DEF Limits!Ranked, Ranked, Limits!Cardinality, Cardinality, Limits!IsFiniteSet,
     IsFiniteSet
<1>3. \A ages, at : Limits!Filtered(ages, at) = Filtered(ages, at)
  BY <1>1, <1>2 DEF Limits!Filtered, Filtered
<1> QED BY <1>1, <1>3 DEF Limits!Within, Limits!Younger, Younger, Limits!tooOld, Limits!Ages, Ages

(***************************************************************************)
(* How many entries of a list are younger than an age.                     *)
(***************************************************************************)
LEMMA YoungerIsFinite ==
  ASSUME NEW ages \in Ages, NEW b
  PROVE  IsFiniteSet({i \in DOMAIN ages : ages[i] < b})
<1>1. DOMAIN ages = 1 .. Len(ages) /\ Len(ages) \in Nat
  BY DEF Ages
<1>2. IsFiniteSet(DOMAIN ages)
  BY <1>1, FS_Interval
<1> QED BY <1>2, FS_Subset

(***************************************************************************)
(* The count is a number, grows with the age, and is none for age zero.    *)
(***************************************************************************)
LEMMA YoungerCounts ==
  ASSUME NEW ages \in Ages
  PROVE  /\ \A b : Younger(ages, b) \in Nat
         /\ \A a, b \in Nat : a <= b => Younger(ages, a) <= Younger(ages, b)
         /\ Younger(ages, 0) = 0
<1> USE LimitConstants
<1>1. \A i \in DOMAIN ages : ages[i] \in 0 .. windowMs + 1
  BY DEF Ages
<1>2. ASSUME NEW b PROVE Younger(ages, b) \in Nat
  BY YoungerIsFinite, FS_CardinalityType DEF Younger
<1>3. ASSUME NEW a \in Nat, NEW b \in Nat, a <= b PROVE Younger(ages, a) <= Younger(ages, b)
  <2>1. {i \in DOMAIN ages : ages[i] < a} \subseteq {i \in DOMAIN ages : ages[i] < b}
    BY <1>1, <1>3
  <2> QED BY <2>1, YoungerIsFinite, FS_Subset DEF Younger
<1>4. {i \in DOMAIN ages : ages[i] < 0} = {}
  BY <1>1
<1> QED BY <1>2, <1>3, <1>4, FS_EmptySet DEF Younger

(***************************************************************************)
(* What is left of the window has the same entries younger than its age.   *)
(***************************************************************************)
LEMMA WithinCounts ==
  ASSUME NEW ages \in Ages, NEW w, w = Limits!Within(ages, windowMs)
  PROVE  /\ w \in Ages
         /\ \A b \in 0 .. windowMs : Younger(w, b) = Younger(ages, b)
         /\ \A k \in DOMAIN w : \E i \in DOMAIN ages : w[k] = ages[i] /\ ages[i] < windowMs
         /\ Younger(ages, windowMs) > 0 => w # <<>>
<1> USE LimitConstants
<1>1. PICK at : at = {i \in DOMAIN ages : ages[i] < windowMs} OBVIOUS
<1>2. w = Filtered(ages, at) /\ at \subseteq DOMAIN ages
  BY <1>1, LimitOperators
<1>3. ages \in Seq(0 .. windowMs + 1) BY DEF Ages
<1>4. /\ Cardinality(at) \in Nat /\ w \in Seq(0 .. windowMs + 1) /\ Len(w) = Cardinality(at)
      /\ \E f \in Bijection(1 .. Cardinality(at), at) :
           \A k \in 1 .. Cardinality(at) : w[k] = ages[f[k]]
  BY <1>2, <1>3, FilteredLists
<1>5. PICK f \in Bijection(1 .. Cardinality(at), at) :
        \A k \in 1 .. Cardinality(at) : w[k] = ages[f[k]]
  BY <1>4
<1>6. f \in [1 .. Cardinality(at) -> at]
  BY DEF Bijection, Injection
<1>7. ASSUME NEW b \in 0 .. windowMs PROVE Younger(w, b) = Younger(ages, b)
  <2>1. PICK P : P = {a \in Nat : a < b} OBVIOUS
  <2>2. CountIn(w, DOMAIN w, P) = CountIn(ages, at, P)
    BY <1>2, <1>3, FilteredCounts
  <2>3. {k \in DOMAIN w : w[k] \in P} = {k \in DOMAIN w : w[k] < b}
    BY <1>4, <2>1
  <2>4. {i \in at : ages[i] \in P} = {i \in DOMAIN ages : ages[i] < b}
    BY <1>1, <1>3, <2>1
  <2> QED BY <2>2, <2>3, <2>4 DEF Younger, CountIn
<1>8. \A k \in DOMAIN w : \E i \in DOMAIN ages : w[k] = ages[i] /\ ages[i] < windowMs
  BY <1>1, <1>4, <1>5, <1>6
<1>9. Younger(ages, windowMs) = Cardinality(at)
  BY <1>1 DEF Younger
<1> QED BY <1>4, <1>7, <1>8, <1>9 DEF Ages

(***************************************************************************)
(* A request that is let through is one more, in every window.             *)
(***************************************************************************)
LEMMA AppendCounts ==
  ASSUME NEW ages \in Ages
  PROVE  /\ Append(ages, 0) \in Ages
         /\ \A b \in Nat \ {0} : Younger(Append(ages, 0), b) = Younger(ages, b) + 1
<1> USE LimitConstants
<1>1. Append(ages, 0) \in Ages
  BY DEF Ages
<1>2. ASSUME NEW b \in Nat \ {0} PROVE Younger(Append(ages, 0), b) = Younger(ages, b) + 1
  <2>1. PICK S : S = {i \in DOMAIN ages : ages[i] < b} OBVIOUS
  <2>2. PICK n \in Nat : n = Len(ages) BY DEF Ages
  <2>3. DOMAIN ages = 1 .. n /\ DOMAIN Append(ages, 0) = 1 .. (n + 1)
    BY <2>2 DEF Ages
  <2>4. Append(ages, 0)[n + 1] = 0 /\ \A i \in 1 .. n : Append(ages, 0)[i] = ages[i]
    BY <2>2 DEF Ages
  <2>5. {i \in DOMAIN Append(ages, 0) : Append(ages, 0)[i] < b} = S \cup {n + 1}
    BY <2>1, <2>3, <2>4
  <2>6. n + 1 \notin S /\ IsFiniteSet(S)
    <3>1. n + 1 \notin 1 .. n OBVIOUS
    <3> QED BY <2>1, <2>3, <3>1, YoungerIsFinite
  <2>7. Cardinality(S \cup {n + 1}) = Cardinality(S) + 1
    BY <2>6, FS_AddElement
  <2> QED BY <2>1, <2>5, <2>7 DEF Younger
<1> QED BY <1>1, <1>2

(***************************************************************************)
(* Forgetting the first entry makes no window fuller.                      *)
(***************************************************************************)
LEMMA TailCounts ==
  ASSUME NEW ages \in Ages, ages # <<>>
  PROVE  /\ Tail(ages) \in Ages
         /\ \A b \in Nat : Younger(Tail(ages), b) <= Younger(ages, b)
<1> USE LimitConstants
<1>1. Tail(ages) \in Ages
  BY DEF Ages
<1>2. ASSUME NEW b \in Nat PROVE Younger(Tail(ages), b) <= Younger(ages, b)
  <2>1. PICK n \in Nat \ {0} : n = Len(ages) BY DEF Ages
  <2>2. /\ DOMAIN ages = 1 .. n /\ DOMAIN Tail(ages) = 1 .. (n - 1)
        /\ \A i \in 1 .. (n - 1) : Tail(ages)[i] = ages[i + 1]
    BY <2>1 DEF Ages
  <2>3. PICK S, T : /\ S = {i \in DOMAIN Tail(ages) : Tail(ages)[i] < b}
                    /\ T = {i \in DOMAIN ages : ages[i] < b}
    OBVIOUS
  <2>4. PICK f : f = [i \in S |-> i + 1] OBVIOUS
  <2>5. f \in [S -> T] /\ \A i, k \in S : f[i] = f[k] => i = k
    BY <2>2, <2>3, <2>4
  <2>6. f \in Injection(S, T) /\ IsFiniteSet(T)
    BY <2>3, <2>5, YoungerIsFinite DEF Injection, IsInjective
  <2>7. Cardinality(S) <= Cardinality(T)
    BY <2>6, FS_Injection
  <2> QED BY <2>3, <2>7 DEF Younger
<1> QED BY <1>1, <1>2

(***************************************************************************)
(* After a tick a window has what the one shorter by a tick had before.    *)
(***************************************************************************)
LEMMA OlderCounts ==
  ASSUME NEW ages \in Ages
  PROVE  /\ Limits!Older(ages) \in Ages
         /\ \A b \in 1 .. windowMs : Younger(Limits!Older(ages), b) = Younger(ages, b - 1)
<1> USE LimitConstants, LimitOperators
<1>1. PICK n \in Nat : n = Len(ages) BY DEF Ages
<1>2. DOMAIN ages = 1 .. n /\ \A i \in 1 .. n : ages[i] \in 0 .. windowMs + 1
  BY <1>1 DEF Ages
<1>3. PICK old : old = Limits!Older(ages) OBVIOUS
<1>4. old = [i \in 1 .. n |-> IF ages[i] < windowMs + 1 THEN ages[i] + 1 ELSE windowMs + 1]
  BY <1>2, <1>3 DEF Limits!Older
<1>5. old \in [1 .. n -> 0 .. windowMs + 1]
  BY <1>2, <1>4
<1>6. old \in Ages
  BY <1>5 DEF Ages
<1>7. ASSUME NEW b \in 1 .. windowMs PROVE Younger(old, b) = Younger(ages, b - 1)
  <2>1. \A i \in 1 .. n : old[i] < b <=> ages[i] < b - 1
    BY <1>2, <1>4
  <2>2. {i \in DOMAIN old : old[i] < b} = {i \in DOMAIN ages : ages[i] < b - 1}
    BY <1>2, <1>5, <2>1
  <2> QED BY <2>2 DEF Younger
<1> QED BY <1>3, <1>6, <1>7

-----------------------------------------------------------------------------
(***************************************************************************)
(* The invariant of the limits.  The log never has more in a window, of    *)
(* whatever length, than the list that is counted; and that one is kept    *)
(* to the limits.                                                          *)
(***************************************************************************)
LimitTypes ==
  /\ requestTimestamps \in [Principals -> Ages] /\ granted \in [Principals -> Ages]
  /\ waiting \in [Requests -> Principals \cup {None}]
  /\ activeJobs \in [Principals -> Nat]
  /\ running \in [Workers -> Principals \cup {None}]

IsCounted(counted, log) ==
  /\ \A b \in 0 .. windowMs : Younger(log, b) <= Younger(counted, b)
  /\ Younger(counted, windowMs) <= maxRequests
  /\ Younger(counted, second) <= burstLimit

LInv ==
  /\ LimitTypes
  /\ \A p \in Principals : IsCounted(requestTimestamps[p], granted[p])
  /\ \A p \in Principals : activeJobs[p] = Cardinality({w \in Workers : running[w] = p})

(***************************************************************************)
(* It holds at the start.                                                  *)
(***************************************************************************)
LEMMA LimitsInitial == Limits!Init => LInv
<1> SUFFICES ASSUME Limits!Init PROVE LInv
  OBVIOUS
<1> USE LimitConstants
<1>1. <<>> \in Ages /\ DOMAIN <<>> = {} BY DEF Ages
<1>2. \A b : Younger(<<>>, b) = 0
  <2>1. \A b : {i \in DOMAIN <<>> : <<>>[i] < b} = {} BY <1>1
  <2> QED BY <2>1, FS_EmptySet DEF Younger
<1>3. LimitTypes BY <1>1 DEF Limits!Init, LimitTypes
<1>4. \A p \in Principals : IsCounted(requestTimestamps[p], granted[p])
  BY <1>2 DEF Limits!Init, IsCounted
<1>5. ASSUME NEW p \in Principals
      PROVE  activeJobs[p] = Cardinality({w \in Workers : running[w] = p})
  <2>1. {w \in Workers : running[w] = p} = {} BY DEF Limits!Init
  <2> QED BY <2>1, FS_EmptySet DEF Limits!Init
<1> QED BY <1>3, <1>4, <1>5 DEF LInv

(***************************************************************************)
(* A check counts what it allows, and allows no more than the limits.      *)
(***************************************************************************)
LEMMA CheckCounts ==
  ASSUME LInv, NEW p \in Principals, Limits!Check(p)
  PROVE  /\ requestTimestamps' \in [Principals -> Ages] /\ granted' \in [Principals -> Ages]
         /\ \A q \in Principals : IsCounted(requestTimestamps'[q], granted'[q])
<1> USE LimitConstants
<1>1. PICK counted \in Ages, log \in Ages : counted = requestTimestamps[p] /\ log = granted[p]
  BY DEF LInv, LimitTypes
<1>2. IsCounted(counted, log) BY <1>1 DEF LInv
<1>3. PICK left, kept1 : /\ left = Limits!Within(counted, windowMs)
                         /\ kept1 = Limits!Within(log, windowMs)
  OBVIOUS
<1>4. /\ left \in Ages /\ \A b \in 0 .. windowMs : Younger(left, b) = Younger(counted, b)
      /\ kept1 \in Ages /\ \A b \in 0 .. windowMs : Younger(kept1, b) = Younger(log, b)
  BY <1>3, WithinCounts
<1>5. PICK c2, l2 : /\ c2 = Limits!AfterCheck(counted)
                    /\ l2 = IF Limits!Allowed(counted) THEN Limits!Recorded(log) ELSE log
  OBVIOUS
<1>6. c2 \in Ages /\ l2 \in Ages /\ IsCounted(c2, l2)
  <2>1. CASE ~ Limits!Allowed(counted)
    <3>1. c2 = left /\ l2 = log
      BY <1>3, <1>5, <2>1 DEF Limits!AfterCheck, Limits!InWindow
    <3> QED BY <1>2, <1>4, <3>1 DEF IsCounted
  <2>2. CASE Limits!Allowed(counted)
    <3>1. Younger(counted, second) < burstLimit /\ Younger(counted, windowMs) < maxRequests
      <4>1. Younger(counted, second) \in Nat /\ Younger(counted, windowMs) \in Nat
        BY YoungerCounts
      <4>2. /\ ~ (Younger(counted, second) >= burstLimit)
            /\ ~ (Younger(counted, windowMs) >= maxRequests)
        BY <2>2, LimitOperators DEF Limits!Allowed, Limits!BurstExceeded, Limits!WindowExceeded
      <4> QED BY <4>1, <4>2
    <3>2. c2 = Append(left, 0)
      BY <1>3, <1>5, <2>2 DEF Limits!AfterCheck, Limits!InWindow
    <3>3. c2 \in Ages /\ \A b \in 1 .. windowMs : Younger(c2, b) = Younger(counted, b) + 1
      BY <1>4, <3>2, AppendCounts
    <3>4. PICK all : all = Append(kept1, 0) OBVIOUS
    <3>5. all \in Ages /\ \A b \in 1 .. windowMs : Younger(all, b) = Younger(log, b) + 1
      BY <1>4, <3>4, AppendCounts
    <3>6. l2 = all \/ l2 = Tail(all)
      BY <1>3, <1>5, <2>2, <3>4 DEF Limits!Recorded
    <3>7. all # <<>>
      <4>1. Len(all) = Len(kept1) + 1 /\ Len(kept1) \in Nat BY <1>4, <3>4 DEF Ages
      <4> QED BY <4>1
    <3>8. l2 \in Ages /\ \A b \in Nat : Younger(l2, b) <= Younger(all, b)
      <4>1. \A b \in Nat : Younger(all, b) <= Younger(all, b) BY <3>5, YoungerCounts
      <4> QED BY <3>5, <3>6, <3>7, <4>1, TailCounts
    <3>9. ASSUME NEW b \in 0 .. windowMs PROVE Younger(l2, b) <= Younger(c2, b)
      <4>1. CASE b = 0 BY <3>3, <3>8, <4>1, YoungerCounts
      <4>2. CASE b \in 1 .. windowMs
        <5>1. Younger(log, b) <= Younger(counted, b) BY <1>2, <4>2 DEF IsCounted
        <5>2. /\ Younger(log, b) \in Nat /\ Younger(counted, b) \in Nat
              /\ Younger(l2, b) \in Nat /\ Younger(c2, b) \in Nat /\ Younger(all, b) \in Nat
          BY <3>3, <3>5, <3>8, YoungerCounts
        <5> QED BY <3>3, <3>5, <3>8, <4>2, <5>1, <5>2
      <4> QED BY <4>1, <4>2
    <3>10. Younger(c2, windowMs) <= maxRequests /\ Younger(c2, second) <= burstLimit
      <4>1. Younger(counted, second) \in Nat /\ Younger(counted, windowMs) \in Nat
        BY YoungerCounts
      <4>2. windowMs \in 1 .. windowMs OBVIOUS
      <4> QED BY <3>1, <3>3, <4>1, <4>2
    <3> QED BY <3>3, <3>8, <3>9, <3>10 DEF IsCounted
  <2> QED BY <2>1, <2>2
<1>7. /\ requestTimestamps' = [requestTimestamps EXCEPT ![p] = c2]
      /\ granted' = [granted EXCEPT ![p] = l2]
  BY <1>1, <1>5 DEF Limits!Check, LInv, LimitTypes
<1>8. /\ requestTimestamps' \in [Principals -> Ages] /\ granted' \in [Principals -> Ages]
      /\ requestTimestamps'[p] = c2 /\ granted'[p] = l2
      /\ \A q \in Principals \ {p} :
           requestTimestamps'[q] = requestTimestamps[q] /\ granted'[q] = granted[q]
  BY <1>6, <1>7 DEF LInv, LimitTypes
<1> QED BY <1>6, <1>8 DEF LInv

(***************************************************************************)
(* Whether the client waited or not, its request ends in one check.        *)
(***************************************************************************)
LEMMA SubmissionsKeep ==
  ASSUME LInv, NEW r \in Requests,
         Limits!Submit(r) \/ \E p \in Principals : Limits!Arrive(r, p)
  PROVE  LInv'
<1>1. \/ /\ waiting[r] \in Principals /\ Limits!Check(waiting[r])
         /\ waiting' = [waiting EXCEPT ![r] = None]
      \/ \E p \in Principals : Limits!Check(p) /\ waiting' \in {waiting, [waiting EXCEPT ![r] = p]}
  BY DEF Limits!Submit, Limits!Arrive, LInv, LimitTypes
<1>2. UNCHANGED <<activeJobs, running>>
  BY DEF Limits!Submit, Limits!Arrive
<1>3. waiting' \in [Requests -> Principals \cup {None}]
  BY <1>1 DEF LInv, LimitTypes
<1>4. PICK p \in Principals : Limits!Check(p)
  BY <1>1
<1>5. /\ requestTimestamps' \in [Principals -> Ages] /\ granted' \in [Principals -> Ages]
      /\ \A q \in Principals : IsCounted(requestTimestamps'[q], granted'[q])
  BY <1>4, CheckCounts
<1> QED BY <1>2, <1>3, <1>5 DEF LInv, LimitTypes, IsCounted

(***************************************************************************)
(* A slot is taken and given back by the worker that runs the job.         *)
(***************************************************************************)
LEMMA AcquireKeeps ==
  ASSUME LInv, NEW w \in Workers, NEW p \in Principals, Limits!AcquireConcurrency(w, p)
  PROVE  LInv'
<1> USE LimitConstants
<1> DEFINE Runs(q) == {v \in Workers : running[v] = q}
<1>1. /\ running[w] = None /\ activeJobs' = [activeJobs EXCEPT ![p] = @ + 1]
      /\ running' = [running EXCEPT ![w] = p] /\ UNCHANGED <<requestTimestamps, waiting, granted>>
  BY DEF Limits!AcquireConcurrency
<1>2. LimitTypes' BY <1>1 DEF LInv, LimitTypes
<1>3. ASSUME NEW q \in Principals PROVE activeJobs'[q] = Cardinality(Runs(q)')
  <2>1. Runs(q)' = IF q = p THEN Runs(q) \cup {w} ELSE Runs(q)
    BY <1>1 DEF LInv, LimitTypes
  <2>2. IsFiniteSet(Runs(q)) /\ w \notin Runs(q)
    BY <1>1, FS_Subset
  <2>3. Cardinality(Runs(q) \cup {w}) = Cardinality(Runs(q)) + 1
    BY <2>2, FS_AddElement
  <2>4. activeJobs[q] = Cardinality(Runs(q)) BY DEF LInv
  <2>5. activeJobs'[q] = IF q = p THEN activeJobs[q] + 1 ELSE activeJobs[q]
    BY <1>1 DEF LInv, LimitTypes
  <2> QED BY <2>1, <2>3, <2>4, <2>5
<1>4. \A q \in Principals : IsCounted(requestTimestamps[q], granted[q])' BY <1>1 DEF LInv, IsCounted
<1> QED BY <1>2, <1>3, <1>4 DEF LInv

(***************************************************************************)
(* The count goes down by the slot given back, never below none.           *)
(***************************************************************************)
LEMMA ReleaseKeeps ==
  ASSUME LInv, NEW w \in Workers, Limits!ReleaseConcurrency(w)
  PROVE  LInv'
<1> USE LimitConstants
<1> DEFINE Runs(q) == {v \in Workers : running[v] = q}
<1>1. PICK p \in Principals : p = running[w]
  BY DEF Limits!ReleaseConcurrency, LInv, LimitTypes
<1>2. /\ activeJobs' = [activeJobs EXCEPT ![p] = Limits!OneFewer(@)]
      /\ running' = [running EXCEPT ![w] = None]
      /\ UNCHANGED <<requestTimestamps, waiting, granted>>
  BY <1>1 DEF Limits!ReleaseConcurrency
<1>3. ASSUME NEW q \in Principals
      PROVE  activeJobs'[q] \in Nat /\ activeJobs'[q] = Cardinality(Runs(q)')
  <2>1. activeJobs[q] = Cardinality(Runs(q)) /\ activeJobs[q] \in Nat BY DEF LInv, LimitTypes
  <2>2. Runs(q)' = IF q = p THEN Runs(q) \ {w} ELSE Runs(q)
    BY <1>1, <1>2 DEF LInv, LimitTypes
  <2>3. IsFiniteSet(Runs(q)) BY FS_Subset
  <2>4. CASE q = p
    <3>1. w \in Runs(q) BY <1>1, <2>4
    <3>2. Cardinality(Runs(q) \ {w}) = Cardinality(Runs(q)) - 1
      BY <2>3, <3>1, FS_RemoveElement
    <3>3. Cardinality(Runs(q)) # 0 BY <2>3, <3>1, FS_EmptySet
    <3>4. activeJobs'[q] = activeJobs[q] - 1
      BY <1>2, <2>1, <2>4, <3>3 DEF Limits!OneFewer, LInv, LimitTypes
    <3>5. Runs(q)' = Runs(q) \ {w} BY <2>2, <2>4
    <3> HIDE DEF Runs
    <3> QED BY <2>1, <3>2, <3>3, <3>4, <3>5
  <2>5. CASE q # p
    BY <1>2, <2>1, <2>2, <2>5 DEF LInv, LimitTypes
  <2> QED BY <2>4, <2>5
<1>4. LimitTypes'
  <2>1. DOMAIN activeJobs' = Principals /\ activeJobs' = [q \in Principals |-> activeJobs'[q]]
    BY <1>2 DEF LInv, LimitTypes
  <2>2. activeJobs' \in [Principals -> Nat] BY <1>3, <2>1
  <2> QED BY <1>2, <2>2 DEF LInv, LimitTypes
<1>5. \A q \in Principals : IsCounted(requestTimestamps[q], granted[q])' BY <1>2 DEF LInv, IsCounted
<1> QED BY <1>3, <1>4, <1>5 DEF LInv

(***************************************************************************)
(* Time goes on for the list and the log alike.                            *)
(***************************************************************************)
LEMMA LimitsTickKeeps ==
  ASSUME LInv, Limits!Tick
  PROVE  LInv'
<1> USE LimitConstants
<1>1. /\ requestTimestamps' = [p \in Principals |-> Limits!Older(requestTimestamps[p])]
      /\ granted' = [p \in Principals |-> Limits!Older(granted[p])]
      /\ UNCHANGED <<activeJobs, waiting, running>>
  BY DEF Limits!Tick
<1>2. ASSUME NEW p \in Principals
      PROVE  /\ requestTimestamps'[p] \in Ages /\ granted'[p] \in Ages
             /\ IsCounted(requestTimestamps'[p], granted'[p])
  <2>1. PICK counted \in Ages, log \in Ages : counted = requestTimestamps[p] /\ log = granted[p]
    BY DEF LInv, LimitTypes
  <2>2. IsCounted(counted, log) BY <2>1 DEF LInv
  <2>3. PICK c2, l2 : c2 = Limits!Older(counted) /\ l2 = Limits!Older(log) OBVIOUS
  <2>4. /\ c2 \in Ages /\ l2 \in Ages
        /\ \A b \in 1 .. windowMs : /\ Younger(c2, b) = Younger(counted, b - 1)
                                    /\ Younger(l2, b) = Younger(log, b - 1)
    BY <2>3, OlderCounts
  <2>5. Younger(c2, 0) = 0 /\ Younger(l2, 0) = 0 BY <2>4, YoungerCounts
  <2>6. ASSUME NEW b \in 0 .. windowMs PROVE Younger(l2, b) <= Younger(c2, b)
    <3>1. CASE b = 0 BY <2>5, <3>1
    <3>2. CASE b \in 1 .. windowMs
      <4>1. b - 1 \in 0 .. windowMs BY <3>2
      <4> QED BY <2>2, <2>4, <3>2, <4>1 DEF IsCounted
    <3> QED BY <3>1, <3>2
  <2>7. Younger(c2, windowMs) <= Younger(counted, windowMs)
    <3>1. windowMs - 1 \in Nat /\ windowMs - 1 <= windowMs /\ windowMs \in 1 .. windowMs OBVIOUS
    <3> QED BY <2>4, <3>1, YoungerCounts
  <2>8. Younger(c2, second) <= Younger(counted, second)
    <3>1. second - 1 \in Nat /\ second \in Nat /\ second - 1 <= second OBVIOUS
    <3> QED BY <2>4, <3>1, YoungerCounts
  <2>9. /\ Younger(counted, windowMs) <= maxRequests /\ Younger(counted, second) <= burstLimit
        /\ Younger(counted, windowMs) \in Nat /\ Younger(counted, second) \in Nat
        /\ Younger(c2, windowMs) \in Nat /\ Younger(c2, second) \in Nat
    BY <2>2, <2>4, YoungerCounts DEF IsCounted
  <2>10. IsCounted(c2, l2)
    BY <2>6, <2>7, <2>8, <2>9 DEF IsCounted
  <2> QED BY <1>1, <2>1, <2>3, <2>4, <2>10
<1>3. LimitTypes'
  BY <1>1, <1>2 DEF LInv, LimitTypes
<1> QED BY <1>1, <1>2, <1>3 DEF LInv, IsCounted

(***************************************************************************)
(* Every step of the limits keeps the invariant.                           *)
(***************************************************************************)
LEMMA LimitsStep == LInv /\ [Limits!Next]_(Limits!vars) => LInv'
<1> SUFFICES ASSUME LInv, [Limits!Next]_(Limits!vars) PROVE LInv'
  OBVIOUS
<1>1. CASE UNCHANGED Limits!vars
  BY <1>1 DEF LInv, LimitTypes, IsCounted, Limits!vars
<1> QED BY <1>1, SubmissionsKeep, AcquireKeeps, ReleaseKeeps, LimitsTickKeeps DEF Limits!Next

-----------------------------------------------------------------------------
(***************************************************************************)
(* Who waits as long as it was told when its window was full is allowed:   *)
(* the oldest entry has left the window then, and none has come.           *)
(***************************************************************************)
LEMMA WaitIsEnough ==
  ASSUME NEW ages \in Ages, Younger(ages, windowMs) <= maxRequests,
         Limits!WindowExceeded(ages), ~ Limits!BurstExceeded(ages)
  PROVE  Limits!Allowed(Limits!After(ages, Limits!resetMs(ages)))
<1> USE LimitConstants, LimitOperators
<1>1. PICK n \in Nat : n = Len(ages) BY DEF Ages
<1>2. DOMAIN ages = 1 .. n /\ \A i \in 1 .. n : ages[i] \in 0 .. windowMs + 1
  BY <1>1 DEF Ages
<1>3. Younger(ages, windowMs) = maxRequests /\ Younger(ages, second) < burstLimit
  <2>1. Younger(ages, windowMs) \in Nat /\ Younger(ages, second) \in Nat BY YoungerCounts
  <2>2. Younger(ages, windowMs) >= maxRequests /\ ~ (Younger(ages, second) >= burstLimit)
    BY DEF Limits!WindowExceeded, Limits!BurstExceeded
  <2> QED BY <2>1, <2>2
<1>4. PICK w : w = Limits!Within(ages, windowMs) OBVIOUS
<1>5. /\ w \in Ages /\ w # <<>>
      /\ \A k \in DOMAIN w : \E i \in DOMAIN ages : w[k] = ages[i] /\ ages[i] < windowMs
  BY <1>3, <1>4, WithinCounts
<1>6. Head(w) = w[1] /\ 1 \in DOMAIN w BY <1>5 DEF Ages
<1>7. PICK i0 \in 1 .. n : Head(w) = ages[i0] /\ ages[i0] < windowMs
  BY <1>2, <1>5, <1>6
<1>8. PICK ms : ms = Limits!resetMs(ages) OBVIOUS
<1>9. ms = windowMs - ages[i0] /\ ms \in 1 .. windowMs
  BY <1>2, <1>4, <1>7, <1>8 DEF Limits!resetMs, Limits!InWindow
<1>10. PICK later : later = Limits!After(ages, ms) OBVIOUS
<1>11. later = [i \in 1 .. n |-> IF ages[i] + ms < windowMs + 1 THEN ages[i] + ms
                                 ELSE windowMs + 1]
  BY <1>2, <1>10 DEF Limits!After
<1>12. later \in [1 .. n -> 0 .. windowMs + 1]
  BY <1>2, <1>9, <1>11
<1>13. later \in Ages BY <1>12 DEF Ages
<1>14. \A b \in 0 .. windowMs : Younger(later, b) <= Younger(ages, b)
  <2> SUFFICES ASSUME NEW b \in 0 .. windowMs PROVE Younger(later, b) <= Younger(ages, b)
    OBVIOUS
  <2>1. \A i \in 1 .. n : later[i] < b => ages[i] < b
    BY <1>2, <1>9, <1>11
  <2>2. {i \in DOMAIN later : later[i] < b} \subseteq {i \in DOMAIN ages : ages[i] < b}
    BY <1>2, <1>12, <2>1
  <2> QED BY <2>2, YoungerIsFinite, FS_Subset DEF Younger
<1>15. Younger(later, windowMs) < Younger(ages, windowMs)
  <2>1. PICK S : S = {i \in DOMAIN ages : ages[i] < windowMs} OBVIOUS
  <2>2. i0 \in S /\ IsFiniteSet(S) BY <1>2, <1>7, <2>1, YoungerIsFinite
  <2>3. later[i0] = windowMs
    BY <1>2, <1>9, <1>11
  <2>4. \A i \in 1 .. n : later[i] < windowMs => ages[i] < windowMs /\ i # i0
    BY <1>2, <1>9, <1>11, <2>3
  <2>5. {i \in DOMAIN later : later[i] < windowMs} \subseteq S \ {i0}
    BY <1>2, <1>12, <2>1, <2>4
  <2>6. IsFiniteSet(S \ {i0}) /\ Cardinality(S \ {i0}) = Cardinality(S) - 1
    BY <2>2, FS_RemoveElement
  <2>7. Younger(later, windowMs) <= Cardinality(S \ {i0})
    BY <2>5, <2>6, FS_Subset DEF Younger
  <2>8. Cardinality(S) = Younger(ages, windowMs) BY <2>1 DEF Younger
  <2>9. Younger(later, windowMs) \in Nat /\ Younger(ages, windowMs) \in Nat
    BY <1>13, YoungerCounts
  <2> QED BY <2>6, <2>7, <2>8, <2>9
<1>16. Younger(later, second) <= Younger(ages, second) BY <1>14
<1>17. /\ Younger(later, second) \in Nat /\ Younger(ages, second) \in Nat
       /\ Younger(later, windowMs) \in Nat
  BY <1>13, YoungerCounts
<1> QED BY <1>3, <1>8, <1>10, <1>15, <1>16, <1>17
        DEF Limits!Allowed, Limits!BurstExceeded, Limits!WindowExceeded

(***************************************************************************)
(* No principal is allowed more than maxRequests in any window and         *)
(* burstLimit in any second; who waits as long as it was told is allowed;  *)
(* the slots in use are those of running jobs (checkLimit,                 *)
(* acquireConcurrency, releaseConcurrency).                                *)
(***************************************************************************)
THEOREM Allowances == Limits!Spec => []LimitsHold
<1>1. ASSUME LInv PROVE LimitsHold
  <2> USE LimitConstants
  <2>1. ASSUME NEW p \in Principals
        PROVE  /\ Younger(granted[p], windowMs) <= maxRequests
               /\ Younger(granted[p], second) <= burstLimit
    <3>1. /\ requestTimestamps[p] \in Ages /\ granted[p] \in Ages
          /\ IsCounted(requestTimestamps[p], granted[p])
      BY <1>1 DEF LInv, LimitTypes
    <3>2. windowMs \in 0 .. windowMs /\ second \in 0 .. windowMs OBVIOUS
    <3>3. /\ Younger(granted[p], windowMs) \in Nat /\ Younger(granted[p], second) \in Nat
          /\ Younger(requestTimestamps[p], windowMs) \in Nat
          /\ Younger(requestTimestamps[p], second) \in Nat
      BY <3>1, YoungerCounts
    <3> QED BY <3>1, <3>2, <3>3 DEF IsCounted
  <2>2. Limits!WindowsHold
    BY <2>1, LimitOperators DEF Limits!WindowsHold
  <2>3. Limits!RetryAfterIsEnough
    <3>1. \A p \in Principals : requestTimestamps[p] \in Ages
                                /\ Younger(requestTimestamps[p], windowMs) <= maxRequests
      BY <1>1 DEF LInv, LimitTypes, IsCounted
    <3> QED BY <3>1, WaitIsEnough DEF Limits!RetryAfterIsEnough
  <2>4. Limits!SlotsAreExact
    BY <1>1, LimitOperators DEF LInv, Limits!SlotsAreExact
  <2> QED BY <2>2, <2>3, <2>4 DEF LimitsHold, Limits!LimitsHold
<1> QED BY <1>1, LimitsInitial, LimitsStep, PTL DEF Limits!Spec

-----------------------------------------------------------------------------
(***************************************************************************)
(* Recoveries.  What the gateway has of each job: the queue's list, and    *)
(* the files, which are gone when the job is older than the retention, and *)
(* of which the source is the first to go.                                 *)
(***************************************************************************)
ArtifactKinds == {"meta", "sourceCode", "recoveredCode", "report", "logs"}

GatewayTypes ==
  /\ artifactStore \in {"local", "filesystem", "s3"}
  /\ owner \in [JobIds -> Principals \cup {None}]
  /\ kept \in [JobIds -> Recoveries!Job \cup {None}]
  /\ list \in Seq(JobIds) /\ Distinct(list)
  /\ files \in [JobIds -> SUBSET ArtifactKinds]
  /\ age \in [JobIds -> Nat]
  /\ counters \in [Recoveries!Counters -> Nat]
  /\ DOMAIN asked = Requests

ListedAreQueued ==
  \A j \in Entries(list) : kept[j] # None /\ kept[j].state = "QUEUED"

JobsAreOwned == \A j \in JobIds : kept[j] # None => owner[j] # None

FilesInOrder(j) ==
  /\ "sourceCode" \in files[j] => "meta" \in files[j]
  /\ kept[j] # None /\ age[j] <= retention =>
       /\ "meta" \in files[j]
       /\ kept[j].state = "COMPLETED" => "report" \in files[j]
       /\ kept[j].state = "COMPLETED" /\ kept[j].result = "completed" =>
            "recoveredCode" \in files[j]
  /\ kept[j] # None /\ (kept[j].attempts > 0 \/ kept[j].state # "QUEUED") =>
       "sourceCode" \notin files[j]

(***************************************************************************)
(* What each handler may take for granted when its await returns, and what *)
(* its answer says from then on.                                           *)
(***************************************************************************)
EndStates == {"SUCCEEDED", "FAILED", "TIMED_OUT", "CANCELLED"}

IsOrWas(j, state) ==
  /\ j \in JobIds /\ owner[j] # None
  /\ kept[j] = None \/ Recoveries!HasState(j, state)

AskedInOrder(call) ==
  /\ call.at = "await" =>
       /\ call.job \in JobIds /\ kept[call.job] # None
       /\ call.by \in Principals /\ owner[call.job] = call.by
       /\ call.op \in {"status", "cancel", "list"}
       /\ call.seen \in EndStates \cup {"QUEUED"}
       /\ call.seen \in EndStates => Recoveries!HasState(call.job, call.seen)
  /\ call.at = "answered" =>
       /\ call.op = "status" /\ call.says \in EndStates => IsOrWas(call.job, call.says)
       /\ call.op = "cancel" /\ call.says = "CANCELLED" =>
            \E state \in EndStates : IsOrWas(call.job, state)
       /\ call.op = "list" /\ call.says = "both" =>
            /\ IsOrWas(call.job, "SUCCEEDED")
            /\ call.by \in Principals /\ owner[call.job] = call.by

(***************************************************************************)
(* The counters, with the runs as a set.                                   *)
(***************************************************************************)
KeptJobs == {j \in JobIds : kept[j] # None}

JobsIn(state) == {j \in JobIds : kept[j] # None /\ kept[j].state = state}

Runs == UNION {{<<j, n>> : n \in 1 .. kept[j].attempts} : j \in KeptJobs}

CountsAreKept ==
  /\ IsFiniteSet(Runs)
  /\ counters["submitted"] = Cardinality(KeptJobs)
  /\ counters["completed"] = Cardinality(JobsIn("COMPLETED"))
  /\ counters["cancelled"] = Cardinality(JobsIn("CANCELLED"))
  /\ counters["admissions"] = counters["completed"]
  /\ counters["completed"] + counters["failed"] + counters["timed_out"] = Cardinality(Runs)

GInv ==
  /\ GatewayTypes
  /\ ListedAreQueued /\ JobsAreOwned
  /\ \A j \in JobIds : FilesInOrder(j)
  /\ \A r \in Requests : AskedInOrder(asked[r])
  /\ CountsAreKept

-----------------------------------------------------------------------------
(***************************************************************************)
(* What is assumed of the gateway, and its operators, with those of this   *)
(* module.                                                                 *)
(***************************************************************************)
LEMMA GatewayConstants ==
  /\ IsFiniteSet(JobIds) /\ None \notin Principals /\ None \notin Recoveries!Job
  /\ retention \in Nat /\ maxRetries \in Nat
BY RecoveriesAssumption DEF Recoveries!Assumptions, Recoveries!IsFiniteSet, IsFiniteSet

(***************************************************************************)
(* The operators of Gateway are those of the modules it extends.           *)
(***************************************************************************)
LEMMA GatewayOperators ==
  /\ \A S : Recoveries!Cardinality(S) = Cardinality(S)
  /\ \A s, x : Recoveries!Without(s, x) = Without(s, x)
  /\ \A state : Recoveries!JobsIn(state) = JobsIn(state)
  /\ Recoveries!RunsOf(KeptJobs) = Runs
<1>1. \A S : Recoveries!Cardinality(S) = Cardinality(S)
  BY DEF Recoveries!Cardinality, Cardinality
<1>2. \A S, rank : Recoveries!Ranked(S, rank) = Ranked(S, rank)
  BY DEF Recoveries!Ranked, Ranked, Recoveries!Cardinality, Cardinality,
     Recoveries!IsFiniteSet, IsFiniteSet
<1>3. \A s, at : Recoveries!Filtered(s, at) = Filtered(s, at)
  BY <1>1, <1>2 DEF Recoveries!Filtered, Filtered
<1> QED BY <1>1, <1>3 DEF Recoveries!Without, Without, Recoveries!JobsIn, JobsIn,
        Recoveries!RunsOf, Runs

(***************************************************************************)
(* What a job's state is called outside.                                   *)
(***************************************************************************)
LEMMA StateNames ==
  ASSUME NEW state
  PROVE  /\ state = "QUEUED" => Recoveries!mapInternalToProductState(state) = "QUEUED"
         /\ state = "COMPLETED" => Recoveries!mapInternalToProductState(state) = "SUCCEEDED"
         /\ state = "FAILED" => Recoveries!mapInternalToProductState(state) = "FAILED"
         /\ state = "CANCELLED" => Recoveries!mapInternalToProductState(state) = "CANCELLED"
BY DEF Recoveries!mapInternalToProductState

(***************************************************************************)
(* A job the queue has is queued or over, and is called so outside.        *)
(***************************************************************************)
LEMMA JobStates ==
  ASSUME GatewayTypes, NEW j \in JobIds, kept[j] # None
  PROVE  /\ kept[j] \in Recoveries!Job
         /\ kept[j].state \in {"QUEUED", "COMPLETED", "FAILED", "CANCELLED"}
         /\ kept[j].attempts \in Nat
         /\ Recoveries!mapInternalToProductState(kept[j].state) \in EndStates \cup {"QUEUED"}
         /\ Recoveries!mapInternalToProductState(kept[j].state) \in EndStates <=>
              kept[j].state # "QUEUED"
         /\ Recoveries!mapInternalToProductState(kept[j].state) = "SUCCEEDED" <=>
              kept[j].state = "COMPLETED"
<1>1. kept[j] \in Recoveries!Job BY DEF GatewayTypes
<1>2. /\ kept[j].state \in {"QUEUED", "COMPLETED", "FAILED", "CANCELLED"}
      /\ kept[j].attempts \in Nat
  BY <1>1 DEF Recoveries!Job
<1> QED BY <1>1, <1>2, StateNames DEF EndStates

(***************************************************************************)
(* A step that leaves the owners and what has ended as they are leaves     *)
(* what was answered true.                                                 *)
(***************************************************************************)
JobsGoOn ==
  \A j \in JobIds :
    /\ owner[j] # None => owner'[j] = owner[j]
    /\ owner[j] # None /\ kept[j] = None => kept'[j] = None
    /\ kept[j] # None /\ kept[j].state # "QUEUED" =>
         kept'[j] = None \/ kept'[j].state = kept[j].state

(***************************************************************************)
(* A call in order stays so, and an answer true, over such a step, if no   *)
(* job goes away while the call awaits.                                    *)
(***************************************************************************)
LEMMA AskedStays ==
  ASSUME GatewayTypes, JobsGoOn, NEW call, AskedInOrder(call),
         call.at = "await" => \A j \in JobIds : kept[j] # None => kept'[j] # None
  PROVE  AskedInOrder(call)'
<1> USE GatewayConstants
<1>1. ASSUME NEW j \in JobIds, NEW state \in EndStates, Recoveries!HasState(j, state)
      PROVE  kept'[j] = None \/ Recoveries!HasState(j, state)'
  <2>1. kept[j] # None /\ kept[j].state # "QUEUED"
    BY <1>1, JobStates DEF Recoveries!HasState
  <2> QED BY <1>1, <2>1 DEF JobsGoOn, Recoveries!HasState
<1>2. ASSUME NEW state \in EndStates, NEW j, IsOrWas(j, state)
      PROVE  IsOrWas(j, state)'
  BY <1>1, <1>2 DEF IsOrWas, JobsGoOn
<1>3. ASSUME call.at = "await"
      PROVE  /\ call.job \in JobIds /\ kept'[call.job] # None
             /\ call.by \in Principals /\ owner'[call.job] = call.by
             /\ call.op \in {"status", "cancel", "list"}
             /\ call.seen \in EndStates \cup {"QUEUED"}
             /\ call.seen \in EndStates => Recoveries!HasState(call.job, call.seen)'
  <2>1. call.job \in JobIds /\ kept[call.job] # None /\ owner[call.job] # None
    BY <1>3 DEF AskedInOrder
  <2>2. kept'[call.job] # None /\ owner'[call.job] = owner[call.job]
    BY <1>3, <2>1 DEF JobsGoOn
  <2> QED BY <1>1, <1>3, <2>1, <2>2 DEF AskedInOrder
<1>4. ASSUME call.at = "answered"
      PROVE  /\ call.op = "status" /\ call.says \in EndStates => IsOrWas(call.job, call.says)'
             /\ call.op = "cancel" /\ call.says = "CANCELLED" =>
                  \E state \in EndStates : IsOrWas(call.job, state)'
             /\ call.op = "list" /\ call.says = "both" =>
                  /\ IsOrWas(call.job, "SUCCEEDED")'
                  /\ call.by \in Principals /\ owner'[call.job] = call.by
  <2>1. call.op = "status" /\ call.says \in EndStates => IsOrWas(call.job, call.says)'
    BY <1>2, <1>4 DEF AskedInOrder
  <2>2. call.op = "cancel" /\ call.says = "CANCELLED" =>
          \E state \in EndStates : IsOrWas(call.job, state)'
    BY <1>2, <1>4 DEF AskedInOrder
  <2>3. ASSUME call.op = "list", call.says = "both"
        PROVE  /\ IsOrWas(call.job, "SUCCEEDED")'
               /\ call.by \in Principals /\ owner'[call.job] = call.by
    <3>1. IsOrWas(call.job, "SUCCEEDED") /\ call.by \in Principals /\ owner[call.job] = call.by
      BY <1>4, <2>3 DEF AskedInOrder
    <3>2. "SUCCEEDED" \in EndStates BY DEF EndStates
    <3>3. owner'[call.job] = owner[call.job] BY <3>1 DEF JobsGoOn, IsOrWas
    <3> QED BY <1>2, <3>1, <3>2, <3>3
  <2> QED BY <2>1, <2>2, <2>3
<1> QED BY <1>3, <1>4 DEF AskedInOrder

(***************************************************************************)
(* No job changes.                                                         *)
(***************************************************************************)
LEMMA JobsStay ==
  ASSUME GInv, UNCHANGED <<owner, kept, list, counters>>
  PROVE  /\ ListedAreQueued' /\ JobsAreOwned' /\ CountsAreKept' /\ JobsGoOn
         /\ \A call : AskedInOrder(call) => AskedInOrder(call)'
         /\ kept' \in [JobIds -> Recoveries!Job \cup {None}]
         /\ owner' \in [JobIds -> Principals \cup {None}]
         /\ list' \in Seq(JobIds) /\ Distinct(list') /\ counters' \in [Recoveries!Counters -> Nat]
<1>1. ListedAreQueued' /\ JobsAreOwned' BY DEF GInv, ListedAreQueued, JobsAreOwned
<1>2. CountsAreKept' BY DEF GInv, CountsAreKept, KeptJobs, JobsIn, Runs
<1>3. JobsGoOn BY DEF JobsGoOn
<1>4. \A call : AskedInOrder(call) => AskedInOrder(call)'
  BY DEF AskedInOrder, IsOrWas, Recoveries!HasState
<1> QED BY <1>1, <1>2, <1>3, <1>4 DEF GInv, GatewayTypes

(***************************************************************************)
(* What has expired is removed, of some jobs.                              *)
(***************************************************************************)
LEMMA FilesExpire ==
  ASSUME GInv, UNCHANGED <<kept, age>>,
         files' \in {files, Recoveries!cleanupExpired} \cup
           {[files EXCEPT ![j] = Recoveries!cleanupExpired[j]] : j \in JobIds}
  PROVE  files' \in [JobIds -> SUBSET ArtifactKinds] /\ \A j \in JobIds : FilesInOrder(j)'
<1> USE GatewayConstants
<1>1. Recoveries!cleanupExpired =
        [j \in JobIds |-> IF "meta" \in files[j] /\ age[j] > retention THEN {} ELSE files[j]]
  BY DEF Recoveries!cleanupExpired, Recoveries!Expired
<1>2. Recoveries!cleanupExpired \in [JobIds -> SUBSET ArtifactKinds]
  BY <1>1 DEF GInv, GatewayTypes
<1>3. /\ files' \in [JobIds -> SUBSET ArtifactKinds]
      /\ \A j \in JobIds : files'[j] = files[j] \/ files'[j] = Recoveries!cleanupExpired[j]
  BY <1>2 DEF GInv, GatewayTypes
<1>4. ASSUME NEW j \in JobIds PROVE FilesInOrder(j)'
  <2>1. FilesInOrder(j) /\ age[j] \in Nat BY DEF GInv, GatewayTypes
  <2>2. files'[j] = files[j] \/ (files'[j] = {} /\ age[j] > retention)
    BY <1>1, <1>3
  <2> QED BY <2>1, <2>2 DEF FilesInOrder
<1> QED BY <1>3, <1>4

(***************************************************************************)
(* A handler takes a step; nothing else changes but files that expire.     *)
(***************************************************************************)
LEMMA HandlerStep ==
  ASSUME GInv, NEW r \in Requests, NEW x, AskedInOrder(x),
         asked' = [asked EXCEPT ![r] = x],
         UNCHANGED <<artifactStore, owner, kept, list, age, counters>>,
         files' \in {files, Recoveries!cleanupExpired} \cup
           {[files EXCEPT ![j] = Recoveries!cleanupExpired[j]] : j \in JobIds}
  PROVE  GInv'
<1>1. files' \in [JobIds -> SUBSET ArtifactKinds] /\ \A j \in JobIds : FilesInOrder(j)'
  BY FilesExpire
<1>2. /\ ListedAreQueued' /\ JobsAreOwned' /\ CountsAreKept'
      /\ \A call : AskedInOrder(call) => AskedInOrder(call)'
      /\ kept' \in [JobIds -> Recoveries!Job \cup {None}]
      /\ owner' \in [JobIds -> Principals \cup {None}]
      /\ list' \in Seq(JobIds) /\ Distinct(list') /\ counters' \in [Recoveries!Counters -> Nat]
  BY JobsStay
<1>3. DOMAIN asked' = Requests /\ asked'[r] = x /\ \A q \in Requests \ {r} : asked'[q] = asked[q]
  BY DEF GInv, GatewayTypes
<1>4. ASSUME NEW q \in Requests PROVE AskedInOrder(asked[q])'
  <2>1. PICK call : call = asked'[q] OBVIOUS
  <2>2. AskedInOrder(call) BY <1>3, <2>1 DEF GInv
  <2>3. AskedInOrder(call)' BY <1>2, <2>2
  <2> QED BY <2>1, <2>3
<1>5. GatewayTypes' BY <1>1, <1>2, <1>3 DEF GInv, GatewayTypes
<1> QED BY <1>1, <1>2, <1>4, <1>5 DEF GInv

(***************************************************************************)
(* A handler looks up the job, and waits with a copy or is refused.        *)
(***************************************************************************)
LEMMA LookUpKeeps ==
  ASSUME GInv, NEW r \in Requests, NEW p \in Principals, NEW j \in JobIds, NEW op,
         Recoveries!LookUp(r, op, p, j)
  PROVE  GInv'
<1> USE GatewayConstants
<1>1. PICK x : x = IF Recoveries!Found(p, j) = "OK"
                   THEN [Recoveries!Idle EXCEPT !.at = "await", !.op = op, !.by = p, !.job = j,
                           !.seen = Recoveries!mapInternalToProductState(kept[j].state)]
                   ELSE Recoveries!Answered(op, p, j, Recoveries!Found(p, j))
  OBVIOUS
<1>2. /\ op \in {"status", "cancel", "list"} /\ asked' = [asked EXCEPT ![r] = x]
      /\ UNCHANGED <<artifactStore, owner, kept, list, files, age, counters>>
  BY <1>1 DEF Recoveries!LookUp
<1>3. CASE Recoveries!Found(p, j) = "OK"
  <2>1. kept[j] # None /\ owner[j] = p BY <1>3 DEF Recoveries!Found
  <2>2. /\ x.at = "await" /\ x.op = op /\ x.by = p /\ x.job = j
        /\ x.seen = Recoveries!mapInternalToProductState(kept[j].state)
    BY <1>1, <1>3 DEF Recoveries!Idle
  <2>3. x.seen \in EndStates \cup {"QUEUED"} BY <2>1, <2>2, JobStates DEF GInv
  <2>4. AskedInOrder(x)
    BY <1>2, <2>1, <2>2, <2>3 DEF AskedInOrder, Recoveries!HasState
  <2> QED BY <1>2, <2>4, HandlerStep
<1>4. CASE Recoveries!Found(p, j) # "OK"
  <2>1. x.at = "answered" /\ x.says = Recoveries!Found(p, j)
    BY <1>1, <1>4 DEF Recoveries!Answered, Recoveries!Idle
  <2>2. x.says \in {"JOB_NOT_FOUND", "FORBIDDEN"}
    BY <1>4, <2>1 DEF Recoveries!Found
  <2>3. AskedInOrder(x) BY <2>1, <2>2 DEF AskedInOrder, EndStates
  <2> QED BY <1>2, <2>3, HandlerStep
<1> QED BY <1>3, <1>4

(***************************************************************************)
(* It answers the copy: the status, or the list of the artifacts.          *)
(***************************************************************************)
LEMMA GetRecoveryKeeps ==
  ASSUME GInv, NEW r \in Requests, Recoveries!GetRecovery(r) \/ Recoveries!ListArtifacts(r)
  PROVE  GInv'
<1> USE GatewayConstants
<1>1. PICK call : call = asked[r] OBVIOUS
<1>2. AskedInOrder(call) BY <1>1 DEF GInv
<1>3. PICK says : /\ asked' = [asked EXCEPT ![r] = Recoveries!Answered(@.op, @.by, @.job, says)]
                  /\ call.at = "await"
                  /\ \/ call.op = "status" /\ says = call.seen
                     \/ /\ call.op = "list"
                        /\ says = IF call.seen = "SUCCEEDED" THEN "both" ELSE "none"
  BY <1>1 DEF Recoveries!GetRecovery, Recoveries!ListArtifacts, Recoveries!Answer
<1>4. UNCHANGED <<artifactStore, owner, kept, list, files, age, counters>>
  BY DEF Recoveries!GetRecovery, Recoveries!ListArtifacts
<1>5. PICK x : x = Recoveries!Answered(call.op, call.by, call.job, says) OBVIOUS
<1>6. asked' = [asked EXCEPT ![r] = x] BY <1>1, <1>3, <1>5 DEF GInv, GatewayTypes
<1>7. x.at = "answered" /\ x.op = call.op /\ x.by = call.by /\ x.job = call.job /\ x.says = says
  BY <1>5 DEF Recoveries!Answered, Recoveries!Idle
<1>8. /\ call.job \in JobIds /\ owner[call.job] = call.by /\ call.by \in Principals
      /\ call.seen \in EndStates => Recoveries!HasState(call.job, call.seen)
      /\ owner[call.job] # None
  BY <1>2, <1>3 DEF AskedInOrder
<1>9. AskedInOrder(x)
  BY <1>3, <1>7, <1>8 DEF AskedInOrder, IsOrWas, EndStates
<1> QED BY <1>4, <1>6, <1>9, HandlerStep

(***************************************************************************)
(* A download may remove what has expired, and asks the queue nothing.     *)
(***************************************************************************)
LEMMA DownloadKeeps ==
  ASSUME GInv, NEW r \in Requests, NEW p \in Principals, NEW j \in JobIds,
         NEW kind \in {"recoveredCode", "report", "logs"},
         Recoveries!DownloadArtifact(r, p, j, kind)
  PROVE  GInv'
<1>1. PICK x : x = Recoveries!Answered(kind, p, j, Recoveries!ArtifactFor(p, j, kind)) OBVIOUS
<1>2. /\ asked' = [asked EXCEPT ![r] = x] /\ files' = Recoveries!FilesWhenAsked(j)
      /\ UNCHANGED <<artifactStore, owner, kept, list, age, counters>>
  BY <1>1 DEF Recoveries!DownloadArtifact
<1>3. x.at = "answered" /\ x.op = kind
  BY <1>1 DEF Recoveries!Answered, Recoveries!Idle
<1>4. AskedInOrder(x) BY <1>3 DEF AskedInOrder
<1>5. files' \in {files, Recoveries!cleanupExpired} \cup
        {[files EXCEPT ![i] = Recoveries!cleanupExpired[i]] : i \in JobIds}
  BY <1>2 DEF Recoveries!FilesWhenAsked, GInv, GatewayTypes
<1> QED BY <1>2, <1>4, <1>5, HandlerStep

-----------------------------------------------------------------------------
(***************************************************************************)
(* What has expired is removed; time goes on.                              *)
(***************************************************************************)
LEMMA ExpiryKeeps ==
  ASSUME GInv, Recoveries!CleanupExpired \/ Recoveries!Tick \/ UNCHANGED Recoveries!vars
  PROVE  GInv'
<1> USE GatewayConstants
<1>1. UNCHANGED <<artifactStore, owner, kept, list, counters, asked>>
  BY DEF Recoveries!CleanupExpired, Recoveries!Tick, Recoveries!vars
<1>2. /\ ListedAreQueued' /\ JobsAreOwned' /\ CountsAreKept'
      /\ \A call : AskedInOrder(call) => AskedInOrder(call)'
      /\ kept' \in [JobIds -> Recoveries!Job \cup {None}]
      /\ owner' \in [JobIds -> Principals \cup {None}]
      /\ list' \in Seq(JobIds) /\ Distinct(list') /\ counters' \in [Recoveries!Counters -> Nat]
  BY <1>1, JobsStay
<1>3. ASSUME NEW q \in Requests PROVE AskedInOrder(asked[q])'
  <2>1. PICK call : call = asked[q] OBVIOUS
  <2>2. AskedInOrder(call)' BY <1>2, <2>1 DEF GInv
  <2> QED BY <1>1, <2>1, <2>2
<1>4. CASE Recoveries!Tick
  <2>1. age' = [j \in JobIds |-> IF owner[j] # None /\ age[j] <= retention
                                 THEN age[j] + 1 ELSE age[j]] /\ files' = files
    BY <1>4 DEF Recoveries!Tick
  <2>2. age' \in [JobIds -> Nat] /\ \A j \in JobIds : age[j] <= age'[j] /\ age[j] \in Nat
    BY <2>1 DEF GInv, GatewayTypes
  <2>3. ASSUME NEW j \in JobIds PROVE FilesInOrder(j)'
    <3>1. age'[j] <= retention => age[j] <= retention BY <2>2
    <3>2. FilesInOrder(j) BY DEF GInv
    <3> QED BY <1>1, <2>1, <3>1, <3>2 DEF FilesInOrder
  <2>4. GatewayTypes' BY <1>1, <1>2, <2>1, <2>2 DEF GInv, GatewayTypes
  <2> QED BY <1>2, <1>3, <2>3, <2>4 DEF GInv
<1>5. CASE Recoveries!CleanupExpired \/ UNCHANGED Recoveries!vars
  <2>1. files' \in {files, Recoveries!cleanupExpired} /\ age' = age
    BY <1>5 DEF Recoveries!CleanupExpired, Recoveries!vars
  <2>2. files' \in [JobIds -> SUBSET ArtifactKinds] /\ \A j \in JobIds : FilesInOrder(j)'
    BY <1>1, <2>1, FilesExpire
  <2>3. GatewayTypes' BY <1>1, <1>2, <2>1, <2>2 DEF GInv, GatewayTypes
  <2> QED BY <1>2, <1>3, <2>2, <2>3 DEF GInv
<1> QED BY <1>4, <1>5

(***************************************************************************)
(* The counters, when job j is new, was cancelled or has had a run.        *)
(***************************************************************************)
LEMMA KeptJobsAreFinite ==
  /\ IsFiniteSet(KeptJobs) /\ \A state : IsFiniteSet(JobsIn(state))
BY GatewayConstants, FS_Subset DEF KeptJobs, JobsIn

(***************************************************************************)
(* A run is a job with the number of one of its attempts.                  *)
(***************************************************************************)
LEMMA RunIn ==
  ASSUME NEW x
  PROVE  x \in Runs <=> \E j \in JobIds : /\ kept[j] # None
                                          /\ \E n \in 1 .. kept[j].attempts : x = <<j, n>>
BY DEF Runs, KeptJobs
-----------------------------------------------------------------------------
(***************************************************************************)
(* The gateway at its start, after a restart of the process, and with the  *)
(* new jobs of the steps between.                                          *)
(***************************************************************************)
LEMMA NothingKept ==
  ASSUME kept = [j \in JobIds |-> None], counters = [c \in Recoveries!Counters |-> 0]
  PROVE  CountsAreKept
<1>1. KeptJobs = {} /\ \A state : JobsIn(state) = {} BY DEF KeptJobs, JobsIn
<1>2. Runs = {} BY <1>1 DEF Runs
<1>3. \A c \in {"submitted", "completed", "failed", "timed_out", "cancelled", "admissions"} :
        counters[c] = 0
  BY DEF Recoveries!Counters
<1> QED BY <1>1, <1>2, <1>3, FS_EmptySet DEF CountsAreKept

(***************************************************************************)
(* The invariant holds at the start.                                       *)
(***************************************************************************)
LEMMA GatewayInitial ==
  ASSUME Recoveries!Init
  PROVE  GInv
<1> USE GatewayConstants DEF Recoveries!Init
<1>1. GatewayTypes
  BY DEF GatewayTypes, Recoveries!Stores, Distinct
<1>2. ListedAreQueued /\ JobsAreOwned BY DEF ListedAreQueued, JobsAreOwned, Entries
<1>3. \A j \in JobIds : FilesInOrder(j) BY DEF FilesInOrder
<1>4. \A r \in Requests : asked[r].at = "idle" BY DEF Recoveries!Idle
<1>5. \A r \in Requests : AskedInOrder(asked[r])
  <2> TAKE r \in Requests
  <2>1. PICK call : call = asked[r] OBVIOUS
  <2>2. call.at = "idle" BY <1>4, <2>1
  <2>3. AskedInOrder(call) BY <2>2 DEF AskedInOrder
  <2> QED BY <2>1, <2>3
<1>6. CountsAreKept BY NothingKept
<1> QED BY <1>1, <1>2, <1>3, <1>5, <1>6 DEF GInv

(***************************************************************************)
(* A restart: no job is there to be spoken of, and a store on disk keeps   *)
(* what it had.                                                            *)
(***************************************************************************)
LEMMA RestartKeeps ==
  ASSUME GInv, Recoveries!Restart
  PROVE  GInv'
<1> USE GatewayConstants
<1>1. /\ kept' = [j \in JobIds |-> None] /\ list' = <<>>
      /\ files' = IF artifactStore = "filesystem" THEN files ELSE [j \in JobIds |-> {}]
      /\ counters' = [c \in Recoveries!Counters |-> 0]
      /\ asked' = [r \in Requests |->
                     IF asked[r].at = "await" THEN Recoveries!Idle ELSE asked[r]]
      /\ UNCHANGED <<artifactStore, owner, age>>
  BY DEF Recoveries!Restart
<1>2. GatewayTypes'
  BY <1>1 DEF GInv, GatewayTypes, Distinct
<1>3. ListedAreQueued' /\ JobsAreOwned'
  BY <1>1 DEF ListedAreQueued, JobsAreOwned, Entries
<1>4. ASSUME NEW j \in JobIds PROVE FilesInOrder(j)'
  <2>1. kept'[j] = None /\ files'[j] \in {files[j], {}} BY <1>1
  <2>2. FilesInOrder(j) BY DEF GInv
  <2> QED BY <2>1, <2>2 DEF FilesInOrder
<1>5. JobsGoOn BY <1>1 DEF JobsGoOn
<1>6. ASSUME NEW q \in Requests PROVE AskedInOrder(asked[q])'
  <2>1. PICK call : call = asked[q] OBVIOUS
  <2>2. AskedInOrder(call) BY <2>1 DEF GInv
  <2>3. CASE call.at = "await"
    <3>1. PICK idle : idle = Recoveries!Idle OBVIOUS
    <3>2. asked'[q] = idle BY <1>1, <2>1, <2>3, <3>1
    <3>3. idle.at = "idle" BY <3>1 DEF Recoveries!Idle
    <3>4. AskedInOrder(idle)' BY <3>3 DEF AskedInOrder
    <3> QED BY <3>2, <3>4
  <2>4. CASE call.at # "await"
    <3>1. AskedInOrder(call)' BY <1>5, <2>2, <2>4, AskedStays DEF GInv
    <3> QED BY <1>1, <2>1, <2>4, <3>1
  <2> QED BY <2>3, <2>4
<1>7. CountsAreKept'
  <2>1. /\ KeptJobs' = {} /\ JobsIn("COMPLETED")' = {} /\ JobsIn("CANCELLED")' = {}
    BY <1>1 DEF KeptJobs, JobsIn
  <2>2. Runs' = {} BY <2>1 DEF Runs
  <2>3. \A c \in {"submitted", "completed", "failed", "timed_out", "cancelled", "admissions"} :
          counters'[c] = 0
    BY <1>1 DEF Recoveries!Counters
  <2> QED BY <2>1, <2>2, <2>3, FS_EmptySet DEF CountsAreKept
<1> QED BY <1>2, <1>3, <1>4, <1>6, <1>7 DEF GInv

(***************************************************************************)
(* A new job: its id was of no job before, in the list or otherwise.       *)
(***************************************************************************)
LEMMA SubmitJobKeeps ==
  ASSUME GInv, NEW j \in JobIds, NEW p \in Principals, Recoveries!SubmitJob(j, p)
  PROVE  GInv'
<1> USE GatewayConstants
<1>1. PICK new : new = [state |-> "QUEUED", attempts |-> 0, result |-> None] OBVIOUS
<1>2. /\ owner[j] = None /\ owner' = [owner EXCEPT ![j] = p]
      /\ kept' = [kept EXCEPT ![j] = new] /\ list' = Append(list, j)
      /\ files' = [files EXCEPT ![j] = Recoveries!InitialFiles]
      /\ counters' = Recoveries!Count({"submitted"})
      /\ UNCHANGED <<artifactStore, age, asked>>
  BY <1>1 DEF Recoveries!SubmitJob
<1>3. /\ new \in Recoveries!Job /\ new # None /\ new.state = "QUEUED" /\ new.attempts = 0
  BY <1>1 DEF Recoveries!Job
<1>4. kept[j] = None /\ j \notin Entries(list)
  BY <1>2 DEF GInv, JobsAreOwned, ListedAreQueued
<1>5. /\ list' \in Seq(JobIds) /\ Entries(list') = Entries(list) \cup {j} /\ Distinct(list')
  BY <1>2, <1>4, AppendEntries DEF GInv, GatewayTypes
<1>6. /\ kept'[j] = new /\ \A i \in JobIds \ {j} : kept'[i] = kept[i]
      /\ owner'[j] = p /\ \A i \in JobIds \ {j} : owner'[i] = owner[i]
      /\ files'[j] = Recoveries!InitialFiles /\ \A i \in JobIds \ {j} : files'[i] = files[i]
  BY <1>2 DEF GInv, GatewayTypes
<1>7. counters' = [c \in Recoveries!Counters |->
                     IF c \in {"submitted"} THEN counters[c] + 1 ELSE counters[c]]
  BY <1>2 DEF Recoveries!Count
<1>8. GatewayTypes'
  <2>1. Recoveries!InitialFiles \in SUBSET ArtifactKinds
    BY DEF Recoveries!InitialFiles, ArtifactKinds
  <2> QED BY <1>2, <1>3, <1>5, <1>7, <2>1 DEF GInv, GatewayTypes
<1>9. ListedAreQueued'
  <2>1. \A i \in Entries(list) : i \in JobIds \ {j}
    BY <1>4 DEF GInv, GatewayTypes, Entries
  <2>2. \A i \in Entries(list') : kept'[i] # None /\ kept'[i].state = "QUEUED"
    BY <1>3, <1>5, <1>6, <2>1 DEF GInv, ListedAreQueued
  <2>3. Entries(list)' = Entries(list') BY DEF Entries
  <2> QED BY <2>2, <2>3 DEF ListedAreQueued
<1>10. JobsAreOwned' BY <1>6 DEF GInv, JobsAreOwned
<1>11. ASSUME NEW i \in JobIds PROVE FilesInOrder(i)'
  <2>1. FilesInOrder(i) BY DEF GInv
  <2>2. "meta" \in Recoveries!InitialFiles BY DEF Recoveries!InitialFiles
  <2>3. CASE i = j BY <1>3, <1>6, <2>2, <2>3 DEF FilesInOrder
  <2>4. CASE i # j BY <1>2, <1>6, <2>1, <2>4 DEF FilesInOrder
  <2> QED BY <2>3, <2>4
<1>12. JobsGoOn BY <1>2, <1>4, <1>6 DEF JobsGoOn
<1>13. ASSUME NEW q \in Requests PROVE AskedInOrder(asked[q])'
  <2>1. PICK call : call = asked[q] OBVIOUS
  <2>2. \A i \in JobIds : kept[i] # None => kept'[i] # None BY <1>3, <1>6
  <2>3. AskedInOrder(call)' BY <1>12, <2>1, <2>2, AskedStays DEF GInv
  <2> QED BY <1>2, <2>1, <2>3
<1>14. CountsAreKept'
  <2>1. KeptJobs' = KeptJobs \cup {j} /\ j \notin KeptJobs
    BY <1>3, <1>4, <1>6 DEF KeptJobs
  <2>2. JobsIn("COMPLETED")' = JobsIn("COMPLETED") /\ JobsIn("CANCELLED")' = JobsIn("CANCELLED")
    BY <1>3, <1>4, <1>6 DEF JobsIn
  <2>3. Runs' = Runs
    <3>1. \A x : x \in Runs' <=> \E i \in JobIds : /\ kept'[i] # None
                                                   /\ \E n \in 1 .. kept'[i].attempts : x = <<i, n>>
      BY DEF Runs, KeptJobs
    <3>2. \A n : n \notin 1 .. new.attempts BY <1>3
    <3>3. ASSUME NEW x PROVE x \in Runs' <=> x \in Runs
      BY <1>4, <1>6, <3>1, <3>2, RunIn
    <3> QED BY <3>3
  <2>4. Cardinality(KeptJobs') = Cardinality(KeptJobs) + 1
    BY <2>1, KeptJobsAreFinite, FS_AddElement
  <2>5. /\ counters'["submitted"] = counters["submitted"] + 1
        /\ \A c \in {"completed", "failed", "timed_out", "cancelled", "admissions"} :
             counters'[c] = counters[c]
    BY <1>7 DEF Recoveries!Counters
  <2> QED BY <2>2, <2>3, <2>4, <2>5 DEF GInv, CountsAreKept
<1> QED BY <1>8, <1>9, <1>10, <1>11, <1>13, <1>14 DEF GInv

(***************************************************************************)
(* A run: the first job of the list ends or stays first, one run is        *)
(* counted, and a store that refuses the files has none to lose.           *)
(***************************************************************************)
LEMMA RunIsCounted ==
  ASSUME GInv, NEW j \in JobIds, kept[j] # None, NEW new \in Recoveries!Job,
         new.attempts = kept[j].attempts + 1, kept' = [kept EXCEPT ![j] = new]
  PROVE  /\ KeptJobs' = KeptJobs
         /\ IsFiniteSet(Runs') /\ Cardinality(Runs') = Cardinality(Runs) + 1
<1> USE GatewayConstants
<1>1. kept'[j] = new /\ new # None /\ \A i \in JobIds \ {j} : kept'[i] = kept[i]
  BY DEF GInv, GatewayTypes
<1>2. kept[j].attempts \in Nat BY JobStates DEF GInv
<1>3. \A x : x \in Runs' <=> \E i \in JobIds : /\ kept'[i] # None
                                               /\ \E n \in 1 .. kept'[i].attempts : x = <<i, n>>
  BY DEF Runs, KeptJobs
<1>4. \A n : n \in 1 .. new.attempts <=> n \in 1 .. kept[j].attempts \/ n = kept[j].attempts + 1
  BY <1>2
<1>5. ASSUME NEW x PROVE x \in Runs' <=> x \in Runs \cup {<<j, kept[j].attempts + 1>>}
  BY <1>1, <1>3, <1>4, RunIn
<1>6. <<j, kept[j].attempts + 1>> \notin Runs
  <2>1. kept[j].attempts + 1 \notin 1 .. kept[j].attempts BY <1>2
  <2> QED BY <2>1, RunIn
<1>7. Runs' = Runs \cup {<<j, kept[j].attempts + 1>>} BY <1>5
<1>8. KeptJobs' = KeptJobs BY <1>1 DEF KeptJobs
<1> QED BY <1>6, <1>7, <1>8, FS_AddElement DEF GInv, CountsAreKept

(***************************************************************************)
(* The run itself, however it ends.                                        *)
(***************************************************************************)
LEMMA ProcessKeeps ==
  ASSUME GInv, NEW outcome \in Outcomes, Recoveries!ProcessNextJob(outcome)
  PROVE  GInv'
<1> USE GatewayConstants
<1>1. PICK j : j = Head(list) OBVIOUS
<1>2. PICK new : new = [state |-> Recoveries!StateAfter(j, outcome),
                        attempts |-> kept[j].attempts + 1,
                        result |-> IF Recoveries!Succeeds(j, outcome) THEN outcome ELSE None]
  OBVIOUS
<1>3. /\ list # <<>> /\ kept' = [kept EXCEPT ![j] = new]
      /\ list' = IF Recoveries!StateAfter(j, outcome) = "QUEUED" THEN list ELSE Tail(list)
      /\ files' = [files EXCEPT ![j] = Recoveries!Saved(j, outcome)]
      /\ counters' = Recoveries!Count(Recoveries!Counted(j, outcome))
      /\ UNCHANGED <<artifactStore, owner, age, asked>>
  <2>1. kept' = [kept EXCEPT ![j] = [state |-> Recoveries!StateAfter(j, outcome),
                                     attempts |-> @.attempts + 1,
                                     result |-> IF Recoveries!Succeeds(j, outcome)
                                                THEN outcome ELSE None]]
    BY <1>1 DEF Recoveries!ProcessNextJob
  <2>2. kept' = [kept EXCEPT ![j] = new] BY <1>2, <2>1 DEF GInv, GatewayTypes
  <2> QED BY <1>1, <2>2 DEF Recoveries!ProcessNextJob
<1>4. /\ j \in JobIds /\ j \in Entries(list) /\ Tail(list) \in Seq(JobIds)
      /\ Distinct(Tail(list)) /\ Entries(Tail(list)) = Entries(list) \ {j}
  BY <1>1, <1>3, HeadTailEntries DEF GInv, GatewayTypes
<1>5. kept[j] # None /\ kept[j].state = "QUEUED" /\ kept[j].attempts \in Nat
  BY <1>4, JobStates DEF GInv, ListedAreQueued
<1>6. /\ new.state \in {"QUEUED", "COMPLETED", "FAILED"} /\ new \in Recoveries!Job /\ new # None
      /\ new.attempts = kept[j].attempts + 1
      /\ new.state = "COMPLETED" <=> Recoveries!Succeeds(j, outcome)
      /\ Recoveries!Succeeds(j, outcome) => new.result = outcome
  <2>1. /\ new.state = Recoveries!StateAfter(j, outcome)
        /\ new.attempts = kept[j].attempts + 1
        /\ new.result = IF Recoveries!Succeeds(j, outcome) THEN outcome ELSE None
    BY <1>2
  <2>2. /\ new.state \in {"QUEUED", "COMPLETED", "FAILED"}
        /\ new.state = "COMPLETED" <=> Recoveries!Succeeds(j, outcome)
    BY <2>1 DEF Recoveries!StateAfter
  <2>3. new \in Recoveries!Job BY <1>2, <1>5, <2>2, <2>1 DEF Recoveries!Job
  <2> QED BY <2>1, <2>2, <2>3
<1>7. /\ kept'[j] = new /\ \A i \in JobIds \ {j} : kept'[i] = kept[i]
      /\ files'[j] = Recoveries!Saved(j, outcome) /\ \A i \in JobIds \ {j} : files'[i] = files[i]
  BY <1>3, <1>4 DEF GInv, GatewayTypes
<1>8. counters' = [c \in Recoveries!Counters |->
                     IF c \in Recoveries!Counted(j, outcome) THEN counters[c] + 1 ELSE counters[c]]
  BY <1>3 DEF Recoveries!Count
<1>9. Recoveries!Saved(j, outcome) =
        IF artifactStore = "filesystem" \/ "meta" \in files[j]
        THEN (files[j] \ {"sourceCode"}) \cup Recoveries!Produces(outcome)
        ELSE files[j]
  BY DEF Recoveries!Saved, Recoveries!CanSave, Recoveries!Purged
<1>10. Recoveries!Produces(outcome) \in SUBSET {"recoveredCode", "report"}
  BY DEF Recoveries!Produces
<1>11. GatewayTypes'
  <2>1. Recoveries!Saved(j, outcome) \in SUBSET ArtifactKinds
    BY <1>4, <1>9, <1>10 DEF ArtifactKinds, GInv, GatewayTypes
  <2>2. files' \in [JobIds -> SUBSET ArtifactKinds]
    BY <1>3, <2>1 DEF GInv, GatewayTypes
  <2>3. kept' \in [JobIds -> Recoveries!Job \cup {None}]
    BY <1>3, <1>6 DEF GInv, GatewayTypes
  <2>4. counters' \in [Recoveries!Counters -> Nat]
    BY <1>8 DEF GInv, GatewayTypes
  <2> QED BY <1>3, <1>4, <2>2, <2>3, <2>4 DEF GInv, GatewayTypes
<1>12. ListedAreQueued'
  <2>1. /\ \A i \in Entries(list') : i \in Entries(list) /\ i \in JobIds
        /\ j \in Entries(list') => new.state = "QUEUED"
    <3>1. \A i \in Entries(list) : i \in JobIds BY DEF GInv, GatewayTypes, Entries
    <3>2. new.state = Recoveries!StateAfter(j, outcome) BY <1>2
    <3> QED BY <1>3, <1>4, <3>1, <3>2
  <2>2. \A i \in Entries(list') : kept'[i] # None /\ kept'[i].state = "QUEUED"
    BY <1>6, <1>7, <2>1 DEF GInv, ListedAreQueued
  <2>3. Entries(list)' = Entries(list') BY DEF Entries
  <2> QED BY <2>2, <2>3 DEF ListedAreQueued
<1>13. JobsAreOwned' BY <1>3, <1>5, <1>7 DEF GInv, JobsAreOwned
<1>14. ASSUME NEW i \in JobIds PROVE FilesInOrder(i)'
  <2>1. FilesInOrder(i) BY DEF GInv
  <2>2. CASE i # j BY <1>3, <1>7, <2>1, <2>2 DEF FilesInOrder
  <2>3. CASE i = j
    <3>1. "sourceCode" \notin files'[j]
      BY <1>7, <1>9, <1>10, <2>1, <2>3 DEF FilesInOrder
    <3>2. age[j] <= retention => "meta" \in files[j] BY <1>5, <2>1, <2>3 DEF FilesInOrder
    <3>3. "meta" \in files[j] => "meta" \in files'[j] BY <1>7, <1>9
    <3>4. Recoveries!Succeeds(j, outcome) =>
            "report" \in files'[j] /\ (outcome = "completed" => "recoveredCode" \in files'[j])
      BY <1>7 DEF Recoveries!Succeeds, Recoveries!Saved, Recoveries!Produces
    <3> QED BY <1>3, <1>6, <1>7, <2>3, <3>1, <3>2, <3>3, <3>4 DEF FilesInOrder
  <2> QED BY <2>2, <2>3
<1>15. JobsGoOn BY <1>3, <1>5, <1>7 DEF JobsGoOn
<1>16. ASSUME NEW q \in Requests PROVE AskedInOrder(asked[q])'
  <2>1. PICK call : call = asked[q] OBVIOUS
  <2>2. \A i \in JobIds : kept[i] # None => kept'[i] # None BY <1>6, <1>7
  <2>3. AskedInOrder(call)' BY <1>15, <2>1, <2>2, AskedStays DEF GInv
  <2> QED BY <1>3, <2>1, <2>3
<1>17. CountsAreKept'
  <2>1. /\ KeptJobs' = KeptJobs
        /\ IsFiniteSet(Runs') /\ Cardinality(Runs') = Cardinality(Runs) + 1
    BY <1>3, <1>4, <1>5, <1>6, RunIsCounted
  <2>2. JobsIn("CANCELLED")' = JobsIn("CANCELLED")
    BY <1>5, <1>6, <1>7 DEF JobsIn
  <2>3. /\ Recoveries!Succeeds(j, outcome) =>
             JobsIn("COMPLETED")' = JobsIn("COMPLETED") \cup {j} /\ j \notin JobsIn("COMPLETED")
        /\ ~Recoveries!Succeeds(j, outcome) => JobsIn("COMPLETED")' = JobsIn("COMPLETED")
    BY <1>4, <1>5, <1>6, <1>7 DEF JobsIn
  <2>4. Cardinality(JobsIn("COMPLETED")') =
          IF Recoveries!Succeeds(j, outcome) THEN Cardinality(JobsIn("COMPLETED")) + 1
          ELSE Cardinality(JobsIn("COMPLETED"))
    BY <2>3, KeptJobsAreFinite, FS_AddElement
  <2>5. \A c \in {"submitted", "completed", "failed", "timed_out", "cancelled", "admissions"} :
          /\ counters[c] \in Nat
          /\ counters'[c] = IF c \in Recoveries!Counted(j, outcome)
                            THEN counters[c] + 1 ELSE counters[c]
    BY <1>8 DEF Recoveries!Counters, GInv, GatewayTypes
  <2>6. Recoveries!Counted(j, outcome) =
          IF Recoveries!Succeeds(j, outcome) THEN {"completed", "admissions"}
          ELSE IF outcome = "timed_out" THEN {"timed_out"} ELSE {"failed"}
    <3>1. Recoveries!Succeeds(j, outcome) => outcome # "timed_out"
      BY DEF Recoveries!Succeeds
    <3> QED BY <3>1 DEF Recoveries!Counted
  <2>7. CASE Recoveries!Succeeds(j, outcome)
    BY <2>1, <2>2, <2>4, <2>5, <2>6, <2>7 DEF GInv, CountsAreKept
  <2>8. CASE ~Recoveries!Succeeds(j, outcome)
    BY <2>1, <2>2, <2>4, <2>5, <2>6, <2>8 DEF GInv, CountsAreKept
  <2> QED BY <2>7, <2>8
<1> QED BY <1>11, <1>12, <1>13, <1>14, <1>16, <1>17 DEF GInv

(***************************************************************************)
(* A cancellation: the job waits no more if it waited, and in any case it  *)
(* has ended when the client is told so.                                   *)
(***************************************************************************)
LEMMA CancelKeeps ==
  ASSUME GInv, NEW r \in Requests, Recoveries!CancelRecovery(r)
  PROVE  GInv'
<1> USE GatewayConstants
<1>1. PICK call : call = asked[r] OBVIOUS
<1>2. PICK j : j = call.job OBVIOUS
<1>3. AskedInOrder(call) BY <1>1 DEF GInv
<1>4. PICK says : /\ says = IF call.seen \in {"QUEUED", "LEASED", "RUNNING"}
                            THEN "CANCELLED" ELSE "JOB_NOT_CANCELLABLE"
                  /\ asked' = [asked EXCEPT
                                 ![r] = Recoveries!Answered(@.op, @.by, @.job, says)]
  BY <1>1 DEF Recoveries!CancelRecovery, Recoveries!Answer,
     Recoveries!CANCELLABLE_PRODUCT_STATES
<1>5. /\ call.at = "await" /\ call.op = "cancel"
      /\ UNCHANGED <<artifactStore, owner, age>>
      /\ IF /\ call.seen \in {"QUEUED", "LEASED", "RUNNING"}
            /\ Recoveries!CanBeCancelled(j)
         THEN /\ kept' = [kept EXCEPT ![j].state = "CANCELLED"]
              /\ list' = Recoveries!WithoutCancelled(j)
              /\ files' = [files EXCEPT ![j] = Recoveries!Purged(j)]
              /\ counters' = Recoveries!Count({"cancelled"})
         ELSE UNCHANGED <<kept, list, files, counters>>
  BY <1>1, <1>2 DEF Recoveries!CancelRecovery, Recoveries!CANCELLABLE_PRODUCT_STATES
<1>6. /\ j \in JobIds /\ kept[j] # None /\ owner[j] = call.by /\ owner[j] # None
      /\ call.seen \in EndStates \cup {"QUEUED"}
  BY <1>2, <1>3, <1>5 DEF AskedInOrder
<1>7. /\ kept[j] \in Recoveries!Job
      /\ kept[j].state \in {"QUEUED", "COMPLETED", "FAILED", "CANCELLED"}
      /\ kept[j].attempts \in Nat
      /\ Recoveries!CanBeCancelled(j) <=> kept[j].state = "QUEUED"
  <2>1. Recoveries!TERMINAL_PRODUCT_STATES = EndStates
    BY DEF Recoveries!TERMINAL_PRODUCT_STATES, EndStates
  <2> QED BY <1>6, <2>1, JobStates DEF GInv, Recoveries!CanBeCancelled
<1>8. PICK x : x = Recoveries!Answered(call.op, call.by, call.job, says) OBVIOUS
<1>9. asked' = [asked EXCEPT ![r] = x] BY <1>1, <1>4, <1>8 DEF GInv, GatewayTypes
<1>10. x.at = "answered" /\ x.op = "cancel" /\ x.job = j /\ x.says = says
  BY <1>2, <1>5, <1>8 DEF Recoveries!Answered, Recoveries!Idle
<1>11. CASE ~(call.seen \in {"QUEUED", "LEASED", "RUNNING"} /\ Recoveries!CanBeCancelled(j))
  <2>1. UNCHANGED <<kept, list, files, counters>> BY <1>5, <1>11
  <2>2. ASSUME says = "CANCELLED"
        PROVE  \E state \in EndStates : IsOrWas(j, state)
    <3>1. ~Recoveries!CanBeCancelled(j) BY <1>4, <1>11, <2>2
    <3>2. Recoveries!mapInternalToProductState(kept[j].state) \in EndStates
      BY <1>6, <1>7, <3>1, JobStates DEF GInv
    <3> QED BY <1>6, <3>2 DEF IsOrWas, Recoveries!HasState
  <2>3. AskedInOrder(x) BY <1>10, <2>2 DEF AskedInOrder
  <2> QED BY <1>5, <1>9, <2>1, <2>3, HandlerStep
<1>12. CASE call.seen \in {"QUEUED", "LEASED", "RUNNING"} /\ Recoveries!CanBeCancelled(j)
  <2>1. PICK new : new = [kept[j] EXCEPT !.state = "CANCELLED"] OBVIOUS
  <2>2. /\ new \in Recoveries!Job /\ new # None /\ new.state = "CANCELLED"
        /\ new.attempts = kept[j].attempts
    BY <1>7, <2>1 DEF Recoveries!Job
  <2>3. /\ kept' = [kept EXCEPT ![j] = new] /\ list' = Without(list, j)
        /\ files' = [files EXCEPT ![j] = files[j] \ {"sourceCode"}]
        /\ counters' = Recoveries!Count({"cancelled"})
    BY <1>5, <1>12, <2>1, GatewayOperators
       DEF Recoveries!WithoutCancelled, Recoveries!Purged, GInv, GatewayTypes
  <2>4. /\ kept'[j] = new /\ \A i \in JobIds \ {j} : kept'[i] = kept[i]
        /\ files'[j] = files[j] \ {"sourceCode"} /\ \A i \in JobIds \ {j} : files'[i] = files[i]
    BY <1>6, <2>3 DEF GInv, GatewayTypes
  <2>5. /\ list' \in Seq(JobIds) /\ Distinct(list') /\ Entries(list') = Entries(list) \ {j}
    BY <2>3, WithoutDrops DEF GInv, GatewayTypes
  <2>6. counters' = [c \in Recoveries!Counters |->
                       IF c \in {"cancelled"} THEN counters[c] + 1 ELSE counters[c]]
    BY <2>3 DEF Recoveries!Count
  <2>7. kept[j].state = "QUEUED" BY <1>7, <1>12
  <2>8. GatewayTypes'
    <3>1. kept' \in [JobIds -> Recoveries!Job \cup {None}] BY <2>2, <2>3 DEF GInv, GatewayTypes
    <3>2. files' \in [JobIds -> SUBSET ArtifactKinds]
      BY <1>6, <2>3 DEF GInv, GatewayTypes
    <3>3. counters' \in [Recoveries!Counters -> Nat] BY <2>6 DEF GInv, GatewayTypes
    <3> QED BY <1>5, <1>9, <2>5, <3>1, <3>2, <3>3 DEF GInv, GatewayTypes
  <2>9. ListedAreQueued'
    <3>1. \A i \in Entries(list) : i \in JobIds BY DEF GInv, GatewayTypes, Entries
    <3>2. \A i \in Entries(list') : kept'[i] # None /\ kept'[i].state = "QUEUED"
      BY <2>4, <2>5, <3>1 DEF GInv, ListedAreQueued
    <3>3. Entries(list)' = Entries(list') BY DEF Entries
    <3> QED BY <3>2, <3>3 DEF ListedAreQueued
  <2>10. JobsAreOwned' BY <1>5, <1>6, <2>4 DEF GInv, JobsAreOwned
  <2>11. ASSUME NEW i \in JobIds PROVE FilesInOrder(i)'
    <3>1. FilesInOrder(i) BY DEF GInv
    <3>2. CASE i # j BY <1>5, <2>4, <3>1, <3>2 DEF FilesInOrder
    <3>3. CASE i = j BY <1>5, <1>6, <2>2, <2>4, <3>1, <3>3 DEF FilesInOrder
    <3> QED BY <3>2, <3>3
  <2>12. JobsGoOn BY <1>5, <1>6, <2>4, <2>7 DEF JobsGoOn
  <2>13. \A i \in JobIds : kept[i] # None => kept'[i] # None BY <2>2, <2>4
  <2>14. asked'[r] = x /\ \A q \in Requests \ {r} : asked'[q] = asked[q]
    BY <1>9 DEF GInv, GatewayTypes
  <2>15. AskedInOrder(x)'
    <3>1. Recoveries!HasState(j, "CANCELLED")'
      BY <2>2, <2>4, StateNames DEF Recoveries!HasState
    <3>2. IsOrWas(j, "CANCELLED")' BY <1>5, <1>6, <3>1 DEF IsOrWas
    <3>3. \E state \in EndStates : IsOrWas(j, state)'
      <4>1. "CANCELLED" \in EndStates BY DEF EndStates
      <4> QED BY <3>2, <4>1
    <3> QED BY <1>10, <3>3 DEF AskedInOrder
  <2>16. ASSUME NEW q \in Requests PROVE AskedInOrder(asked[q])'
    <3>1. PICK other : other = asked[q] OBVIOUS
    <3>2. AskedInOrder(other)' BY <2>12, <2>13, <3>1, AskedStays DEF GInv
    <3> QED BY <2>14, <2>15, <3>1, <3>2
  <2>17. CountsAreKept'
    <3>1. KeptJobs' = KeptJobs BY <1>6, <2>2, <2>4 DEF KeptJobs
    <3>2. JobsIn("COMPLETED")' = JobsIn("COMPLETED") BY <2>2, <2>4, <2>7 DEF JobsIn
    <3>3. JobsIn("CANCELLED")' = JobsIn("CANCELLED") \cup {j} /\ j \notin JobsIn("CANCELLED")
      BY <1>6, <2>2, <2>4, <2>7 DEF JobsIn
    <3>4. Cardinality(JobsIn("CANCELLED")') = Cardinality(JobsIn("CANCELLED")) + 1
      BY <3>3, KeptJobsAreFinite, FS_AddElement
    <3>5. Runs' = Runs
      <4>1. \A y : y \in Runs' <=> \E i \in JobIds :
                     kept'[i] # None /\ \E n \in 1 .. kept'[i].attempts : y = <<i, n>>
        BY DEF Runs, KeptJobs
      <4>2. ASSUME NEW y PROVE y \in Runs' <=> y \in Runs
        BY <1>6, <2>2, <2>4, <4>1, RunIn
      <4> QED BY <4>2
    <3>6. /\ counters'["cancelled"] = counters["cancelled"] + 1
          /\ \A c \in {"submitted", "completed", "failed", "timed_out", "admissions"} :
               counters'[c] = counters[c]
      BY <2>6 DEF Recoveries!Counters
    <3> QED BY <3>1, <3>2, <3>4, <3>5, <3>6 DEF GInv, CountsAreKept
  <2> QED BY <2>8, <2>9, <2>10, <2>11, <2>16, <2>17 DEF GInv
<1> QED BY <1>11, <1>12

(***************************************************************************)
(* Every step of the gateway keeps the invariant.                          *)
(***************************************************************************)
LEMMA GatewayStep ==
  ASSUME GInv, [Recoveries!Next]_(Recoveries!vars)
  PROVE  GInv'
<1>1. CASE UNCHANGED Recoveries!vars BY <1>1, ExpiryKeeps
<1>2. CASE Recoveries!Restart BY <1>2, RestartKeeps
<1>3. CASE Recoveries!Steps(Requests, Principals, JobIds)
  <2>1. ASSUME NEW j \in JobIds, NEW p \in Principals, Recoveries!SubmitJob(j, p)
        PROVE  GInv'
    BY <2>1, SubmitJobKeeps
  <2>2. ASSUME NEW outcome \in Outcomes, Recoveries!ProcessNextJob(outcome)
        PROVE  GInv'
    BY <2>2, ProcessKeeps
  <2>3. ASSUME NEW r \in Requests, NEW p \in Principals, NEW j \in JobIds,
               NEW op \in {"status", "cancel", "list"}, Recoveries!LookUp(r, op, p, j)
        PROVE  GInv'
    BY <2>3, LookUpKeeps
  <2>4. ASSUME NEW r \in Requests, NEW p \in Principals, NEW j \in JobIds,
               NEW kind \in Recoveries!Kinds, Recoveries!DownloadArtifact(r, p, j, kind)
        PROVE  GInv'
    BY <2>4, DownloadKeeps DEF Recoveries!Kinds
  <2>5. ASSUME NEW r \in Requests, Recoveries!GetRecovery(r) \/ Recoveries!ListArtifacts(r)
        PROVE  GInv'
    BY <2>5, GetRecoveryKeeps
  <2>6. ASSUME NEW r \in Requests, Recoveries!CancelRecovery(r)
        PROVE  GInv'
    BY <2>6, CancelKeeps
  <2>7. CASE Recoveries!CleanupExpired \/ Recoveries!Tick BY <2>7, ExpiryKeeps
  <2> QED BY <1>3, <2>1, <2>2, <2>3, <2>4, <2>5, <2>6, <2>7 DEF Recoveries!Steps
<1> QED BY <1>1, <1>2, <1>3 DEF Recoveries!Next

-----------------------------------------------------------------------------
(***************************************************************************)
(* What the invariant says of the answers and of the books.                *)
(***************************************************************************)
LEMMA AnswersFollow ==
  ASSUME GInv
  PROVE  AnswersStayTrue
<1> USE GatewayConstants
<1>1. ASSUME NEW r \in Requests PROVE AskedInOrder(asked[r]) BY <1>1 DEF GInv
<1>2. Recoveries!TerminalStatusStays
  <2>1. SUFFICES ASSUME NEW r \in Requests, NEW state \in EndStates,
                        Recoveries!Told(r, "status", state)
                 PROVE  kept[asked[r].job] = None \/ Recoveries!HasState(asked[r].job, state)
    BY DEF Recoveries!TerminalStatusStays, Recoveries!TERMINAL_PRODUCT_STATES, EndStates
  <2>2. PICK call : call = asked[r] OBVIOUS
  <2>3. IsOrWas(call.job, state)
    BY <1>1, <2>1, <2>2 DEF AskedInOrder, Recoveries!Told
  <2> QED BY <2>2, <2>3 DEF IsOrWas
<1>3. Recoveries!CancelledIsOver
  <2>1. SUFFICES ASSUME NEW r \in Requests, Recoveries!Told(r, "cancel", "CANCELLED"),
                        kept[asked[r].job] # None
                 PROVE  /\ \E state \in EndStates : Recoveries!HasState(asked[r].job, state)
                        /\ \A n \in DOMAIN list : list[n] # asked[r].job
    BY DEF Recoveries!CancelledIsOver, Recoveries!TERMINAL_PRODUCT_STATES, EndStates
  <2>2. PICK call : call = asked[r] OBVIOUS
  <2>3. PICK state \in EndStates : IsOrWas(call.job, state)
    BY <1>1, <2>1, <2>2 DEF AskedInOrder, Recoveries!Told
  <2>4. call.job \in JobIds /\ Recoveries!HasState(call.job, state)
    BY <2>1, <2>2, <2>3 DEF IsOrWas
  <2>5. kept[call.job].state # "QUEUED"
    BY <2>1, <2>2, <2>4, JobStates DEF GInv, Recoveries!HasState
  <2>6. call.job \notin Entries(list) BY <2>5 DEF GInv, ListedAreQueued
  <2> QED BY <2>2, <2>4, <2>6 DEF Entries
<1>4. Recoveries!ListedCanBeDownloaded
  <2>1. SUFFICES ASSUME NEW r \in Requests, Recoveries!Told(r, "list", "both"),
                        kept[asked[r].job] # None, age[asked[r].job] <= retention
                 PROVE  /\ Recoveries!ArtifactFor(asked[r].by, asked[r].job, "report") = "OK"
                        /\ \A p \in Principals \ {asked[r].by} :
                             Recoveries!ArtifactFor(p, asked[r].job, "report") = "FORBIDDEN"
                        /\ kept[asked[r].job].result = "completed" =>
                             Recoveries!ArtifactFor(asked[r].by, asked[r].job, "recoveredCode")
                               = "OK"
    BY DEF Recoveries!ListedCanBeDownloaded
  <2>2. PICK call : call = asked[r] OBVIOUS
  <2>3. PICK j : j = call.job OBVIOUS
  <2>4. IsOrWas(j, "SUCCEEDED") /\ owner[j] = call.by
    BY <1>1, <2>1, <2>2, <2>3 DEF AskedInOrder, Recoveries!Told
  <2>5. j \in JobIds /\ kept[j] # None /\ age[j] <= retention /\ kept[j].state = "COMPLETED"
    BY <2>1, <2>2, <2>3, <2>4, JobStates DEF IsOrWas, Recoveries!HasState, GInv
  <2>6. /\ "meta" \in files[j] /\ "report" \in files[j]
        /\ kept[j].result = "completed" => "recoveredCode" \in files[j]
    BY <2>5 DEF GInv, FilesInOrder
  <2>7. Recoveries!FilesWhenAsked(j)[j] = files[j]
    <3>1. age[j] \in Nat BY <2>5 DEF GInv, GatewayTypes
    <3>2. Recoveries!cleanupExpired[j] = files[j]
      BY <2>5, <3>1 DEF Recoveries!cleanupExpired, Recoveries!Expired
    <3> QED BY <2>5, <3>2 DEF Recoveries!FilesWhenAsked, GInv, GatewayTypes
  <2>8. ASSUME NEW p, NEW kind
        PROVE  /\ owner[j] # p => Recoveries!ArtifactFor(p, j, kind) = "FORBIDDEN"
               /\ owner[j] = p /\ kind \in files[j] => Recoveries!ArtifactFor(p, j, kind) = "OK"
    BY <2>6, <2>7 DEF Recoveries!ArtifactFor
  <2> QED BY <2>2, <2>3, <2>4, <2>6, <2>8
<1> QED BY <1>2, <1>3, <1>4 DEF AnswersStayTrue, Recoveries!AnswersStayTrue

(***************************************************************************)
(* The runs as a set are those the property counts.                        *)
(***************************************************************************)
LEMMA BooksFollow ==
  ASSUME GInv
  PROVE  BooksAreTrue
<1>1. Recoveries!SourceIsPurged BY DEF Recoveries!SourceIsPurged, GInv, FilesInOrder
<1>2. Recoveries!CountersAreTrue
  <2>1. {j \in JobIds : kept[j] # None} = KeptJobs BY DEF KeptJobs
  <2> QED BY <2>1, GatewayOperators DEF Recoveries!CountersAreTrue, GInv, CountsAreKept
<1> QED BY <1>1, <1>2 DEF BooksAreTrue, Recoveries!BooksAreTrue

(***************************************************************************)
(* AnswersStayTrue: what a handler answered stays true, though it speaks   *)
(* of a copy made before its await.                                        *)
(***************************************************************************)
THEOREM Answers == Recoveries!Spec => []AnswersStayTrue
<1>1. GInv /\ [Recoveries!Next]_(Recoveries!vars) => GInv' BY GatewayStep
<1> QED BY <1>1, GatewayInitial, AnswersFollow, PTL DEF Recoveries!Spec

(***************************************************************************)
(* BooksAreTrue: the source is gone after the first run or with the job's  *)
(* end, and the counters count every run once.                             *)
(***************************************************************************)
THEOREM Books == Recoveries!Spec => []BooksAreTrue
<1>1. GInv /\ [Recoveries!Next]_(Recoveries!vars) => GInv' BY GatewayStep
<1> QED BY <1>1, GatewayInitial, BooksFollow, PTL DEF Recoveries!Spec

=============================================================================
