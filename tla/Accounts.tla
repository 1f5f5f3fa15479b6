------------------------------ MODULE Accounts ------------------------------
(***************************************************************************)
(* Who a request of the Product API is from (packages/api/src/auth: the    *)
(* identity store, the session store, the Discord OAuth controller, and    *)
(* _resolvePrincipal and _validateCsrf of server.js).  A member signs in   *)
(* through Discord and the browser then carries a session cookie; the bot  *)
(* carries signed assertions.  A handler runs to its next await; the       *)
(* others run between.                                                     *)
(*                                                                         *)
(* The stores come in two forms, and shared says which: collections of a   *)
(* database, used by one process or several and atomic call by call, or    *)
(* objects of one process, where the session store's calls run to their    *)
(* end and MemoryMongoCollection.insertOne looks before an await and       *)
(* pushes after.  The lock map, the OAuth states waited for and the nonces *)
(* seen are Maps of a process in either form; a process that starts anew   *)
(* is another one.                                                         *)
(* A member is served one principal, a fresh number when it is made; a     *)
(* session is named by its token, which also stands for its CSRF token;    *)
(* two ticks of the clock make a second.                                   *)
(***************************************************************************)
EXTENDS Naturals, Sequences, FiniteSets

CONSTANTS
  Subjects,      \* Discord's users
  Requests,      \* handlers that may be under way together
  Processes,     \* those that serve them
  Browsers,
  idleTtl, absoluteTtl, stateTtl, assertionTtl,
  maxTokens, maxStates, maxAssertions, maxTime,   \* bounds
  None

ASSUME TtlAssumption == {idleTtl, absoluteTtl, stateTtl, assertionTtl} \subseteq Nat
ASSUME BoundsAssumption ==
  {maxTokens, maxStates, maxAssertions, maxTime} \subseteq Nat
ASSUME RequestsAssumption == IsFiniteSet(Requests)

VARIABLES
  shared,
  process,       \* the process of each handler
  now,
  identities,    \* the documents of the identity collection
  made,          \* how many principals were made
  lockMap,       \* per process, the subjects being resolved
  sessions,      \* token -> the stored session, or None
  issued,        \* how many tokens were issued
  pendingStates, \* the OAuth states not used, when they expire, and their process
  states,        \* how many were issued
  assertions,    \* those the bot has signed: [sub, exp]
  seenNonces,    \* with the process that saw them
  cookie, stateCookie, page,   \* of each browser: valax_session (0: none),
                               \* valax_oauth_state, the CSRF token its page has
  request,       \* what each handler is doing
  \* history:
  loggedIn,      \* token -> when the sign-in it descends from was made
  loggedOut,     \* tokens whose logout was answered
  principalOf,   \* subject -> the principal first given out (0: none)
  completed,     \* states that led to a session, with the session
  accepted,      \* assertions, with the process
  acceptedAgain  \* those a process accepted that had done so before, with the time

clock == <<shared, process, now>>
identity == <<identities, made, lockMap, principalOf>>
store == <<sessions, issued, loggedIn, loggedOut>>
oauth == <<pendingStates, states, completed>>
bot == <<assertions, seenNonces, accepted, acceptedAgain>>
browser == <<cookie, stateCookie, page>>
vars == <<clock, identity, store, oauth, bot, browser, request>>

Tokens == 1..maxTokens

Session == [principal : Nat \ {0}, createdAt : 0..maxTime, lastSeenAt : 0..maxTime]

Idle ==
  [at |-> "idle", for |-> "none", browser |-> None, subject |-> None, state |-> 0,
   token |-> 0, principal |-> 0, late |-> FALSE, read |-> None, checkedAt |-> 0]

TypeOK ==
  /\ process \in [Requests -> Processes]
  /\ now \in 0..maxTime
  /\ identities \subseteq [subject : Subjects, principal : 1..made]
  /\ made \in Nat
  /\ sessions \in [Tokens -> Session \cup {None}]
  /\ issued \in 0..maxTokens
  /\ states \in 0..maxStates
  /\ pendingStates \subseteq (1..states) \X (0..(maxTime + stateTtl)) \X Processes
  /\ cookie \in [Browsers -> 0..issued]
  /\ loggedOut \subseteq 1..issued
  /\ principalOf \in [Subjects -> 0..made]

Init ==
  /\ shared \in BOOLEAN
  /\ process \in [Requests -> Processes]
  /\ shared \/ \A g, h \in Requests : process[g] = process[h]
  /\ now = 0
  /\ identities = {} /\ made = 0 /\ lockMap = {}
  /\ principalOf = [u \in Subjects |-> 0]
  /\ sessions = [t \in Tokens |-> None] /\ issued = 0
  /\ loggedIn = [t \in Tokens |-> 0]
  /\ loggedOut = {}
  /\ pendingStates = {} /\ states = 0 /\ completed = {}
  /\ assertions = <<>> /\ seenNonces = {} /\ accepted = {} /\ acceptedAgain = {}
  /\ cookie = [b \in Browsers |-> 0]
  /\ stateCookie = [b \in Browsers |-> 0]
  /\ page = [b \in Browsers |-> 0]
  /\ request = [h \in Requests |-> Idle]

Tick ==
  /\ now < maxTime
  /\ now' = now + 1
  /\ UNCHANGED <<shared, process, identity, store, oauth, bot, browser, request>>

At(h, place) == request[h].at = place

Becomes(h, r) == request' = [request EXCEPT ![h] = r]

Goes(h, place) == Becomes(h, [request[h] EXCEPT !.at = place])

\* The handler throws: the client has an error response.
Fails(h) == Becomes(h, Idle)

-----------------------------------------------------------------------------
(***************************************************************************)
(* getOrCreatePrincipal.  Where it is called from decides what follows: a  *)
(* callback goes on to the sessions, an assertion is granted.              *)
(***************************************************************************)
Lock(h) == <<process[h], request[h].subject>>

Documents(u) == {d \in identities : d.subject = u}

NotWaited(h) == TRUE   \* defect: the promise in the lock map is not awaited

Unlocked(h) == Lock(h) \notin lockMap

TakeLock(h) ==
  /\ At(h, "resolve")
  /\ Unlocked(h)
  /\ lockMap' = lockMap \cup {Lock(h)}
  /\ Goes(h, "find")
  /\ UNCHANGED <<clock, identities, made, principalOf, store, oauth, bot, browser>>

\* The principal is returned and the lock released; whichever was first
\* given out is noted.
Resolved(h, p) ==
  LET u == request[h].subject IN
  /\ lockMap' = lockMap \ {Lock(h)}
  /\ principalOf' = [principalOf EXCEPT ![u] = IF @ = 0 THEN p ELSE @]
  /\ Becomes(h, [request[h] EXCEPT !.principal = p,
       !.at = IF request[h].for = "callback" THEN "renew" ELSE "granted"])

Find(h) ==
  /\ At(h, "find")
  /\ \/ \E d \in Documents(request[h].subject) :
          Resolved(h, d.principal)
     \/ /\ Documents(request[h].subject) = {}
        /\ Goes(h, "insert")
        /\ UNCHANGED <<lockMap, principalOf>>
  /\ UNCHANGED <<clock, identities, made, store, oauth, bot, browser>>

Unique(u) == Documents(u) = {}

Created(h) ==
  /\ made' = made + 1
  /\ identities' = identities \cup {[subject |-> request[h].subject, principal |-> made + 1]}
  /\ Resolved(h, made + 1)

Insert(h) ==
  /\ At(h, "insert")
  /\ IF ~Unique(request[h].subject)
     THEN Goes(h, "reread") /\ UNCHANGED identity
     ELSE IF shared THEN Created(h)
                    ELSE Goes(h, "push") /\ UNCHANGED identity
  /\ UNCHANGED <<clock, store, oauth, bot, browser>>

Push(h) ==
  /\ At(h, "push")
  /\ Created(h)
  /\ UNCHANGED <<clock, store, oauth, bot, browser>>

\* The document that was in the way is read, and its principal taken.
Reread(h) ==
  /\ At(h, "reread")
  /\ \E d \in Documents(request[h].subject) : Resolved(h, d.principal)
  /\ UNCHANGED <<clock, identities, made, store, oauth, bot, browser>>

\* A call to the database fails: the lock is released all the same.
DatabaseFails(h) ==
  /\ shared
  /\ request[h].at \in {"find", "insert", "reread"}
  /\ lockMap' = lockMap \ {Lock(h)}
  /\ Fails(h)
  /\ UNCHANGED <<clock, identities, made, principalOf, store, oauth, bot, browser>>

-----------------------------------------------------------------------------
(***************************************************************************)
(* The session store: createSession, getSession, rotateSession,            *)
(* destroySession.                                                         *)
(***************************************************************************)
Expired(s) == now - s.createdAt > absoluteTtl \/ now - s.lastSeenAt > idleTtl

Removed(t) == sessions' = [sessions EXCEPT ![t] = None]

\* The cookie names a session, which may be one that was logged out since the
\* request was sent.  No session, or one that expired, is null.
GetSession(h, b, t) ==
  LET s == sessions[t]
      r == [Idle EXCEPT !.for = "cookie", !.browser = b, !.token = t, !.checkedAt = now,
                        !.late = t \in loggedOut, !.read = s] IN
  /\ At(h, "idle")
  /\ t # 0
  /\ \/ s = None /\ Becomes(h, [r EXCEPT !.at = "anonymous"]) /\ UNCHANGED sessions
     \/ /\ s # None /\ Expired(s)
        /\ IF shared THEN Becomes(h, [r EXCEPT !.at = "expire"]) /\ UNCHANGED sessions
                     ELSE Becomes(h, [r EXCEPT !.at = "anonymous"]) /\ Removed(t)
     \/ /\ s # None /\ ~Expired(s)
        /\ IF shared
           THEN /\ Becomes(h, [r EXCEPT !.at = "touch", !.read = [s EXCEPT !.lastSeenAt = now]])
                /\ UNCHANGED sessions
           ELSE /\ Becomes(h, [r EXCEPT !.at = "granted", !.principal = s.principal])
                /\ sessions' = [sessions EXCEPT ![t].lastSeenAt = now]
  /\ UNCHANGED <<clock, identity, issued, loggedIn, loggedOut, oauth, bot, browser>>

Expire(h) ==
  /\ At(h, "expire")
  /\ Removed(request[h].token)
  /\ Goes(h, "anonymous")
  /\ UNCHANGED <<clock, identity, issued, loggedIn, loggedOut, oauth, bot, browser>>

\* defect: an update that matches nothing puts the document back
Upserted(t, s) == s

Touched(t, s) ==
  IF sessions[t] = None THEN None ELSE [sessions[t] EXCEPT !.lastSeenAt = s.lastSeenAt]

Touch(h) ==
  LET t == request[h].token IN
  /\ At(h, "touch")
  /\ sessions' = [sessions EXCEPT ![t] = Touched(t, request[h].read)]
  /\ Becomes(h, [request[h] EXCEPT !.at = "granted", !.principal = request[h].read.principal])
  /\ UNCHANGED <<clock, identity, issued, loggedIn, loggedOut, oauth, bot, browser>>

NewSession(h, s, since) ==
  /\ issued' = issued + 1
  /\ sessions' = [sessions EXCEPT ![issued + 1] = s]
  /\ loggedIn' = [loggedIn EXCEPT ![issued + 1] = since]
  /\ cookie' = [cookie EXCEPT ![request[h].browser] = issued + 1]

Rotated(s) == [s EXCEPT !.lastSeenAt = now]

\* Handlers that may yet make a session; the bound counts them with those made.
Room ==
  issued + Cardinality({h \in Requests : request[h].for \in {"callback", "rotate"}}) < maxTokens

\* rotateSession reads, deletes and inserts, with an await at each; its
\* caller has the new token put in the cookie.
RotateSession(h, b) ==
  LET t == cookie[b]
      s == sessions[t] IN
  /\ At(h, "idle")
  /\ t # 0
  /\ s # None
  /\ Room
  /\ IF Expired(s)
     THEN Removed(t) /\ UNCHANGED <<request, issued, loggedIn, cookie>>
     ELSE IF shared
     THEN /\ Becomes(h, [Idle EXCEPT !.at = "unlink", !.for = "rotate", !.browser = b,
                                     !.token = t, !.read = s])
          /\ UNCHANGED <<sessions, issued, loggedIn, cookie>>
     ELSE /\ issued' = issued + 1
          /\ sessions' = [sessions EXCEPT ![t] = None, ![issued + 1] = Rotated(s)]
          /\ loggedIn' = [loggedIn EXCEPT ![issued + 1] = loggedIn[t]]
          /\ cookie' = [cookie EXCEPT ![b] = issued + 1]
          /\ UNCHANGED request
  /\ UNCHANGED <<clock, identity, loggedOut, oauth, bot, stateCookie, page>>

Unlink(h) ==
  /\ At(h, "unlink")
  /\ Removed(request[h].token)
  /\ Goes(h, "relink")
  /\ UNCHANGED <<clock, identity, issued, loggedIn, loggedOut, oauth, bot, browser>>

Relink(h) ==
  /\ At(h, "relink")
  /\ NewSession(h, Rotated(request[h].read), loggedIn[request[h].token])
  /\ Becomes(h, Idle)
  /\ UNCHANGED <<clock, identity, loggedOut, oauth, bot, stateCookie, page>>

-----------------------------------------------------------------------------
(***************************************************************************)
(* Signing in through Discord: handleAuthorize and handleCallback.         *)
(***************************************************************************)
HandleAuthorize(p, b) ==
  /\ states < maxStates
  /\ states' = states + 1
  /\ pendingStates' = pendingStates \cup {<<states + 1, now + stateTtl, p>>}
  /\ stateCookie' = [stateCookie EXCEPT ![b] = states + 1]
  /\ UNCHANGED <<clock, identity, store, completed, bot, cookie, page, request>>

StaysPending(p) == pendingStates   \* defect: the state is not used up

Used(p) == pendingStates \ {p}

\* The redirect comes back with a state, once or again.  A state that is not
\* waited for in this process is refused; whatever is found wrong after the
\* look-up, the state is used up.
HandleCallback(h, b, st) ==
  /\ At(h, "idle")
  /\ Room
  /\ \E p \in pendingStates :
       /\ p[1] = st /\ p[3] = process[h]
       /\ pendingStates' = Used(p)
       /\ IF now > p[2] \/ stateCookie[b] \notin {0, st}
          THEN UNCHANGED request
          ELSE Becomes(h, [Idle EXCEPT !.at = "exchange", !.for = "callback", !.browser = b,
                                       !.state = st, !.token = cookie[b]])
  /\ UNCHANGED <<clock, identity, store, states, completed, bot, browser>>

\* _exchangeCodeForToken and _fetchDiscordUser; each may fail.
ExchangeCode(h) ==
  /\ At(h, "exchange")
  /\ Goes(h, "fetch") \/ Fails(h)
  /\ UNCHANGED <<clock, identity, store, oauth, bot, browser>>

FetchDiscordUser(h, u) ==
  /\ At(h, "fetch")
  /\ \/ Becomes(h, [request[h] EXCEPT !.at = "resolve", !.subject = u])
     \/ Fails(h)
  /\ UNCHANGED <<clock, identity, store, oauth, bot, browser>>

\* The session the browser came with is destroyed; an error is swallowed.
DestroyOldSession(h) ==
  LET t == request[h].token IN
  /\ At(h, "renew")
  /\ \/ t # 0 /\ Removed(t)
     \/ t = 0 /\ UNCHANGED sessions
     \/ shared /\ UNCHANGED sessions
  /\ Goes(h, "create")
  /\ UNCHANGED <<clock, identity, issued, loggedIn, loggedOut, oauth, bot, browser>>

CreateSession(h) ==
  LET r == request[h] IN
  /\ At(h, "create")
  /\ NewSession(h, [principal |-> r.principal, createdAt |-> now, lastSeenAt |-> now], now)
  /\ completed' = completed \cup {<<r.state, issued + 1>>}
  /\ stateCookie' = [stateCookie EXCEPT ![r.browser] = 0]
  /\ Becomes(h, Idle)
  /\ UNCHANGED <<clock, identity, loggedOut, pendingStates, states, bot, page>>

-----------------------------------------------------------------------------
(***************************************************************************)
(* Assertions: the bot signs them and may send one again.  A nonce is      *)
(* forgotten once the assertion's expiry, in milliseconds, is past; the    *)
(* expiry itself is compared in whole seconds.                             *)
(***************************************************************************)
Second(t) == t \div 2

SignAssertion(u) ==
  /\ Len(assertions) < maxAssertions
  /\ assertions' = Append(assertions, [sub |-> u, exp |-> Second(now) + assertionTtl])
  /\ UNCHANGED <<clock, identity, store, oauth, seenNonces, accepted, acceptedAgain,
                 browser, request>>

\* defect: the clean-up forgets every nonce
AllForgotten(p, seen) == {s \in seen : s[2] # p}

\* The clean-up of a process is of its own nonces.
Remembered(p, seen) == {s \in seen : s[2] = p => now <= 2 * assertions[s[1]].exp}

VerifyPrincipalAssertion(h, n) ==
  LET a == assertions[n]
      seen == <<n, process[h]>> IN
  /\ At(h, "idle")
  /\ a.exp >= Second(now)
  /\ seen \notin seenNonces
  /\ seenNonces' = Remembered(process[h], seenNonces \cup {seen})
  /\ accepted' = accepted \cup {seen}
  /\ acceptedAgain' = IF seen \in accepted THEN acceptedAgain \cup {<<n, now>>} ELSE acceptedAgain
  /\ Becomes(h, [Idle EXCEPT !.at = "resolve", !.for = "assertion", !.subject = a.sub])
  /\ UNCHANGED <<clock, identity, store, oauth, assertions, browser>>

-----------------------------------------------------------------------------
(***************************************************************************)
(* What a granted request does: answer (handleMe, handleSessionInfo, which *)
(* gives the page its CSRF token), or log out.                             *)
(***************************************************************************)
Answer(h) ==
  LET r == request[h] IN
  /\ At(h, "granted")
  /\ page' = IF r.for = "cookie" THEN [page EXCEPT ![r.browser] = r.token] ELSE page
  /\ Becomes(h, Idle)
  /\ UNCHANGED <<clock, identity, store, oauth, bot, cookie, stateCookie>>

ValidateCsrf(r) == r.for = "cookie" => page[r.browser] = r.token

BeginLogout(h) ==
  /\ At(h, "granted")
  /\ request[h].for = "cookie"
  /\ IF ValidateCsrf(request[h]) THEN Goes(h, "logout") ELSE Fails(h)
  /\ UNCHANGED <<clock, identity, store, oauth, bot, browser>>

HandleLogout(h) ==
  LET r == request[h] IN
  /\ At(h, "logout")
  /\ Removed(r.token)
  /\ loggedOut' = loggedOut \cup {r.token}
  /\ cookie' = [cookie EXCEPT ![r.browser] = 0]
  /\ Becomes(h, Idle)
  /\ UNCHANGED <<clock, identity, issued, loggedIn, oauth, bot, stateCookie, page>>

\* No session: outside production a development header may name a principal
\* of its own, made from the name; otherwise the answer is 401.
Fallback(h) ==
  /\ At(h, "anonymous")
  /\ Fails(h)
  /\ UNCHANGED <<clock, identity, store, oauth, bot, browser>>

\* What a handler does once its call to a store or to Discord is answered.
Continue(h) ==
  \/ TakeLock(h) \/ Find(h) \/ Insert(h) \/ Push(h) \/ Reread(h) \/ DatabaseFails(h)
  \/ Expire(h) \/ Touch(h) \/ Unlink(h) \/ Relink(h)
  \/ ExchangeCode(h) \/ (\E u \in Subjects : FetchDiscordUser(h, u))
  \/ DestroyOldSession(h) \/ CreateSession(h)
  \/ Answer(h) \/ BeginLogout(h) \/ HandleLogout(h) \/ Fallback(h)

Begin(h) ==
  \/ \E n \in DOMAIN assertions : VerifyPrincipalAssertion(h, n)
  \/ \E b \in Browsers :
       \/ \E t \in {cookie[b]} \cup loggedOut : GetSession(h, b, t)
       \/ RotateSession(h, b)
       \/ \E st \in 1..states : HandleCallback(h, b, st)

Next ==
  \/ Tick
  \/ \E p \in Processes, b \in Browsers : HandleAuthorize(p, b)
  \/ \E u \in Subjects : SignAssertion(u)
  \/ \E h \in Requests : Begin(h) \/ Continue(h)

Spec == Init /\ [][Next]_vars

-----------------------------------------------------------------------------
(***************************************************************************)
(* However sign-ins and assertions of one Discord user overlap, and        *)
(* whether one process or several resolve them, the user has one document  *)
(* and every request resolved for the user has the same principal (the     *)
(* class comment of MongoIdentityStore).                                   *)
(***************************************************************************)
OnePrincipalPerSubject ==
  /\ \A d, e \in identities : d.subject = e.subject => d = e
  /\ \A h \in Requests :
       LET r == request[h] IN
       r.subject # None /\ r.principal # 0 => r.principal = principalOf[r.subject]

(***************************************************************************)
(* A request that comes in after the logout of its session was answered is *)
(* not granted by it, whatever was under way with that session when the    *)
(* logout deleted it.                                                      *)
(***************************************************************************)
LoggedOutStaysOut ==
  \A h \in Requests : At(h, "granted") => ~request[h].late

(***************************************************************************)
(* However often a session is rotated, it grants nothing later than the    *)
(* absolute lifetime after the sign-in it descends from ("dual TTL").      *)
(***************************************************************************)
RotationDoesNotProlong ==
  \A h \in Requests :
    LET r == request[h] IN
    At(h, "granted") /\ r.for = "cookie" => r.checkedAt - loggedIn[r.token] <= absoluteTtl

(***************************************************************************)
(* A session ends, by logout or by age, whatever is under way with it.     *)
(***************************************************************************)
SessionsEnd == LoggedOutStaysOut /\ RotationDoesNotProlong

StateMakesOneSession == \A c, d \in completed : c[1] = d[1] => c = d

AcceptedOnce ==
  \A p \in acceptedAgain :
    Second(p[2]) = assertions[p[1]].exp /\ p[2] > 2 * assertions[p[1]].exp

(***************************************************************************)
(* What lets a user in does so once.  A state of OAuth's leads to one      *)
(* session, though its redirect is followed twice and the two requests run *)
(* side by side; an assertion is accepted once by a process, but for the   *)
(* last second of its life, when its nonce may be forgotten already.  Two  *)
(* processes may accept it one after the other: neither knows the nonces   *)
(* that the other has seen.                                                *)
(***************************************************************************)
LoginsAreSingleUse == StateMakesOneSession /\ AcceptedOnce
=============================================================================
