------------------------------ MODULE ApiServer ------------------------------
(***************************************************************************)
(* ProductApiServer._handleSubmitRecovery (packages/api/src/server.js):    *)
(* the daily quota, the concurrency quota and the idempotency registry,    *)
(* all of them kept in Maps of the one API process while the handlers of   *)
(* its requests interleave at every await: on the body of the request and  *)
(* on the gateway.                                                         *)
(*                                                                         *)
(* One UTC day is modelled; dailyJobCounts is the entry of that day.  The  *)
(* gateway is external to the handler: it creates a job under a fresh id   *)
(* or refuses, and its jobs end by themselves.                             *)
(***************************************************************************)
EXTENDS Naturals, FiniteSets

CONSTANTS
  Requests,            \* handlers that may be under way together
  Principals,
  Keys,                \* values of the Idempotency-Key header
  Contents,            \* sources, told apart by their SHA-256
  JobIds,
  maxJobsPerDay,
  maxConcurrentJobs,
  None

VARIABLES
  request,               \* the locals of each handler, from await to await
  dailyJobCounts,        \* principal -> count
  idempotencyRegistry,   \* principal -> key -> job and content
  job,                   \* the gateway's jobs
  overlapped             \* history: who has had two requests under way at once

vars == <<request, dailyJobCounts, idempotencyRegistry, job, overlapped>>

Job == [principal : Principals, content : Contents, key : Keys \cup {None},
        active : BOOLEAN]

Entry == [job : JobIds, content : Contents]

Assumptions ==
  /\ maxJobsPerDay \in Nat \ {0}
  /\ maxConcurrentJobs \in Nat \ {0}
  /\ IsFiniteSet(JobIds)
  /\ None \notin JobIds \cup Principals \cup Keys \cup Contents \cup Job \cup Entry

Handler ==
  [at : {"none", "body", "submit", "record"},
   principal : Principals \cup {None}, count : Nat,
   key : Keys \cup {None}, content : Contents \cup {None},
   job : JobIds \cup {None}]

NoHandler == [at |-> "none", principal |-> None, count |-> 0, key |-> None,
              content |-> None, job |-> None]

(***************************************************************************)
(* The type invariant: the in-process Maps of the server, the handlers     *)
(* under way and the queue's jobs hold what the code puts there.           *)
(***************************************************************************)
TypeOK ==
  /\ request \in [Requests -> Handler]
  /\ dailyJobCounts \in [Principals -> Nat]
  /\ idempotencyRegistry \in [Principals -> [Keys -> Entry \cup {None}]]
  /\ job \in [JobIds -> Job \cup {None}]
  /\ overlapped \subseteq Principals

Init ==
  /\ request = [r \in Requests |-> NoHandler]
  /\ dailyJobCounts = [p \in Principals |-> 0]
  /\ idempotencyRegistry = [p \in Principals |-> [k \in Keys |-> None]]
  /\ job = [j \in JobIds |-> None]
  /\ overlapped = {}

-----------------------------------------------------------------------------
(***************************************************************************)
(* The request of p arrives.  The count read here is the one that is       *)
(* written back, plus one, at the end.                                     *)
(***************************************************************************)
QuotaLeftOffByOne(p) == dailyJobCounts[p] <= maxJobsPerDay   \* defect

QuotaLeft(p) == dailyJobCounts[p] < maxJobsPerDay

Arrive(r, p) ==
  /\ request[r].at = "none"
  /\ QuotaLeft(p)
  /\ request' = [request EXCEPT ![r] = [NoHandler EXCEPT !.at = "body", !.principal = p,
                                                         !.count = dailyJobCounts[p]]]
  /\ overlapped' = IF \E q \in Requests : request[q].principal = p
                   THEN overlapped \cup {p} ELSE overlapped
  /\ UNCHANGED <<dailyJobCounts, idempotencyRegistry, job>>

(***************************************************************************)
(* The body has been read: the registry is looked up and a known key is    *)
(* answered, with its job or with a conflict.  The concurrency quota asks  *)
(* the gateway for countActiveJobsForPrincipal, which it does not have, so *)
(* the number of active jobs is taken to be 0.                             *)
(***************************************************************************)
Registered(p, k) == k # None /\ idempotencyRegistry[p][k] # None

activeJobsCount(p) == 0

ReadBody(r, k, c) ==
  LET p == request[r].principal IN
  /\ request[r].at = "body"
  /\ request' = [request EXCEPT
                   ![r] = IF Registered(p, k) \/ activeJobsCount(p) >= maxConcurrentJobs
                          THEN NoHandler
                          ELSE [@ EXCEPT !.at = "submit", !.key = k, !.content = c]]
  /\ UNCHANGED <<dailyJobCounts, idempotencyRegistry, job, overlapped>>

(***************************************************************************)
(* gateway.submitJob.  The key is not handed on: every call makes a job of *)
(* its own.                                                                *)
(***************************************************************************)
Submit(r, j) ==
  /\ request[r].at = "submit"
  /\ job[j] = None
  /\ job' = [job EXCEPT ![j] = [principal |-> request[r].principal,
                                content |-> request[r].content,
                                key |-> request[r].key, active |-> TRUE]]
  /\ request' = [request EXCEPT ![r].at = "record", ![r].job = j]
  /\ UNCHANGED <<dailyJobCounts, idempotencyRegistry, overlapped>>

SubmitRefused(r) ==
  /\ request[r].at = "submit"
  /\ request' = [request EXCEPT ![r] = NoHandler]
  /\ UNCHANGED <<dailyJobCounts, idempotencyRegistry, job, overlapped>>

(***************************************************************************)
(* The gateway has answered: usage and key are recorded, 201 is sent.      *)
(***************************************************************************)
UsageAfter(h) == [dailyJobCounts EXCEPT ![h.principal] = h.count + 1]

KeyRecordedForAll(h) ==   \* defect: the principal is not part of the key
  [p \in Principals |->
     IF h.key = None
     THEN idempotencyRegistry[p]
     ELSE [idempotencyRegistry[p] EXCEPT ![h.key] =
             [job |-> h.job, content |-> h.content]]]

KeyRecorded(h) ==
  IF h.key = None
  THEN idempotencyRegistry
  ELSE [idempotencyRegistry EXCEPT
          ![h.principal][h.key] = [job |-> h.job, content |-> h.content]]

Record(r) ==
  /\ request[r].at = "record"
  /\ dailyJobCounts' = UsageAfter(request[r])
  /\ idempotencyRegistry' = KeyRecorded(request[r])
  /\ request' = [request EXCEPT ![r] = NoHandler]
  /\ UNCHANGED <<job, overlapped>>

(***************************************************************************)
(* A client goes away, a body is refused: the handler ends early.          *)
(***************************************************************************)
BodyRefused(r) ==
  /\ request[r].at = "body"
  /\ request' = [request EXCEPT ![r] = NoHandler]
  /\ UNCHANGED <<dailyJobCounts, idempotencyRegistry, job, overlapped>>

Finish(j) ==
  /\ job[j] # None
  /\ job[j].active
  /\ job' = [job EXCEPT ![j].active = FALSE]
  /\ UNCHANGED <<request, dailyJobCounts, idempotencyRegistry, overlapped>>

Next ==
  \/ \E r \in Requests :
       \/ \E p \in Principals : Arrive(r, p)
       \/ \E k \in Keys \cup {None}, c \in Contents : ReadBody(r, k, c)
       \/ \E j \in JobIds : Submit(r, j)
       \/ SubmitRefused(r) \/ Record(r) \/ BodyRefused(r)
  \/ \E j \in JobIds : Finish(j)

Spec == Init /\ [][Next]_vars

-----------------------------------------------------------------------------
JobsOf(p) == {j \in JobIds : job[j] # None /\ job[j].principal = p}

(***************************************************************************)
(* However the handlers interleave, a registered key leads to a job of the *)
(* same principal with the same content and the same key, so a replay      *)
(* never shows one principal the job of another, nor a wrong recovery.     *)
(***************************************************************************)
ReplayIsOwn ==
  \A p \in Principals, k \in Keys :
    idempotencyRegistry[p][k] # None =>
      LET e == idempotencyRegistry[p][k] IN
      /\ e.job \in JobsOf(p)
      /\ job[e.job].content = e.content
      /\ job[e.job].key = k

(***************************************************************************)
(* Lost updates of the usage count only ever favour the principal: what    *)
(* is counted was submitted, so nobody is refused before the quota is      *)
(* used up.                                                                *)
(***************************************************************************)
NobodyIsRefusedEarly ==
  \A p \in Principals : dailyJobCounts[p] <= Cardinality(JobsOf(p))

SameKey(i, j) ==
  /\ job[i] # None
  /\ job[j] # None
  /\ job[i].key # None
  /\ job[i].key = job[j].key
  /\ job[i].principal = job[j].principal

(***************************************************************************)
(* A principal whose requests come one after the other gets no more than   *)
(* maxJobsPerDay jobs, whatever requests of others are under way: the Maps *)
(* are only ever shared harmlessly.                                        *)
(***************************************************************************)
QuotaHoldsInSequence ==
  \A p \in Principals \ overlapped : Cardinality(JobsOf(p)) <= maxJobsPerDay

(***************************************************************************)
(* Likewise such a principal has one job per idempotency key: submitJob's  *)
(* look-up finds what the request before it created.                       *)
(***************************************************************************)
OneJobPerKeyInSequence ==
  \A p \in Principals \ overlapped :
    \A i, j \in JobsOf(p) : SameKey(i, j) => i = j

(***************************************************************************)
(* The registry and the usage count, each about both of its sides.         *)
(***************************************************************************)
KeysNameJobs == ReplayIsOwn /\ OneJobPerKeyInSequence
UsageIsFair == QuotaHoldsInSequence /\ NobodyIsRefusedEarly

==============================================================================
