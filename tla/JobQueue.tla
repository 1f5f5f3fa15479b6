------------------------------ MODULE JobQueue ------------------------------
(***************************************************************************)
(* InMemoryJobQueue (packages/queue/src/in-memory-queue.js): the queue of  *)
(* recovery jobs, the leases its workers hold, the idempotency map, and    *)
(* the workers that may crash, stall past the end of their lease and come  *)
(* back with a token the queue has already taken away.                     *)
(*                                                                         *)
(* Every method of the queue is synchronous, so a call is one step.  Time  *)
(* is kept in the leases: lease.left is expiresAt - Date.now() in ticks,   *)
(* and -1 stands for every expired value.  Random lease tokens are         *)
(* modelled by what the code needs of them, that no two are equal.         *)
(***************************************************************************)
EXTENDS Ranking, JobTypes

CONSTANTS
  JobIds,          \* the job ids a caller may submit
  Keys,            \* explicit idempotency keys
  Workers,         \* processes that lease jobs
  Durations,       \* lease durations, in ticks
  maxQueueDepth,
  maxRunningJobs,
  maxRetries,
  None             \* no lease, no claim, no result, no key

ASSUME LimitsAssumption ==
  /\ maxQueueDepth \in Nat \ {0}
  /\ maxRunningJobs \in Nat \ {0}
  /\ maxRetries \in Nat

ASSUME DurationsAssumption == Durations \subseteq Nat

ASSUME KeysAssumption == Keys \cap JobIds = {}

(***************************************************************************)
(* None is not a job id, a lease, a claim or a token.                      *)
(***************************************************************************)
ASSUME NoneAssumption ==
  /\ None \notin JobIds \cup Keys \cup Nat
  /\ None \notin [job : JobIds, token : Nat]
  /\ None \notin [token : Nat, left : Int]

ASSUME JobIdsAssumption == IsFiniteSet(JobIds)

(***************************************************************************)
(* A definition marked "defect" is the next one as a plausible mistake     *)
(* would write it.  No action uses it: it is there to show, put in place   *)
(* of the right one, that a property notices.                              *)
(***************************************************************************)
VARIABLES
  state,            \* job.state, "ABSENT" for an id not yet in the map
  attempts,         \* job.attempts
  idempotencyKey,   \* job.idempotencyKey
  result,           \* the token under which job.result was written
  idempotencyMap,   \* key -> job id
  waitingQueue,     \* queued job ids, the next one to lease first
  leases,           \* job id -> lease
  issued,           \* how many lease tokens have been drawn
  claim             \* worker -> the job and token it was last given

vars == <<state, attempts, idempotencyKey, result, idempotencyMap,
          waitingQueue, leases, issued, claim>>

jobVars == <<state, attempts, idempotencyKey, result>>

Lease == [token : Nat, left : Int]
Claim == [job : JobIds, token : Nat]

(***************************************************************************)
(* The type invariant: each Map and array of InMemoryQueueAdapter holds    *)
(* what its methods put there, for jobs that have the states of types.js.  *)
(***************************************************************************)
TypeOK ==
  /\ state \in [JobIds -> JobState \cup {"ABSENT"}]
  /\ attempts \in [JobIds -> Nat]
  /\ idempotencyKey \in [JobIds -> Keys \cup JobIds \cup {None}]
  /\ result \in [JobIds -> Nat \cup {None}]
  /\ idempotencyMap \in [Keys \cup JobIds -> JobIds \cup {None}]
  /\ waitingQueue \in Seq(JobIds)
  /\ leases \in [JobIds -> Lease \cup {None}]
  /\ issued \in Nat
  /\ claim \in [Workers -> Claim \cup {None}]

Init ==
  /\ state = [j \in JobIds |-> "ABSENT"]
  /\ attempts = [j \in JobIds |-> 0]
  /\ idempotencyKey = [j \in JobIds |-> None]
  /\ result = [j \in JobIds |-> None]
  /\ idempotencyMap = [k \in Keys \cup JobIds |-> None]
  /\ waitingQueue = <<>>
  /\ leases = [j \in JobIds |-> None]
  /\ issued = 0
  /\ claim = [w \in Workers |-> None]

-----------------------------------------------------------------------------
(***************************************************************************)
(* Submission.  j is an id nobody has used: the gateway draws it at random *)
(* for every call.  Without an explicit key the id is its own key.         *)
(*                                                                         *)
(* A repeated key and a full queue are answered without a change of state  *)
(* (isDuplicate, BACKPRESSURE_EXCEEDED) and need no step.                  *)
(***************************************************************************)
KeyIsFreeUnchecked(k) == TRUE   \* defect: keys are not looked up

KeyIsFree(k) == idempotencyMap[k] = None

Enqueue(j, k) ==
  /\ state[j] = "ABSENT"
  /\ KeyIsFree(k)
  /\ Len(waitingQueue) < maxQueueDepth
  /\ state' = [state EXCEPT ![j] = "QUEUED"]
  /\ idempotencyKey' = [idempotencyKey EXCEPT ![j] = k]
  /\ idempotencyMap' = [idempotencyMap EXCEPT ![k] = j]
  /\ waitingQueue' = Append(waitingQueue, j)
  /\ UNCHANGED <<attempts, result, leases, issued, claim>>

-----------------------------------------------------------------------------
(***************************************************************************)
(* _reclaimStaleLeases, as the values the state has after it.  Leases are  *)
(* visited in the order they were granted and every job that may run again *)
(* is put at the FRONT, so the last one visited ends up first.             *)
(***************************************************************************)
Held == {j \in JobIds : leases[j] # None}

StaleNever == {}   \* defect: no lease is ever seen as expired

Stale == {j \in Held : leases[j].left < 0}

MayRetry(j) == attempts[j] < maxRetries

PutBackLast(jobs) == waitingQueue \o jobs   \* defect: push for unshift

PutBack(jobs) == jobs \o waitingQueue

Reenqueued == {j \in Stale : state[j] = "RUNNING" /\ MayRetry(j)}

ReclaimedState ==
  [j \in JobIds |->
     IF j \in Reenqueued THEN "QUEUED"
     ELSE IF j \in Stale /\ state[j] = "RUNNING" THEN "TIMED_OUT"
     ELSE state[j]]

ReclaimedLeasesKept == leases   \* defect: the lease is not deleted

ReclaimedLeases == [j \in JobIds |-> IF j \in Stale THEN None ELSE leases[j]]

ReclaimedQueue ==
  PutBack(Ranked(Reenqueued, [j \in Reenqueued |-> -leases[j].token]))

Running == Held \ Stale   \* the lease holders a reclaim leaves

(***************************************************************************)
(* leaseNextJob for a worker that has nothing to do: stale leases are      *)
(* reclaimed first, whether or not a job is then handed out.               *)
(***************************************************************************)
CanLeaseOneMore ==   \* defect: off by one
  /\ Cardinality(Running) <= maxRunningJobs
  /\ ReclaimedQueue # <<>>

CanLease ==
  /\ Cardinality(Running) < maxRunningJobs
  /\ ReclaimedQueue # <<>>

LeaseNothing(w) ==
  /\ claim[w] = None
  /\ ~CanLease
  /\ state' = ReclaimedState
  /\ leases' = ReclaimedLeases
  /\ waitingQueue' = ReclaimedQueue
  /\ UNCHANGED <<attempts, idempotencyKey, result, idempotencyMap, issued,
                 claim>>

NewTokenReused == 1   \* defect: tokens are not fresh

NewToken == issued + 1

TimeLeftUnset(duration) == None   \* defect: no default, expiresAt is NaN

TimeLeft(duration) == duration

LeaseNextJob(w, duration) ==
  LET j     == Head(ReclaimedQueue)
      token == NewToken
      grant == ReclaimedState[j] = "QUEUED"
  IN
  /\ claim[w] = None
  /\ CanLease
  /\ waitingQueue' = Tail(ReclaimedQueue)
  /\ state' = IF grant THEN [ReclaimedState EXCEPT ![j] = "RUNNING"]
                       ELSE ReclaimedState
  /\ attempts' = IF grant THEN [attempts EXCEPT ![j] = @ + 1] ELSE attempts
  /\ leases' = IF grant
               THEN [ReclaimedLeases EXCEPT
                       ![j] = [token |-> token, left |-> TimeLeft(duration)]]
               ELSE ReclaimedLeases
  /\ issued' = IF grant THEN token ELSE issued
  /\ claim' = IF grant
              THEN [claim EXCEPT ![w] = [job |-> j, token |-> token]]
              ELSE claim
  /\ UNCHANGED <<idempotencyKey, result, idempotencyMap>>

(***************************************************************************)
(* getStats, called by the readiness probe, reclaims as well.              *)
(***************************************************************************)
GetStats ==
  /\ state' = ReclaimedState
  /\ leases' = ReclaimedLeases
  /\ waitingQueue' = ReclaimedQueue
  /\ UNCHANGED <<attempts, idempotencyKey, result, idempotencyMap, issued,
                 claim>>

-----------------------------------------------------------------------------
(***************************************************************************)
(* The calls of a worker about the job it was given.  Its token may be     *)
(* one the queue no longer knows; the queue then answers false, and a      *)
(* worker that has reported forgets the job whatever the answer.           *)
(***************************************************************************)
TokenIsNotCompared(w) == leases[claim[w].job] # None   \* defect

TokenIsCurrent(w) ==
  /\ leases[claim[w].job] # None
  /\ leases[claim[w].job].token = claim[w].token

(***************************************************************************)
(* heartbeat: an expired lease is not extended, even if nobody reclaimed   *)
(* it yet.  Without an extension of the caller's, the lease's own duration *)
(* is used, which is one of Durations too.                                 *)
(***************************************************************************)
Heartbeat(w, extension) ==
  /\ claim[w] # None
  /\ TokenIsCurrent(w)
  /\ leases[claim[w].job].left >= 0
  /\ leases' = [leases EXCEPT ![claim[w].job].left = extension]
  /\ UNCHANGED <<jobVars, idempotencyMap, waitingQueue, issued, claim>>

(***************************************************************************)
(* completeJob: the lease is looked up by token only, so an answer that    *)
(* arrives after the lease ran out but before it is reclaimed counts.      *)
(***************************************************************************)
CompleteJob(w) ==
  LET j == claim[w].job IN
  /\ claim[w] # None
  /\ TokenIsCurrent(w)
  /\ isValidTransition(state[j], "COMPLETED")
  /\ state' = [state EXCEPT ![j] = "COMPLETED"]
  /\ result' = [result EXCEPT ![j] = claim[w].token]
  /\ leases' = [leases EXCEPT ![j] = None]
  /\ claim' = [claim EXCEPT ![w] = None]
  /\ UNCHANGED <<attempts, idempotencyKey, idempotencyMap, waitingQueue,
                 issued>>

(***************************************************************************)
(* failJob: back to the front of the queue, or FAILED when the attempts    *)
(* are used up.                                                            *)
(***************************************************************************)
FailJob(w) ==
  LET j     == claim[w].job
      again == MayRetry(j)
  IN
  /\ claim[w] # None
  /\ TokenIsCurrent(w)
  /\ state' = [state EXCEPT ![j] = IF again THEN "QUEUED" ELSE "FAILED"]
  /\ waitingQueue' = IF again THEN PutBack(<<j>>) ELSE waitingQueue
  /\ leases' = [leases EXCEPT ![j] = None]
  /\ claim' = [claim EXCEPT ![w] = None]
  /\ UNCHANGED <<attempts, idempotencyKey, result, idempotencyMap, issued>>

(***************************************************************************)
(* The worker reports under a token the queue refuses, or dies: either way *)
(* it is free again and the queue has not changed.                         *)
(***************************************************************************)
Forget(w) ==
  /\ claim[w] # None
  /\ claim' = [claim EXCEPT ![w] = None]
  /\ UNCHANGED <<jobVars, idempotencyMap, waitingQueue, leases, issued>>

-----------------------------------------------------------------------------
(***************************************************************************)
(* cancelJob: from any state that is not terminal, whoever holds a lease.  *)
(***************************************************************************)
CancellableAlways(j) == state[j] # "ABSENT"   \* defect: terminal jobs too

Cancellable(j) == state[j] \notin TERMINAL_STATES \cup {"ABSENT"}

CancelJob(j) ==
  /\ Cancellable(j)
  /\ state' = [state EXCEPT ![j] = "CANCELLED"]
  /\ leases' = [leases EXCEPT ![j] = None]
  /\ waitingQueue' = Without(waitingQueue, j)
  /\ UNCHANGED <<attempts, idempotencyKey, result, idempotencyMap, issued,
                 claim>>

(***************************************************************************)
(* Time passes for every lease; an expired one stays expired.              *)
(***************************************************************************)
Tick ==
  /\ \E j \in Held : leases[j].left >= 0
  /\ leases' = [j \in JobIds |->
                  IF j \in Held /\ leases[j].left >= 0
                  THEN [leases[j] EXCEPT !.left = @ - 1]
                  ELSE leases[j]]
  /\ UNCHANGED <<jobVars, idempotencyMap, waitingQueue, issued, claim>>

-----------------------------------------------------------------------------
Next ==
  \/ \E j \in JobIds : \E k \in Keys \cup {j} : Enqueue(j, k)
  \/ \E w \in Workers :
       \/ LeaseNothing(w)
       \/ \E d \in Durations : LeaseNextJob(w, d)
       \/ \E d \in Durations : Heartbeat(w, d)
       \/ CompleteJob(w)
       \/ FailJob(w)
       \/ Forget(w)
  \/ GetStats
  \/ \E j \in JobIds : CancelJob(j)
  \/ Tick

Spec == Init /\ [][Next]_vars

(***************************************************************************)
(* Worker nodes keep asking for work, a worker that has a job reports,     *)
(* loses its token or dies within finite time, and the clock advances.     *)
(***************************************************************************)
Fairness ==
  /\ \A w \in Workers :
       /\ WF_vars(LeaseNothing(w) \/ \E d \in Durations : LeaseNextJob(w, d))
       /\ WF_vars(CompleteJob(w) \/ FailJob(w) \/ Forget(w))
  /\ WF_vars(Tick)

FairSpec == Spec /\ Fairness

-----------------------------------------------------------------------------
(***************************************************************************)
(* The waiting queue is exactly the set of QUEUED jobs, each of them once: *)
(* no order of leases, retries, reclaims and cancellations loses a job or  *)
(* queues it twice.                                                        *)
(***************************************************************************)
QueueHoldsTheQueued ==
  /\ Distinct(waitingQueue)
  /\ Entries(waitingQueue) = {j \in JobIds : state[j] = "QUEUED"}

(***************************************************************************)
(* A job has a lease exactly while it is RUNNING, so every running job is  *)
(* watched by the reclaim and no other job is.                             *)
(***************************************************************************)
LeasedIffRunning == Held = {j \in JobIds : state[j] = "RUNNING"}

(***************************************************************************)
(* Both at once: whatever order leases, retries, reclaims, cancellations   *)
(* and restarts of a worker come in, every job is in exactly the one place *)
(* its state names, so none is lost, queued twice or run unwatched.        *)
(***************************************************************************)
PlacesAreExact == QueueHoldsTheQueued /\ LeasedIffRunning

(***************************************************************************)
(* No two workers hold the same token, and no claim is newer than the      *)
(* job's lease: once a job is handed to another worker, the earlier one    *)
(* can no longer speak for it.                                             *)
(***************************************************************************)
OneHolderPerLease ==
  \A w \in Workers :
    claim[w] # None =>
      /\ \A v \in Workers \ {w} :
           claim[v] # None => claim[v].token # claim[w].token
      /\ \A j \in Held :
           \/ claim[w].token # leases[j].token
           \/ claim[w].job = j
      /\ claim[w].job \in Held =>
           claim[w].token <= leases[claim[w].job].token

(***************************************************************************)
(* The result of a job was written under the newest token ever given for   *)
(* it: the answer of a worker that stalled past its lease never becomes    *)
(* the result of a job that was handed to somebody else meanwhile.         *)
(***************************************************************************)
ResultIsNewest ==
  \A j \in JobIds :
    /\ state[j] = "COMPLETED" <=> result[j] # None
    /\ \A w \in Workers :
         /\ result[j] # None
         /\ claim[w] # None
         => claim[w].job # j \/ claim[w].token < result[j]

(***************************************************************************)
(* A job is where its state says, one worker at most can speak for it, and *)
(* its result is that of the worker it was last handed to, although        *)
(* workers stall past their leases, come back, restart and answer late.    *)
(***************************************************************************)
ClaimsAreExact == PlacesAreExact /\ OneHolderPerLease /\ ResultIsNewest

(***************************************************************************)
(* Retries bypass the depth check of enqueue and go to the front.  All the *)
(* same the jobs waiting and running together stay within both limits, and *)
(* no more than maxRunningJobs run.                                        *)
(***************************************************************************)
BacklogBound ==
  /\ Cardinality(Held) <= maxRunningJobs
  /\ Len(waitingQueue) + Cardinality(Held) <= maxQueueDepth + maxRunningJobs

(***************************************************************************)
(* No job is leased more often than its retries allow, and one that waits  *)
(* to be retried has a try left (failJob and reclaimStaleLeases).          *)
(***************************************************************************)
AttemptsWithinBudget ==
  \A j \in JobIds :
    /\ attempts[j] <= IF maxRetries = 0 THEN 1 ELSE maxRetries
    /\ state[j] = "QUEUED" /\ attempts[j] > 0 => attempts[j] < maxRetries

(***************************************************************************)
(* A job that already ran never waits behind one that has not run yet.     *)
(***************************************************************************)
RetriesGoFirst ==
  \A i, k \in DOMAIN waitingQueue :
    i < k /\ attempts[waitingQueue[k]] > 0 => attempts[waitingQueue[i]] > 0

(***************************************************************************)
(* What retries may do, though they pass the checks of enqueue by: the     *)
(* backlog stays within both limits, no job is tried more often than its   *)
(* budget, and a job that already ran is not overtaken by a new one.       *)
(***************************************************************************)
RetriesAreOrderly == BacklogBound /\ AttemptsWithinBudget /\ RetriesGoFirst

(***************************************************************************)
(* One job per idempotency key, and the map leads to it, so a repeated     *)
(* submission is answered with the job the first one created.              *)
(***************************************************************************)
OneJobPerKey ==
  \A j \in JobIds :
    state[j] # "ABSENT" => /\ idempotencyKey[j] # None
                          /\ idempotencyMap[idempotencyKey[j]] = j

Life == INSTANCE JobLifecycle WITH state <- state, attempts <- attempts

(***************************************************************************)
(* The queue implements JobLifecycle (types.js): a job is retried only     *)
(* while attempts are left, given up only when they are used up, and never *)
(* touched again once terminal.                                            *)
(***************************************************************************)
JobsFollowTheirLifecycle == Life!Spec

(***************************************************************************)
(* Every accepted job reaches a terminal state, whatever its workers do.   *)
(***************************************************************************)
EveryJobSettles ==
  \A j \in JobIds : state[j] # "ABSENT" ~> state[j] \in TERMINAL_STATES

=============================================================================
