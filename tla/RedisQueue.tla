----------------------------- MODULE RedisQueue -----------------------------
(***************************************************************************)
(* RedisQueueAdapter (packages/queue/src/redis-queue-adapter.js) against a *)
(* real server: each Redis command is atomic, but a method is several      *)
(* commands with an await between them, so methods of different processes  *)
(* interleave, a process may die between two commands, and the lease key   *)
(* may run out (SET ... EX) at any time.                                   *)
(*                                                                         *)
(* A process is at the command it will send next.  doc is the copy of the  *)
(* job it parsed from an earlier reply, which it later writes back.        *)
(***************************************************************************)
EXTENDS Ranking, JobTypes

CONSTANTS
  JobIds, Keys,
  Producers,       \* processes that call enqueue
  Consumers,       \* processes that lease jobs and report on them
  maxQueueDepth,
  maxRetries,
  Faults,          \* which of "crash" and "expiry" happen
  None

ASSUME LimitsAssumption ==
  maxQueueDepth \in Nat \ {0} /\ maxRetries \in Nat

ASSUME FaultsAssumption == Faults \subseteq {"crash", "expiry"}

ASSUME ProcessesAssumption == Producers \cap Consumers = {}

Doc == [state : JobState, attempts : Nat, idempotencyKey : Keys \cup JobIds]

\* None is not a job id, a key or a job document.
ASSUME NoneAssumption == None \notin JobIds \cup Keys \cup Doc

VARIABLES
  job,       \* the job:<id> keys
  waiting,   \* the waiting list; its first element is the next to RPOP
  idemp,     \* the idemp:<key> keys
  lease,     \* the lease:<id> keys: the token stored there
  issued,    \* how many tokens have been drawn
  abandoned, \* history: the jobs whose process died or whose lease ran out
  proc       \* what each process is doing

redis == <<job, waiting, idemp, lease>>
vars == <<redis, issued, abandoned, proc>>

EnqueueSteps == {"LLEN", "SET job", "LPUSH", "SET idemp"}
LeaseSteps == {"GET popped", "SET running", "SET lease"}
CompleteSteps == {"GET completed", "SET completed", "DEL lease"}
FailSteps == {"DEL failed lease", "SET failed", "RPUSH"}

Local ==
  [at : {"idle", "working"} \cup EnqueueSteps \cup LeaseSteps
          \cup CompleteSteps \cup FailSteps,
   id : JobIds \cup {None}, key : Keys \cup JobIds \cup {None},
   doc : Doc \cup {None}, token : Nat \cup {None}]

Idle == [at |-> "idle", id |-> None, key |-> None, doc |-> None, token |-> None]

(***************************************************************************)
(* The type invariant: the Redis keys of the queue, and what the methods   *)
(* of RedisQueueAdapter that are under way have read of them.              *)
(***************************************************************************)
TypeOK ==
  /\ job \in [JobIds -> Doc \cup {None}]
  /\ waiting \in Seq(JobIds)
  /\ idemp \in [Keys \cup JobIds -> JobIds \cup {None}]
  /\ lease \in [JobIds -> Nat \cup {None}]
  /\ issued \in Nat
  /\ abandoned \subseteq JobIds
  /\ proc \in [Producers \cup Consumers -> Local]

Init ==
  /\ job = [j \in JobIds |-> None]
  /\ waiting = <<>>
  /\ idemp = [k \in Keys \cup JobIds |-> None]
  /\ lease = [j \in JobIds |-> None]
  /\ issued = 0
  /\ abandoned = {}
  /\ proc = [p \in Producers \cup Consumers |-> Idle]

\* p, which is at step `from`, goes on to step `to`; or its call returns.
GoTo(p, from, to) ==
  /\ proc[p].at = from
  /\ proc' = [proc EXCEPT ![p].at = to]

Return(p, from) ==
  /\ proc[p].at = from
  /\ proc' = [proc EXCEPT ![p] = Idle]

-----------------------------------------------------------------------------
(***************************************************************************)
(* enqueue.  Ids are drawn at random by the caller: j is in no call and in *)
(* no key.  A key that is already there is answered with the existing job, *)
(* which changes nothing.                                                  *)
(***************************************************************************)
Unused(j) == job[j] = None /\ \A p \in Producers : proc[p].id # j

EnqueueLookup(p, j, k) ==
  /\ proc[p].at = "idle"
  /\ Unused(j)
  /\ idemp[k] = None
  /\ proc' = [proc EXCEPT ![p] = [Idle EXCEPT !.at = "LLEN", !.id = j, !.key = k]]
  /\ UNCHANGED <<redis, issued, abandoned>>

HasRoom == Len(waiting) < maxQueueDepth

EnqueueDepth(p) ==
  /\ IF HasRoom THEN GoTo(p, "LLEN", "SET job")
                ELSE Return(p, "LLEN")
  /\ UNCHANGED <<redis, issued, abandoned>>

EnqueueSetJob(p) ==
  /\ GoTo(p, "SET job", "LPUSH")
  /\ job' = [job EXCEPT ![proc[p].id] = [state |-> "QUEUED", attempts |-> 0,
                                         idempotencyKey |-> proc[p].key]]
  /\ UNCHANGED <<waiting, idemp, lease, issued, abandoned>>

EnqueuePush(p) ==
  /\ GoTo(p, "LPUSH", "SET idemp")
  /\ waiting' = Append(waiting, proc[p].id)
  /\ UNCHANGED <<job, idemp, lease, issued, abandoned>>

EnqueueSetIdemp(p) ==
  /\ Return(p, "SET idemp")
  /\ idemp' = [idemp EXCEPT ![proc[p].key] = proc[p].id]
  /\ UNCHANGED <<job, waiting, lease, issued, abandoned>>

-----------------------------------------------------------------------------
(***************************************************************************)
(* leaseNextJob.  Nothing here looks at other leases: the adapter has no   *)
(* reclaim and no limit on running jobs.                                   *)
(***************************************************************************)
PopCopies(q) == q   \* defect: the head is read, not removed

Pop(q) == Tail(q)

LeasePop(c) ==
  /\ proc[c].at = "idle"
  /\ waiting # <<>>
  /\ waiting' = Pop(waiting)
  /\ proc' = [proc EXCEPT ![c] = [Idle EXCEPT !.at = "GET popped", !.id = Head(waiting)]]
  /\ UNCHANGED <<job, idemp, lease, issued, abandoned>>

LeaseGetJob(c) ==
  LET doc == job[proc[c].id]
      usable == doc # None /\ doc.state = "QUEUED"
  IN
  /\ proc[c].at = "GET popped"
  /\ proc' = [proc EXCEPT
                ![c] = IF usable THEN [@ EXCEPT !.at = "SET running", !.doc = doc]
                                 ELSE Idle]
  /\ UNCHANGED <<redis, issued, abandoned>>

Attempt(doc) == [doc EXCEPT !.state = "RUNNING", !.attempts = @ + 1]

LeaseSetJob(c) ==
  /\ proc[c].at = "SET running"
  /\ job' = [job EXCEPT ![proc[c].id] = Attempt(proc[c].doc)]
  /\ issued' = issued + 1
  /\ proc' = [proc EXCEPT ![c].at = "SET lease", ![c].token = issued + 1]
  /\ UNCHANGED <<waiting, idemp, lease, abandoned>>

LeaseSetLease(c) ==
  /\ GoTo(c, "SET lease", "working")
  /\ lease' = [lease EXCEPT ![proc[c].id] = proc[c].token]
  /\ UNCHANGED <<job, waiting, idemp, issued, abandoned>>

-----------------------------------------------------------------------------
(***************************************************************************)
(* completeJob: refused when the lease key is gone or holds another token. *)
(***************************************************************************)
CompleteGetLease(c) ==
  /\ proc[c].at = "working"
  /\ IF lease[proc[c].id] = proc[c].token
     THEN GoTo(c, "working", "GET completed")
     ELSE Return(c, "working")
  /\ UNCHANGED <<redis, issued, abandoned>>

CompleteGetJob(c) ==
  LET doc == job[proc[c].id] IN
  /\ proc[c].at = "GET completed"
  /\ proc' = [proc EXCEPT
                ![c] = IF isValidTransition(doc.state, "COMPLETED")
                       THEN [@ EXCEPT !.at = "SET completed", !.doc = doc]
                       ELSE Idle]
  /\ UNCHANGED <<redis, issued, abandoned>>

CompleteSetJob(c) ==
  /\ GoTo(c, "SET completed", "DEL lease")
  /\ job' = [job EXCEPT ![proc[c].id] = [proc[c].doc EXCEPT !.state = "COMPLETED"]]
  /\ UNCHANGED <<waiting, idemp, lease, issued, abandoned>>

CompleteDelLease(c) ==
  /\ Return(c, "DEL lease")
  /\ lease' = [lease EXCEPT ![proc[c].id] = None]
  /\ UNCHANGED <<job, waiting, idemp, issued, abandoned>>

-----------------------------------------------------------------------------
(***************************************************************************)
(* failJob: the token is not looked at, the lease is deleted in any case.  *)
(***************************************************************************)
FailGetJob(c) ==
  /\ proc[c].at = "working"
  /\ proc' = [proc EXCEPT ![c].at = "DEL failed lease", ![c].doc = job[proc[c].id]]
  /\ UNCHANGED <<redis, issued, abandoned>>

FailDelLease(c) ==
  /\ GoTo(c, "DEL failed lease", "SET failed")
  /\ lease' = [lease EXCEPT ![proc[c].id] = None]
  /\ UNCHANGED <<job, waiting, idemp, issued, abandoned>>

MayRetryOnceMore(doc) == doc.attempts <= maxRetries   \* defect: off by one

MayRetry(doc) == doc.attempts < maxRetries

FailSetJob(c) ==
  LET doc == proc[c].doc
      again == MayRetry(doc)
  IN
  /\ proc[c].at = "SET failed"
  /\ IF again THEN GoTo(c, "SET failed", "RPUSH") ELSE Return(c, "SET failed")
  /\ job' = [job EXCEPT
               ![proc[c].id] = [doc EXCEPT !.state = IF again THEN "QUEUED"
                                                             ELSE "FAILED"]]
  /\ UNCHANGED <<waiting, idemp, lease, issued, abandoned>>

RetriedForgotten(j) == waiting   \* defect: a retry is not pushed

Retried(j) == <<j>> \o waiting

FailPush(c) ==
  /\ Return(c, "RPUSH")
  /\ waiting' = Retried(proc[c].id)
  /\ UNCHANGED <<job, idemp, lease, issued, abandoned>>

-----------------------------------------------------------------------------
(***************************************************************************)
(* Faults: the server drops a lease key at the end of its TTL; a process   *)
(* dies and starts again without memory of its call.                       *)
(***************************************************************************)
LeaseExpires(j) ==
  /\ "expiry" \in Faults
  /\ lease[j] # None
  /\ lease' = [lease EXCEPT ![j] = None]
  /\ abandoned' = abandoned \cup {j}
  /\ UNCHANGED <<job, waiting, idemp, issued, proc>>

Crash(p) ==
  /\ "crash" \in Faults
  /\ proc[p] # Idle
  /\ proc' = [proc EXCEPT ![p] = Idle]
  /\ abandoned' = abandoned \cup ({proc[p].id} \ {None})
  /\ UNCHANGED <<redis, issued>>

Lookup(p) == \E j \in JobIds : \E k \in Keys \cup {j} : EnqueueLookup(p, j, k)

Enqueueing(p) ==
  EnqueueDepth(p) \/ EnqueueSetJob(p) \/ EnqueuePush(p) \/ EnqueueSetIdemp(p)

Leasing(c) == LeasePop(c) \/ LeaseGetJob(c) \/ LeaseSetJob(c) \/ LeaseSetLease(c)

Reporting(c) ==
  \/ CompleteGetLease(c) \/ CompleteGetJob(c) \/ CompleteSetJob(c)
  \/ CompleteDelLease(c)
  \/ FailGetJob(c) \/ FailDelLease(c) \/ FailSetJob(c) \/ FailPush(c)

Next ==
  \/ \E p \in Producers : Lookup(p) \/ Enqueueing(p)
  \/ \E c \in Consumers : Leasing(c) \/ Reporting(c)
  \/ \E j \in JobIds : LeaseExpires(j)
  \/ \E p \in Producers \cup Consumers : Crash(p)

Spec == Init /\ [][Next]_vars

(***************************************************************************)
(* A call that has begun goes on, and consumers keep polling.              *)
(***************************************************************************)
Fairness ==
  /\ \A p \in Producers : WF_vars(Enqueueing(p))
  /\ \A c \in Consumers : WF_vars(Leasing(c)) /\ WF_vars(Reporting(c))

FairSpec == Spec /\ Fairness

-----------------------------------------------------------------------------
(***************************************************************************)
(* RPOP is the only claim: whatever crashes and expires, a job is in the   *)
(* hands of one consumer at most, is not waiting for a second one at the   *)
(* same time, and is never in the list twice.                              *)
(***************************************************************************)
OneConsumerPerJob ==
  /\ Distinct(waiting)
  /\ \A c \in Consumers :
       proc[c].id # None =>
         /\ proc[c].id \notin Entries(waiting)
         /\ \A d \in Consumers \ {c} : proc[d].id # proc[c].id

Life ==
  INSTANCE JobLifecycle WITH
    state    <- [j \in JobIds |-> IF job[j] = None THEN "ABSENT" ELSE job[j].state],
    attempts <- [j \in JobIds |-> IF job[j] = None THEN 0 ELSE job[j].attempts]

(***************************************************************************)
(* The copies that processes write back never undo what another one wrote: *)
(* each job still follows the life cycle of types.js with its retry        *)
(* budget.                                                                 *)
(***************************************************************************)
JobsFollowTheirLifecycle == Life!Spec

Settled(j) == job[j] # None /\ job[j].state \in TERMINAL_STATES

(***************************************************************************)
(* A fault costs the one job it hits: of the jobs that reached Redis none  *)
(* stays unsettled for ever, unless the process that held that job died or *)
(* its own lease ran out.                                                  *)
(***************************************************************************)
EveryJobSettles ==
  []<>(\A j \in JobIds : job[j] # None => Settled(j) \/ j \in abandoned)

RunningWithoutLease(j) ==
  /\ job[j] # None
  /\ job[j].state = "RUNNING"
  /\ lease[j] = None

(***************************************************************************)
(* docs/job-lifecycle.md, "Stale Lease Recovery": a RUNNING job whose      *)
(* lease has run out is put back in the queue or given up.                 *)
(***************************************************************************)
StaleLeaseIsRecovered ==
  \A j \in JobIds : RunningWithoutLease(j) ~> ~RunningWithoutLease(j)

=============================================================================
