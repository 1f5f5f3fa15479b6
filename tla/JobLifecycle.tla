---------------------------- MODULE JobLifecycle ----------------------------
(***************************************************************************)
(* What the job queue promises about its jobs, whatever the queue's order, *)
(* the workers, their leases and the clock do: each job goes through the   *)
(* canonical state machine of types.js within the retry budget of          *)
(* in-memory-queue.js.  One step of the queue may move several jobs (a     *)
(* reclaim moves every stale one), each by a step of its own.              *)
(***************************************************************************)
EXTENDS Integers, JobTypes

CONSTANTS
  JobIds,
  maxRetries   \* attempts after which a job is no longer retried

VARIABLES
  state,     \* each job's JobState, or "ABSENT" before it is submitted
  attempts   \* how many times it has been handed to a worker

vars == <<state, attempts>>

Init ==
  /\ state = [j \in JobIds |-> "ABSENT"]
  /\ attempts = [j \in JobIds |-> 0]

(***************************************************************************)
(* Job j moves from one of the states in From to one of those in To; it is *)
(* handed to a worker, or not.                                             *)
(***************************************************************************)
Moves(j, From, To) ==
  /\ state[j] \in From
  /\ state'[j] \in To
  /\ attempts'[j] = attempts[j]

Starts(j, From) ==
  /\ state[j] \in From
  /\ state'[j] = "RUNNING"
  /\ attempts'[j] = attempts[j] + 1

Submit(j)   == Moves(j, {"ABSENT"}, {"QUEUED"})
Lease(j)    == Starts(j, {"QUEUED"})
Complete(j) == Moves(j, {"RUNNING"}, {"COMPLETED"})
Cancel(j)   == Moves(j, {"QUEUED", "RUNNING"}, {"CANCELLED"})

\* Back to the queue, or straight to another worker.
Retry(j) ==
  /\ attempts[j] < maxRetries
  /\ Moves(j, {"RUNNING"}, {"QUEUED"}) \/ Starts(j, {"RUNNING"})

GiveUp(j) ==
  /\ attempts[j] >= maxRetries
  /\ Moves(j, {"RUNNING"}, {"FAILED", "TIMED_OUT"})

Stays(j) == state'[j] = state[j] /\ attempts'[j] = attempts[j]

JobStep(j) ==
  \/ Submit(j) \/ Lease(j) \/ Complete(j) \/ Cancel(j) \/ Retry(j)
  \/ GiveUp(j) \/ Stays(j)

Next ==
  /\ state' \in [JobIds -> JobState \cup {"ABSENT"}]
  /\ attempts' \in [JobIds -> Nat]
  /\ \A j \in JobIds : JobStep(j)

Spec == Init /\ [][Next]_vars

=============================================================================
