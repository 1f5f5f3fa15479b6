--------------------------- MODULE JobQueue_proofs ---------------------------
(***************************************************************************)
(* Proofs about JobQueue, for any number of jobs, keys and workers, any    *)
(* limits and any lease durations: types and places, the life cycle, who   *)
(* may speak for a job, and the order of the queue.                        *)
(***************************************************************************)
EXTENDS JobQueue, Ranking_proofs

(***************************************************************************)
(* The tokens of the leases in force are ones that have been drawn, and no *)
(* two leases share one: it makes the order of a reclaim well defined.     *)
(***************************************************************************)
TokensDrawn ==
  /\ \A j \in Held : leases[j].token \in 1 .. issued
  /\ \A i, j \in Held : leases[i].token = leases[j].token => i = j

IInv ==
  /\ TypeOK
  /\ QueueHoldsTheQueued
  /\ LeasedIffRunning
  /\ TokensDrawn

-----------------------------------------------------------------------------
(***************************************************************************)
(* What a reclaim leaves: the queue holds the queued jobs, the leases are  *)
(* those of the running ones, and both have their types.                   *)
(***************************************************************************)
LEMMA ReclaimKeepsTypes ==
  ASSUME IInv
  PROVE  /\ ReclaimedState \in [JobIds -> JobState \cup {"ABSENT"}]
         /\ ReclaimedLeases \in [JobIds -> Lease \cup {None}]
         /\ {j \in JobIds : ReclaimedLeases[j] # None} = Running
         /\ {j \in JobIds : ReclaimedState[j] = "RUNNING"} = Running
         /\ \A j \in Running : ReclaimedLeases[j] = leases[j]
<1> USE DEF IInv, TypeOK, JobState
<1>1. ReclaimedState \in [JobIds -> JobState \cup {"ABSENT"}]
  BY DEF ReclaimedState
<1>2. ReclaimedLeases \in [JobIds -> Lease \cup {None}]
  BY DEF ReclaimedLeases
<1>3. {j \in JobIds : ReclaimedLeases[j] # None} = Running
  BY DEF ReclaimedLeases, Running, Held, Stale
<1>4. {j \in JobIds : ReclaimedState[j] = "RUNNING"} = Running
  BY DEF ReclaimedState, Running, LeasedIffRunning, Held, Stale, Reenqueued
<1>5. \A j \in Running : ReclaimedLeases[j] = leases[j]
  BY DEF ReclaimedLeases, Running, Held, Stale
<1> QED BY <1>1, <1>2, <1>3, <1>4, <1>5

(***************************************************************************)
(* The queue reclaimStaleLeases leaves holds the queued jobs, each once:   *)
(* those it held and those that are put back.                              *)
(***************************************************************************)
LEMMA ReclaimKeepsQueue ==
  ASSUME IInv
  PROVE  /\ ReclaimedQueue \in Seq(JobIds)
         /\ Distinct(ReclaimedQueue)
         /\ Entries(ReclaimedQueue) = {j \in JobIds : ReclaimedState[j] = "QUEUED"}
         /\ Len(ReclaimedQueue) = Len(waitingQueue) + Cardinality(Reenqueued)
<1> DEFINE rank == [j \in Reenqueued |-> -leases[j].token]
           back == Ranked(Reenqueued, rank)
<1>1. Reenqueued \subseteq JobIds /\ IsFiniteSet(Reenqueued)
  <2>1. Reenqueued \subseteq JobIds
    BY DEF Reenqueued, Stale, Held
  <2> QED BY <2>1, JobIdsAssumption, FS_Subset
<1>2. \A j \in Reenqueued : j \in Held /\ leases[j].token \in Nat
  BY NoneAssumption DEF IInv, TypeOK, Lease, Reenqueued, Stale, Held
<1>3. rank \in [Reenqueued -> Int]
  BY <1>2
<1>4. \A e, g \in Reenqueued : rank[e] = rank[g] => e = g
  <2>1. \A e, g \in Reenqueued : -leases[e].token = -leases[g].token
          => leases[e].token = leases[g].token
    BY <1>2
  <2> QED BY <1>2, <2>1 DEF IInv, TokensDrawn
<1>5. /\ back \in Seq(Reenqueued) /\ Len(back) = Cardinality(Reenqueued)
      /\ Entries(back) = Reenqueued /\ Distinct(back)
  <2> HIDE DEF rank
  <2> QED BY <1>1, <1>3, <1>4, RankedLists
<1>6. back \in Seq(JobIds)
  BY <1>1, <1>5
<1>7. ReclaimedQueue = back \o waitingQueue
  BY DEF ReclaimedQueue, PutBack
<1>8. Entries(back) \cap Entries(waitingQueue) = {}
  BY <1>5 DEF Reenqueued, IInv, QueueHoldsTheQueued
<1>9. waitingQueue \in Seq(JobIds) /\ Distinct(waitingQueue)
  BY DEF IInv, TypeOK, QueueHoldsTheQueued
<1>10. Entries(back) \cup Entries(waitingQueue)
         = {j \in JobIds : ReclaimedState[j] = "QUEUED"}
  <2>1. \A j \in JobIds : ReclaimedState[j] = "QUEUED"
           <=> j \in Reenqueued \/ state[j] = "QUEUED"
    BY DEF ReclaimedState, Reenqueued
  <2> QED BY <1>1, <1>5, <2>1 DEF IInv, QueueHoldsTheQueued
<1> HIDE DEF back, rank
<1> QED BY <1>5, <1>6, <1>7, <1>8, <1>9, <1>10, ConcatEntries

-----------------------------------------------------------------------------
(***************************************************************************)
(* One lemma per action: it preserves the inductive invariant.             *)
(***************************************************************************)
LEMMA InitIInv == Init => IInv
<1> SUFFICES ASSUME Init PROVE IInv
  OBVIOUS
<1>1. TypeOK
  BY DEF Init, TypeOK
<1>2. QueueHoldsTheQueued
  BY DEF Init, QueueHoldsTheQueued, Distinct, Entries
<1>3. Held = {}
  BY DEF Init, Held
<1> QED BY <1>1, <1>2, <1>3 DEF IInv, Init, LeasedIffRunning, TokensDrawn

(***************************************************************************)
(* enqueue keeps the invariant: the job it adds was not in the queue.      *)
(***************************************************************************)
LEMMA EnqueueIInv ==
  ASSUME IInv, NEW j \in JobIds, NEW k \in Keys \cup {j}, Enqueue(j, k)
  PROVE  IInv'
<1> USE DEF IInv, Enqueue
<1>1. j \notin Entries(waitingQueue) /\ waitingQueue \in Seq(JobIds)
  BY DEF TypeOK, QueueHoldsTheQueued
<1>2. /\ waitingQueue' \in Seq(JobIds)
      /\ Entries(waitingQueue') = Entries(waitingQueue) \cup {j}
      /\ Distinct(waitingQueue')
  BY <1>1, AppendEntries DEF QueueHoldsTheQueued
<1>3. TypeOK'
  BY <1>2 DEF TypeOK, JobState
<1>4. QueueHoldsTheQueued'
  BY <1>2 DEF QueueHoldsTheQueued, TypeOK
<1>5. Held' = Held
  BY DEF Held
<1>6. LeasedIffRunning'
  BY <1>5 DEF LeasedIffRunning, TypeOK
<1>7. TokensDrawn'
  BY <1>5 DEF TokensDrawn
<1> QED BY <1>3, <1>4, <1>6, <1>7

(***************************************************************************)
(* A reclaim without a lease: getStats, and leaseNextJob that finds        *)
(* nothing to hand out.                                                    *)
(***************************************************************************)
LEMMA ReclaimIInv ==
  ASSUME IInv, GetStats \/ \E w \in Workers : LeaseNothing(w)
  PROVE  IInv'
<1>1. /\ state' = ReclaimedState /\ leases' = ReclaimedLeases
      /\ waitingQueue' = ReclaimedQueue /\ issued' = issued
      /\ UNCHANGED <<attempts, idempotencyKey, result, idempotencyMap, claim>>
  BY DEF LeaseNothing, GetStats
<1>2. Held' = Running /\ Running \subseteq Held
  BY <1>1, ReclaimKeepsTypes DEF Held, Running
<1>3. TypeOK'
  BY <1>1, ReclaimKeepsTypes, ReclaimKeepsQueue DEF IInv, TypeOK
<1>4. QueueHoldsTheQueued'
  BY <1>1, ReclaimKeepsQueue DEF QueueHoldsTheQueued
<1>5. LeasedIffRunning'
  BY <1>1, <1>2, ReclaimKeepsTypes DEF LeasedIffRunning
<1>6. TokensDrawn'
  BY <1>1, <1>2, ReclaimKeepsTypes DEF IInv, TokensDrawn
<1> QED BY <1>3, <1>4, <1>5, <1>6 DEF IInv

(***************************************************************************)
(* leaseNextJob keeps it: the job moves from the queue to the leases, with *)
(* a token nobody has.                                                     *)
(***************************************************************************)
LEMMA LeaseNextJobIInv ==
  ASSUME IInv, NEW w \in Workers, NEW d \in Durations, LeaseNextJob(w, d)
  PROVE  IInv'
<1> DEFINE j == Head(ReclaimedQueue)
           lease == [token |-> issued + 1, left |-> d]
<1>1. /\ j \in JobIds /\ j \in Entries(ReclaimedQueue)
      /\ Tail(ReclaimedQueue) \in Seq(JobIds) /\ Distinct(Tail(ReclaimedQueue))
      /\ Entries(Tail(ReclaimedQueue)) = Entries(ReclaimedQueue) \ {j}
  BY ReclaimKeepsQueue, HeadTailEntries DEF LeaseNextJob, CanLease
<1>2. ReclaimedState[j] = "QUEUED"
  BY <1>1, ReclaimKeepsQueue
<1>3. /\ waitingQueue' = Tail(ReclaimedQueue)
      /\ state' = [ReclaimedState EXCEPT ![j] = "RUNNING"]
      /\ attempts' = [attempts EXCEPT ![j] = @ + 1]
      /\ leases' = [ReclaimedLeases EXCEPT ![j] = lease]
      /\ issued' = issued + 1
      /\ claim' = [claim EXCEPT ![w] = [job |-> j, token |-> issued + 1]]
      /\ UNCHANGED <<idempotencyKey, result, idempotencyMap>>
  BY <1>2 DEF LeaseNextJob, NewToken, TimeLeft
<1>4. lease \in Lease /\ lease # None
  BY DurationsAssumption, NoneAssumption DEF Lease, IInv, TypeOK
<1> HIDE DEF j, lease
<1>5. TypeOK'
  <2>1. issued + 1 \in Nat
    BY DEF IInv, TypeOK
  <2>2. [job |-> j, token |-> issued + 1] \in Claim
    BY <1>1, <2>1 DEF Claim
  <2>3. leases' \in [JobIds -> Lease \cup {None}]
    BY <1>3, <1>4, ReclaimKeepsTypes
  <2>4. state' \in [JobIds -> JobState \cup {"ABSENT"}]
    BY <1>3, ReclaimKeepsTypes DEF JobState
  <2>5. attempts' \in [JobIds -> Nat]
    BY <1>1, <1>3 DEF IInv, TypeOK
  <2>6. claim' \in [Workers -> Claim \cup {None}]
    BY <1>3, <2>2 DEF IInv, TypeOK
  <2> QED BY <1>1, <1>3, <2>1, <2>3, <2>4, <2>5, <2>6 DEF IInv, TypeOK
<1>6. QueueHoldsTheQueued'
  <2>1. \A i \in JobIds : state'[i] = "QUEUED"
            <=> i # j /\ ReclaimedState[i] = "QUEUED"
    BY <1>3, ReclaimKeepsTypes
  <2> QED BY <1>1, <1>3, <2>1, ReclaimKeepsQueue DEF QueueHoldsTheQueued
<1>7. Held' = Running \cup {j}
  BY <1>1, <1>3, <1>4, ReclaimKeepsTypes DEF Held
<1>8. LeasedIffRunning'
  BY <1>1, <1>3, <1>7, ReclaimKeepsTypes DEF LeasedIffRunning
<1>9. TokensDrawn'
  <2>1. /\ \A i \in Running : i \in Held /\ i \in JobIds
        /\ \A i \in Running : i # j => leases'[i] = leases[i]
        /\ leases'[j].token = issued + 1
    BY <1>1, <1>3, ReclaimKeepsTypes DEF lease, Running, Held
  <2>2. \A i \in Running : leases[i].token \in 1 .. issued
    BY <2>1 DEF IInv, TokensDrawn
  <2>3. \A i, k \in Running : leases[i].token = leases[k].token => i = k
    BY <2>1 DEF IInv, TokensDrawn
  <2>4. issued \in Nat /\ issued' = issued + 1
    BY <1>3 DEF IInv, TypeOK
  <2>5. \A i \in Running \cup {j} : leases'[i].token \in 1 .. issued'
    <3>1. leases'[j].token \in 1 .. issued'
      BY <2>1, <2>4
    <3>2. ASSUME NEW i \in Running, i # j PROVE leases'[i].token \in 1 .. issued'
      <4>1. leases'[i].token = leases[i].token /\ leases[i].token \in 1 .. issued
        BY <2>1, <2>2, <3>2
      <4> QED BY <4>1, <2>4
    <3> QED BY <3>1, <3>2
  <2>6. \A i, k \in Running \cup {j} : leases'[i].token = leases'[k].token => i = k
    <3>1. \A i \in Running : leases[i].token # issued + 1
      BY <2>2, <2>4
    <3> QED BY <2>1, <2>3, <3>1
  <2> QED BY <1>7, <2>5, <2>6 DEF TokensDrawn
<1> QED BY <1>5, <1>6, <1>8, <1>9 DEF IInv

(***************************************************************************)
(* heartbeat keeps it: the lease is renewed, its token stays.              *)
(***************************************************************************)
LEMMA HeartbeatIInv ==
  ASSUME IInv, NEW w \in Workers, NEW d \in Durations, Heartbeat(w, d)
  PROVE  IInv'
<1> DEFINE j == claim[w].job
<1>1. j \in JobIds /\ leases[j] \in Lease /\ j \in Held
  BY NoneAssumption DEF Heartbeat, TokenIsCurrent, IInv, TypeOK, Claim, Held
<1>2. /\ leases' = [leases EXCEPT ![j].left = d]
      /\ UNCHANGED <<state, attempts, idempotencyKey, result, idempotencyMap,
                     waitingQueue, issued, claim>>
  BY DEF Heartbeat, jobVars
<1> HIDE DEF j
<1>3. /\ leases'[j] \in Lease /\ leases'[j] # None
      /\ leases'[j].token = leases[j].token
      /\ \A i \in JobIds : i # j => leases'[i] = leases[i]
  <2>1. DOMAIN leases = JobIds /\ d \in Int
    BY DurationsAssumption DEF IInv, TypeOK
  <2>2. leases'[j] = [leases[j] EXCEPT !.left = d]
    BY <1>1, <1>2, <2>1
  <2>3. leases'[j] \in Lease /\ leases'[j].token = leases[j].token
    BY <1>1, <2>1, <2>2 DEF Lease
  <2>4. leases'[j] # None
    BY <2>3, NoneAssumption DEF Lease
  <2>5. \A i \in JobIds : i # j => leases'[i] = leases[i]
    BY <1>2, <2>1
  <2> QED BY <2>3, <2>4, <2>5
<1>4. leases' \in [JobIds -> Lease \cup {None}]
  BY <1>1, <1>2, <1>3 DEF IInv, TypeOK
<1>5. Held' = Held
  BY <1>1, <1>3 DEF Held
<1>6. TypeOK' /\ QueueHoldsTheQueued' /\ LeasedIffRunning'
  BY <1>2, <1>4, <1>5 DEF IInv, TypeOK, QueueHoldsTheQueued, LeasedIffRunning
<1>7. TokensDrawn'
  <2>1. \A i \in Held : leases'[i].token = leases[i].token
    BY <1>3 DEF Held
  <2> QED BY <1>2, <1>5, <2>1 DEF IInv, TokensDrawn
<1> QED BY <1>6, <1>7 DEF IInv

(***************************************************************************)
(* A worker's report takes the lease of its job away; the job leaves       *)
(* RUNNING, and is queued again or not.                                    *)
(***************************************************************************)
LEMMA ReleaseTokens ==
  ASSUME IInv, NEW j \in JobIds, leases' = [leases EXCEPT ![j] = None],
         issued' = issued
  PROVE  /\ leases' \in [JobIds -> Lease \cup {None}]
         /\ Held' = Held \ {j}
         /\ TokensDrawn'
<1>1. \A i \in JobIds : leases'[i] = IF i = j THEN None ELSE leases[i]
  BY DEF IInv, TypeOK
<1>2. Held' = Held \ {j}
  BY <1>1 DEF Held
<1>3. \A i \in Held \ {j} : leases'[i] = leases[i]
  BY <1>1 DEF Held
<1> QED BY <1>2, <1>3 DEF IInv, TokensDrawn, TypeOK

(***************************************************************************)
(* completeJob keeps it: lease and RUNNING go together.                    *)
(***************************************************************************)
LEMMA CompleteJobIInv ==
  ASSUME IInv, NEW w \in Workers, CompleteJob(w)
  PROVE  IInv'
<1> DEFINE j == claim[w].job
<1>1. j \in JobIds /\ j \in Held /\ claim[w].token \in Nat
  BY DEF CompleteJob, TokenIsCurrent, IInv, TypeOK, Claim, Held
<1>2. /\ state' = [state EXCEPT ![j] = "COMPLETED"]
      /\ result' = [result EXCEPT ![j] = claim[w].token]
      /\ leases' = [leases EXCEPT ![j] = None]
      /\ claim' = [claim EXCEPT ![w] = None]
      /\ UNCHANGED <<attempts, idempotencyKey, idempotencyMap, waitingQueue, issued>>
  BY DEF CompleteJob
<1>3. state[j] = "RUNNING"
  BY <1>1 DEF IInv, LeasedIffRunning
<1> HIDE DEF j
<1>4. leases' \in [JobIds -> Lease \cup {None}] /\ Held' = Held \ {j} /\ TokensDrawn'
  BY <1>1, <1>2, ReleaseTokens
<1>5. \A i \in JobIds : state'[i] = IF i = j THEN "COMPLETED" ELSE state[i]
  BY <1>1, <1>2 DEF IInv, TypeOK
<1>6. TypeOK'
  BY <1>1, <1>2, <1>4 DEF IInv, TypeOK, JobState
<1>7. QueueHoldsTheQueued'
  BY <1>1, <1>2, <1>3, <1>5 DEF IInv, QueueHoldsTheQueued
<1>8. LeasedIffRunning'
  BY <1>4, <1>5 DEF IInv, LeasedIffRunning
<1> QED BY <1>4, <1>6, <1>7, <1>8 DEF IInv

(***************************************************************************)
(* failJob keeps it: the job leaves the leases, and is in the queue if and *)
(* only if it is QUEUED again.                                             *)
(***************************************************************************)
LEMMA FailJobIInv ==
  ASSUME IInv, NEW w \in Workers, FailJob(w)
  PROVE  IInv'
<1> DEFINE j == claim[w].job
           next == IF MayRetry(j) THEN "QUEUED" ELSE "FAILED"
<1>1. j \in JobIds /\ j \in Held
  BY DEF FailJob, TokenIsCurrent, IInv, TypeOK, Claim, Held
<1>2. /\ state' = [state EXCEPT ![j] = next]
      /\ waitingQueue' = IF MayRetry(j) THEN <<j>> \o waitingQueue ELSE waitingQueue
      /\ leases' = [leases EXCEPT ![j] = None]
      /\ claim' = [claim EXCEPT ![w] = None]
      /\ UNCHANGED <<attempts, idempotencyKey, result, idempotencyMap, issued>>
  BY DEF FailJob, PutBack
<1>3. state[j] = "RUNNING"
  BY <1>1 DEF IInv, LeasedIffRunning
<1>4. j \notin Entries(waitingQueue)
  BY <1>3 DEF IInv, QueueHoldsTheQueued
<1>5. next \in {"QUEUED", "FAILED"} /\ (next = "QUEUED" <=> MayRetry(j))
  OBVIOUS
<1> HIDE DEF j, next
<1>6. leases' \in [JobIds -> Lease \cup {None}] /\ Held' = Held \ {j} /\ TokensDrawn'
  BY <1>1, <1>2, ReleaseTokens
<1>7. \A i \in JobIds : state'[i] = IF i = j THEN next ELSE state[i]
  BY <1>1, <1>2 DEF IInv, TypeOK
<1>8. /\ waitingQueue' \in Seq(JobIds) /\ Distinct(waitingQueue')
      /\ Entries(waitingQueue') = Entries(waitingQueue)
                                    \cup (IF MayRetry(j) THEN {j} ELSE {})
  <2> DEFINE one == <<j>>
  <2>1. waitingQueue \in Seq(JobIds) /\ Distinct(waitingQueue)
    BY DEF IInv, TypeOK, QueueHoldsTheQueued
  <2>2. /\ one \in Seq(JobIds) /\ Entries(one) = {j} /\ Distinct(one)
    BY <1>1, SingletonEntries
  <2>3. waitingQueue' = IF MayRetry(j) THEN one \o waitingQueue ELSE waitingQueue
    BY <1>2
  <2>4. Entries(one) \cap Entries(waitingQueue) = {}
    BY <1>4, <2>2
  <2> HIDE DEF one
  <2> QED BY <2>1, <2>2, <2>3, <2>4, ConcatEntries
<1>9. TypeOK'
  BY <1>1, <1>2, <1>5, <1>6, <1>8 DEF IInv, TypeOK, JobState
<1>10. QueueHoldsTheQueued'
  BY <1>1, <1>3, <1>5, <1>7, <1>8 DEF IInv, QueueHoldsTheQueued
<1>11. LeasedIffRunning'
  BY <1>5, <1>6, <1>7 DEF IInv, LeasedIffRunning
<1> QED BY <1>6, <1>9, <1>10, <1>11 DEF IInv

(***************************************************************************)
(* cancelJob keeps it, whether the job waits or runs.                      *)
(***************************************************************************)
LEMMA CancelJobIInv ==
  ASSUME IInv, NEW j \in JobIds, CancelJob(j)
  PROVE  IInv'
<1>1. /\ state' = [state EXCEPT ![j] = "CANCELLED"]
      /\ leases' = [leases EXCEPT ![j] = None]
      /\ waitingQueue' = Without(waitingQueue, j)
      /\ UNCHANGED <<attempts, idempotencyKey, result, idempotencyMap, issued,
                     claim>>
  BY DEF CancelJob
<1>2. leases' \in [JobIds -> Lease \cup {None}] /\ Held' = Held \ {j} /\ TokensDrawn'
  BY <1>1, ReleaseTokens
<1>3. \A i \in JobIds : state'[i] = IF i = j THEN "CANCELLED" ELSE state[i]
  BY <1>1 DEF IInv, TypeOK
<1>4. /\ waitingQueue' \in Seq(JobIds) /\ Distinct(waitingQueue')
      /\ Entries(waitingQueue') = Entries(waitingQueue) \ {j}
  BY <1>1, WithoutDrops DEF IInv, TypeOK, QueueHoldsTheQueued
<1>5. TypeOK'
  BY <1>1, <1>2, <1>4 DEF IInv, TypeOK, JobState
<1>6. QueueHoldsTheQueued'
  BY <1>3, <1>4 DEF IInv, QueueHoldsTheQueued
<1>7. LeasedIffRunning'
  BY <1>2, <1>3 DEF IInv, LeasedIffRunning
<1> QED BY <1>2, <1>5, <1>6, <1>7 DEF IInv

(***************************************************************************)
(* The passing of time only shortens leases.                               *)
(***************************************************************************)
LEMMA TickIInv ==
  ASSUME IInv, Tick
  PROVE  IInv'
<1>1. /\ leases' = [j \in JobIds |->
                      IF j \in Held /\ leases[j].left >= 0
                      THEN [leases[j] EXCEPT !.left = @ - 1] ELSE leases[j]]
      /\ UNCHANGED <<state, attempts, idempotencyKey, result, idempotencyMap,
                     waitingQueue, issued, claim>>
  BY DEF Tick, jobVars
<1>2. \A j \in Held : /\ leases[j] \in Lease
                      /\ leases'[j] \in Lease
                      /\ leases'[j].token = leases[j].token
  <2>1. SUFFICES ASSUME NEW j \in Held
                 PROVE  /\ leases[j] \in Lease
                        /\ leases'[j] \in Lease
                        /\ leases'[j].token = leases[j].token
    OBVIOUS
  <2>2. j \in JobIds /\ leases[j] \in Lease
    BY DEF Held, IInv, TypeOK
  <2>3. CASE leases[j].left >= 0
    <3>1. leases'[j] = [leases[j] EXCEPT !.left = leases[j].left - 1]
      BY <1>1, <2>2, <2>3
    <3> QED BY <2>2, <3>1 DEF Lease
  <2>4. CASE ~(leases[j].left >= 0)
    BY <1>1, <2>2, <2>4
  <2> QED BY <2>3, <2>4
<1>3. \A j \in JobIds \ Held : leases'[j] = None
  BY <1>1 DEF Held
<1>4. Held' = Held
  BY <1>2, <1>3, NoneAssumption DEF Held, Lease
<1>5. leases' \in [JobIds -> Lease \cup {None}]
  BY <1>1, <1>2, <1>3
<1>6. TypeOK' /\ QueueHoldsTheQueued' /\ LeasedIffRunning'
  BY <1>1, <1>4, <1>5 DEF IInv, TypeOK, QueueHoldsTheQueued, LeasedIffRunning
<1>7. TokensDrawn'
  <2>1. issued' = issued /\ \A j \in Held : leases'[j].token = leases[j].token
    BY <1>1, <1>2
  <2> QED BY <1>4, <2>1 DEF IInv, TokensDrawn
<1> QED BY <1>6, <1>7 DEF IInv

(***************************************************************************)
(* Every step keeps the invariant: one of the lemmas above for each        *)
(* action.                                                                 *)
(***************************************************************************)
LEMMA NextIInv ==
  ASSUME IInv, [Next]_vars
  PROVE  IInv'
<1>1. ASSUME NEW j \in JobIds, NEW k \in Keys \cup {j}, Enqueue(j, k) PROVE IInv'
  BY <1>1, EnqueueIInv
<1>2. ASSUME NEW w \in Workers, LeaseNothing(w) PROVE IInv'
  BY <1>2, ReclaimIInv
<1>3. ASSUME NEW w \in Workers, NEW d \in Durations, LeaseNextJob(w, d) PROVE IInv'
  BY <1>3, LeaseNextJobIInv
<1>4. ASSUME NEW w \in Workers, NEW d \in Durations, Heartbeat(w, d) PROVE IInv'
  BY <1>4, HeartbeatIInv
<1>5. ASSUME NEW w \in Workers, CompleteJob(w) PROVE IInv'
  BY <1>5, CompleteJobIInv
<1>6. ASSUME NEW w \in Workers, FailJob(w) PROVE IInv'
  BY <1>6, FailJobIInv
<1>7. ASSUME NEW w \in Workers, Forget(w) PROVE IInv'
  BY <1>7 DEF Forget, jobVars, IInv, TypeOK, QueueHoldsTheQueued, LeasedIffRunning,
              TokensDrawn, Held
<1>8. ASSUME GetStats PROVE IInv'
  BY <1>8, ReclaimIInv
<1>9. ASSUME NEW j \in JobIds, CancelJob(j) PROVE IInv'
  BY <1>9, CancelJobIInv
<1>10. ASSUME Tick PROVE IInv'
  BY <1>10, TickIInv
<1>11. CASE UNCHANGED vars
  BY <1>11 DEF vars, IInv, TypeOK, QueueHoldsTheQueued, LeasedIffRunning,
               TokensDrawn, Held
<1> QED
  BY <1>1, <1>2, <1>3, <1>4, <1>5, <1>6, <1>7, <1>8, <1>9, <1>10, <1>11 DEF Next

-----------------------------------------------------------------------------
(***************************************************************************)
(* So it holds in every reachable state.                                   *)
(***************************************************************************)
LEMMA Invariance == Spec => []IInv
  BY InitIInv, NextIInv, PTL DEF Spec

(***************************************************************************)
(* Every reachable state is well typed.                                    *)
(***************************************************************************)
THEOREM Typing == Spec => []TypeOK
<1>1. IInv => TypeOK
  BY DEF IInv
<1> QED BY <1>1, Invariance, PTL

(***************************************************************************)
(* The queue holds the queued jobs, each once, and the running jobs are    *)
(* those with a lease, in whatever order leases, retries, reclaims and     *)
(* cancellations come (JobQueue.PlacesAreExact).                           *)
(***************************************************************************)
THEOREM EveryJobIsInItsPlace == Spec => []PlacesAreExact
<1>1. IInv => PlacesAreExact
  BY DEF IInv, PlacesAreExact
<1> QED BY <1>1, Invariance, PTL

-----------------------------------------------------------------------------
(***************************************************************************)
(* JobQueue implements JobLifecycle; what the life cycle says of the retry *)
(* budget then holds of the queue.                                         *)
(***************************************************************************)

(***************************************************************************)
(* What a reclaim does to one job.                                         *)
(***************************************************************************)
LEMMA ReclaimMoves ==
  ASSUME IInv, NEW i \in JobIds
  PROVE  \/ ReclaimedState[i] = state[i]
         \/ /\ state[i] = "RUNNING" /\ attempts[i] < maxRetries
            /\ ReclaimedState[i] = "QUEUED"
         \/ /\ state[i] = "RUNNING" /\ attempts[i] >= maxRetries
            /\ ReclaimedState[i] = "TIMED_OUT"
<1>1. attempts[i] < maxRetries \/ attempts[i] >= maxRetries
  BY LimitsAssumption DEF IInv, TypeOK
<1> QED BY <1>1 DEF ReclaimedState, Reenqueued, MayRetry, IInv, TypeOK

(***************************************************************************)
(* A step that only reclaims moves each job as its life cycle allows.      *)
(***************************************************************************)
LEMMA ReclaimSteps ==
  ASSUME IInv, NEW i \in JobIds, state' = ReclaimedState, attempts' = attempts
  PROVE  Life!JobStep(i)
<1>1. CASE state'[i] = state[i]
  BY <1>1 DEF Life!JobStep, Life!Stays
<1>2. CASE state[i] = "RUNNING" /\ attempts[i] < maxRetries /\ state'[i] = "QUEUED"
  <2>1. Life!Retry(i)
    BY <1>2 DEF Life!Retry, Life!Moves
  <2> QED BY <2>1 DEF Life!JobStep
<1>3. CASE /\ state[i] = "RUNNING" /\ attempts[i] >= maxRetries
           /\ state'[i] = "TIMED_OUT"
  <2>1. Life!GiveUp(i)
    BY <1>3 DEF Life!GiveUp, Life!Moves
  <2> QED BY <2>1 DEF Life!JobStep
<1> QED BY <1>1, <1>2, <1>3, ReclaimMoves

(***************************************************************************)
(* The lease: the other jobs are reclaimed or stay, and the job that is    *)
(* handed out was queued, or has just been put back by the same reclaim.   *)
(***************************************************************************)
LEMMA LeaseSteps ==
  ASSUME IInv, NEW w \in Workers, NEW d \in Durations, LeaseNextJob(w, d),
         NEW i \in JobIds
  PROVE  Life!JobStep(i)
<1> DEFINE j == Head(ReclaimedQueue)
<1>1. j \in JobIds /\ j \in Entries(ReclaimedQueue)
  BY ReclaimKeepsQueue, HeadTailEntries DEF LeaseNextJob, CanLease
<1>2. ReclaimedState[j] = "QUEUED"
  BY <1>1, ReclaimKeepsQueue
<1>3. /\ state' = [ReclaimedState EXCEPT ![j] = "RUNNING"]
      /\ attempts' = [attempts EXCEPT ![j] = @ + 1]
  BY <1>2 DEF LeaseNextJob
<1> HIDE DEF j
<1>4. CASE i = j
  <2>1. state'[i] = "RUNNING" /\ attempts'[i] = attempts[i] + 1
    BY <1>1, <1>3, <1>4, ReclaimKeepsTypes DEF IInv, TypeOK
  <2>2. CASE state[i] = "QUEUED"
    <3>1. Life!Lease(i)
      BY <2>1, <2>2 DEF Life!Lease, Life!Starts
    <3> QED BY <3>1 DEF Life!JobStep
  <2>3. CASE state[i] = "RUNNING" /\ attempts[i] < maxRetries
    <3>1. Life!Retry(i)
      BY <2>1, <2>3 DEF Life!Retry, Life!Starts
    <3> QED BY <3>1 DEF Life!JobStep
  <2> QED BY <1>2, <1>4, <2>2, <2>3, ReclaimMoves
<1>5. CASE i # j
  <2>1. state'[i] = ReclaimedState[i] /\ attempts'[i] = attempts[i]
    BY <1>1, <1>3, <1>5, ReclaimKeepsTypes DEF IInv, TypeOK
  <2>2. CASE state'[i] = state[i]
    BY <2>1, <2>2 DEF Life!JobStep, Life!Stays
  <2>3. CASE state[i] = "RUNNING" /\ attempts[i] < maxRetries /\ state'[i] = "QUEUED"
    <3>1. Life!Retry(i)
      BY <2>1, <2>3 DEF Life!Retry, Life!Moves
    <3> QED BY <3>1 DEF Life!JobStep
  <2>4. CASE /\ state[i] = "RUNNING" /\ attempts[i] >= maxRetries
             /\ state'[i] = "TIMED_OUT"
    <3>1. Life!GiveUp(i)
      BY <2>1, <2>4 DEF Life!GiveUp, Life!Moves
    <3> QED BY <3>1 DEF Life!JobStep
  <2> QED BY <2>1, <2>2, <2>3, <2>4, ReclaimMoves
<1> QED BY <1>4, <1>5

(***************************************************************************)
(* The calls that move one job, j: the others stay.                        *)
(***************************************************************************)
LEMMA OthersStay ==
  ASSUME IInv, NEW j \in JobIds, NEW s, state' = [state EXCEPT ![j] = s],
         attempts' = attempts
  PROVE  /\ state'[j] = s /\ attempts'[j] = attempts[j]
         /\ \A i \in JobIds \ {j} : Life!JobStep(i)
<1>1. \A i \in JobIds \ {j} : Life!Stays(i)
  BY DEF IInv, TypeOK, Life!Stays
<1> QED BY <1>1 DEF IInv, TypeOK, Life!JobStep

(***************************************************************************)
(* Enqueue submits j.                                                      *)
(***************************************************************************)
LEMMA EnqueueSteps ==
  ASSUME IInv, NEW j \in JobIds, NEW k \in Keys \cup {j}, Enqueue(j, k)
  PROVE  \A i \in JobIds : Life!JobStep(i)
<1>1. state[j] = "ABSENT" /\ state' = [state EXCEPT ![j] = "QUEUED"]
      /\ attempts' = attempts
  BY DEF Enqueue
<1>2. Life!Submit(j)
  BY <1>1, OthersStay DEF Life!Submit, Life!Moves
<1> QED BY <1>1, <1>2, OthersStay DEF Life!JobStep

(***************************************************************************)
(* CompleteJob completes the worker's job.                                 *)
(***************************************************************************)
LEMMA CompleteSteps ==
  ASSUME IInv, NEW w \in Workers, CompleteJob(w)
  PROVE  \A i \in JobIds : Life!JobStep(i)
<1> DEFINE j == claim[w].job
<1>1. /\ j \in JobIds /\ j \in Held
      /\ state' = [state EXCEPT ![j] = "COMPLETED"] /\ attempts' = attempts
  BY DEF CompleteJob, TokenIsCurrent, IInv, TypeOK, Claim, Held
<1>2. state[j] = "RUNNING"
  BY <1>1 DEF IInv, LeasedIffRunning
<1> HIDE DEF j
<1>3. Life!Complete(j)
  BY <1>1, <1>2, OthersStay DEF Life!Complete, Life!Moves
<1> QED BY <1>1, <1>3, OthersStay DEF Life!JobStep

(***************************************************************************)
(* FailJob retries the worker's job, or gives it up.                       *)
(***************************************************************************)
LEMMA FailSteps ==
  ASSUME IInv, NEW w \in Workers, FailJob(w)
  PROVE  \A i \in JobIds : Life!JobStep(i)
<1> DEFINE j == claim[w].job
           next == IF MayRetry(j) THEN "QUEUED" ELSE "FAILED"
<1>1. /\ j \in JobIds /\ j \in Held
      /\ state' = [state EXCEPT ![j] = next] /\ attempts' = attempts
  BY DEF FailJob, TokenIsCurrent, IInv, TypeOK, Claim, Held
<1>2. state[j] = "RUNNING" /\ attempts[j] \in Nat
  BY <1>1 DEF IInv, TypeOK, LeasedIffRunning
<1>3. \/ attempts[j] < maxRetries /\ next = "QUEUED"
      \/ attempts[j] >= maxRetries /\ next = "FAILED"
  BY <1>2, LimitsAssumption DEF MayRetry
<1> HIDE DEF j, next
<1>4. state'[j] = next /\ attempts'[j] = attempts[j]
  BY <1>1, OthersStay
<1>5. Life!Retry(j) \/ Life!GiveUp(j)
  BY <1>2, <1>3, <1>4 DEF Life!Retry, Life!GiveUp, Life!Moves
<1> QED BY <1>1, <1>5, OthersStay DEF Life!JobStep

(***************************************************************************)
(* CancelJob cancels j, which was queued or running.                       *)
(***************************************************************************)
LEMMA CancelSteps ==
  ASSUME IInv, NEW j \in JobIds, CancelJob(j)
  PROVE  \A i \in JobIds : Life!JobStep(i)
<1>1. state' = [state EXCEPT ![j] = "CANCELLED"] /\ attempts' = attempts
  BY DEF CancelJob
<1>2. state[j] \in {"QUEUED", "RUNNING"}
  BY DEF CancelJob, Cancellable, TERMINAL_STATES, IInv, TypeOK, JobState
<1>3. Life!Cancel(j)
  BY <1>1, <1>2, OthersStay DEF Life!Cancel, Life!Moves
<1> QED BY <1>1, <1>3, OthersStay DEF Life!JobStep

-----------------------------------------------------------------------------
(***************************************************************************)
(* Every step of the queue is a step of the life cycle, or leaves it be.   *)
(***************************************************************************)
LEMMA StepSimulation ==
  ASSUME IInv, IInv', [Next]_vars
  PROVE  [Life!Next]_(Life!vars)
<1>1. /\ state' \in [JobIds -> JobState \cup {"ABSENT"}]
      /\ attempts' \in [JobIds -> Nat]
  BY DEF IInv, TypeOK
<1>2. ASSUME \A i \in JobIds : Life!JobStep(i) PROVE Life!Next
  BY <1>1, <1>2 DEF Life!Next, JobState, Life!JobState
<1>3. ASSUME UNCHANGED <<state, attempts>> PROVE UNCHANGED Life!vars
  BY <1>3 DEF Life!vars
<1>4. ASSUME NEW j \in JobIds, NEW k \in Keys \cup {j}, Enqueue(j, k)
      PROVE  Life!Next
  BY <1>2, <1>4, EnqueueSteps
<1>5. ASSUME GetStats \/ \E w \in Workers : LeaseNothing(w) PROVE Life!Next
  <2>1. state' = ReclaimedState /\ attempts' = attempts
    BY <1>5 DEF GetStats, LeaseNothing
  <2> QED BY <1>2, <2>1, ReclaimSteps
<1>6. ASSUME NEW w \in Workers, NEW d \in Durations, LeaseNextJob(w, d)
      PROVE  Life!Next
  BY <1>2, <1>6, LeaseSteps
<1>7. ASSUME NEW w \in Workers, CompleteJob(w) PROVE Life!Next
  BY <1>2, <1>7, CompleteSteps
<1>8. ASSUME NEW w \in Workers, FailJob(w) PROVE Life!Next
  BY <1>2, <1>8, FailSteps
<1>9. ASSUME NEW j \in JobIds, CancelJob(j) PROVE Life!Next
  BY <1>2, <1>9, CancelSteps
<1>10. ASSUME \/ \E w \in Workers : \E d \in Durations : Heartbeat(w, d)
              \/ \E w \in Workers : Forget(w)
              \/ Tick
              \/ UNCHANGED vars
       PROVE  UNCHANGED Life!vars
  BY <1>3, <1>10 DEF Heartbeat, Forget, Tick, jobVars, vars
<1> QED
  BY <1>4, <1>5, <1>6, <1>7, <1>8, <1>9, <1>10 DEF Next

(***************************************************************************)
(* The queue implements the life cycle of types.js, whatever the order of  *)
(* submissions, leases, late answers, reclaims and cancellations.          *)
(***************************************************************************)
THEOREM Implementation == Spec => JobsFollowTheirLifecycle
<1>1. Init => Life!Init
  BY DEF Init, Life!Init
<1>2. IInv /\ IInv' /\ [Next]_vars => [Life!Next]_(Life!vars)
  BY StepSimulation
<1> QED BY <1>1, <1>2, Invariance, PTL DEF Spec, Life!Spec, JobsFollowTheirLifecycle

-----------------------------------------------------------------------------
(***************************************************************************)
(* The budget is inductive for the life cycle once jobs nobody submitted   *)
(* are known to have been tried by nobody.                                 *)
(***************************************************************************)
BudgetInv ==
  /\ AttemptsWithinBudget
  /\ \A j \in JobIds : state[j] = "ABSENT" => attempts[j] = 0

(***************************************************************************)
(* A step of the life cycle keeps the budget.                              *)
(***************************************************************************)
LEMMA BudgetStep ==
  ASSUME IInv, BudgetInv, [Life!Next]_(Life!vars)
  PROVE  BudgetInv'
<1> DEFINE most == IF maxRetries = 0 THEN 1 ELSE maxRetries
<1>0. most \in Nat /\ most >= 1 /\ most >= maxRetries /\ maxRetries \in Nat
  BY LimitsAssumption
<1> HIDE DEF most
<1>1. SUFFICES ASSUME NEW j \in JobIds, Life!JobStep(j)
               PROVE  /\ attempts'[j] <= most
                      /\ state'[j] = "QUEUED" /\ attempts'[j] > 0
                           => attempts'[j] < maxRetries
                      /\ state'[j] = "ABSENT" => attempts'[j] = 0
  <2>1. CASE Life!Next
    BY <1>1, <2>1 DEF Life!Next, BudgetInv, AttemptsWithinBudget, most
  <2>2. CASE UNCHANGED Life!vars
    BY <2>2 DEF Life!vars, BudgetInv, AttemptsWithinBudget
  <2> QED BY <2>1, <2>2
<1>2. /\ attempts[j] \in Nat
      /\ attempts[j] <= most
      /\ state[j] = "QUEUED" /\ attempts[j] > 0 => attempts[j] < maxRetries
      /\ state[j] = "ABSENT" => attempts[j] = 0
  BY DEF IInv, TypeOK, BudgetInv, AttemptsWithinBudget, most
<1>3. CASE Life!Submit(j)
  BY <1>0, <1>2, <1>3 DEF Life!Submit, Life!Moves
<1>4. CASE Life!Lease(j)
  BY <1>0, <1>2, <1>4 DEF Life!Lease, Life!Starts
<1>5. CASE Life!Complete(j) \/ Life!Cancel(j)
  BY <1>0, <1>2, <1>5 DEF Life!Complete, Life!Cancel, Life!Moves
<1>6. CASE Life!Retry(j)
  BY <1>0, <1>2, <1>6 DEF Life!Retry, Life!Moves, Life!Starts
<1>7. CASE Life!GiveUp(j)
  BY <1>0, <1>2, <1>7 DEF Life!GiveUp, Life!Moves
<1>8. CASE Life!Stays(j)
  BY <1>0, <1>2, <1>8 DEF Life!Stays
<1> QED BY <1>1, <1>3, <1>4, <1>5, <1>6, <1>7, <1>8 DEF Life!JobStep

(***************************************************************************)
(* No job runs more often than maxRetries allows (once, if that is 0), and *)
(* none waits for a retry it may not have.                                 *)
(***************************************************************************)
THEOREM RetryBudget == Spec => []AttemptsWithinBudget
<1>1. Init => BudgetInv
  BY LimitsAssumption DEF Init, BudgetInv, AttemptsWithinBudget
<1>2. IInv /\ IInv' /\ BudgetInv /\ [Next]_vars => BudgetInv'
  BY StepSimulation, BudgetStep
<1>3. BudgetInv => AttemptsWithinBudget
  BY DEF BudgetInv
<1> QED BY <1>1, <1>2, <1>3, Invariance, PTL DEF Spec

-----------------------------------------------------------------------------
(***************************************************************************)
(* Who may speak for a job, which answer becomes its result, which job a   *)
(* key leads to, and how long the backlog gets.                            *)
(***************************************************************************)

(***************************************************************************)
(* Tokens are drawn in ascending order, so a later lease has a greater     *)
(* token than any claim there is.                                          *)
(***************************************************************************)
ClaimInv ==
  /\ OneHolderPerLease
  /\ ResultIsNewest
  /\ \A w \in Workers : claim[w] # None => claim[w].token <= issued

(***************************************************************************)
(* The types of what a claim relates.                                      *)
(***************************************************************************)
LEMMA ClaimTypes ==
  ASSUME IInv
  PROVE  /\ \A w \in Workers : claim[w] # None =>
              claim[w] \in Claim /\ claim[w].job \in JobIds /\ claim[w].token \in Nat
         /\ \A j \in Held : j \in JobIds /\ leases[j] \in Lease /\ leases[j].token \in Nat
         /\ \A j \in JobIds : result[j] # None => result[j] \in Nat
         /\ issued \in Nat
  BY DEF IInv, TypeOK, Claim, Lease, Held

(***************************************************************************)
(* Steps that grant no lease and accept no result: leases may end, claims  *)
(* may be dropped, and no other token comes into play.                     *)
(***************************************************************************)
LEMMA NothingGranted ==
  ASSUME IInv, ClaimInv,
         result' = result, issued' = issued,
         \A w \in Workers : claim'[w] = claim[w] \/ claim'[w] = None,
         \A j \in Held' : j \in Held /\ leases'[j].token = leases[j].token,
         \A j \in JobIds : state'[j] = "COMPLETED" <=> state[j] = "COMPLETED"
  PROVE  ClaimInv'
<1>1. \A w \in Workers : claim'[w] # None => claim[w] # None /\ claim'[w] = claim[w]
  OBVIOUS
<1>2. OneHolderPerLease'
  BY <1>1 DEF ClaimInv, OneHolderPerLease
<1>3. ResultIsNewest'
  BY <1>1 DEF ClaimInv, ResultIsNewest
<1>4. \A w \in Workers : claim'[w] # None => claim'[w].token <= issued'
  BY <1>1 DEF ClaimInv
<1> QED BY <1>2, <1>3, <1>4 DEF ClaimInv

(***************************************************************************)
(* leaseNextJob: the new token is greater than those of all claims.        *)
(***************************************************************************)
LEMMA LeaseClaims ==
  ASSUME IInv, ClaimInv, NEW w \in Workers, NEW d \in Durations, LeaseNextJob(w, d)
  PROVE  ClaimInv'
<1> DEFINE j == Head(ReclaimedQueue)
           lease == [token |-> issued + 1, left |-> d]
           mine == [job |-> j, token |-> issued + 1]
<1>1. j \in JobIds /\ j \in Entries(ReclaimedQueue)
  BY ReclaimKeepsQueue, HeadTailEntries DEF LeaseNextJob, CanLease
<1>2. ReclaimedState[j] = "QUEUED"
  BY <1>1, ReclaimKeepsQueue
<1>3. /\ state' = [ReclaimedState EXCEPT ![j] = "RUNNING"]
      /\ leases' = [ReclaimedLeases EXCEPT ![j] = lease]
      /\ issued' = issued + 1
      /\ claim' = [claim EXCEPT ![w] = mine]
      /\ result' = result
      /\ claim[w] = None
  BY <1>2 DEF LeaseNextJob, NewToken, TimeLeft
<1>4. lease.token = issued + 1 /\ mine.job = j /\ mine.token = issued + 1
  OBVIOUS
<1>5. lease # None /\ mine # None
  BY <1>1, DurationsAssumption, NoneAssumption, ClaimTypes
<1>6. state[j] # "COMPLETED"
  BY <1>1, <1>2 DEF ReclaimedState, Reenqueued
<1> HIDE DEF j, lease, mine
<1>7. /\ claim'[w] = mine
      /\ \A v \in Workers \ {w} : claim'[v] = claim[v]
  BY <1>3 DEF IInv, TypeOK
<1>8. /\ leases'[j] = lease
      /\ \A i \in JobIds \ {j} : leases'[i] = ReclaimedLeases[i]
  BY <1>1, <1>3, ReclaimKeepsTypes
<1>9. \A i \in Held' \ {j} : i \in Held /\ leases'[i] = leases[i]
  BY <1>8, ReclaimKeepsTypes DEF Held, Running
<1>10. \A v \in Workers : claim[v] # None => claim[v].token <= issued
  BY DEF ClaimInv
<1>11. \A i \in Held : leases[i].token <= issued /\ leases[i].token \in Nat
  BY ClaimTypes DEF IInv, TokensDrawn
<1>12. issued \in Nat
  BY ClaimTypes
<1>13. OneHolderPerLease'
  <2> SUFFICES ASSUME NEW v \in Workers, claim'[v] # None
               PROVE  /\ \A u \in Workers \ {v} :
                           claim'[u] # None => claim'[u].token # claim'[v].token
                      /\ \A i \in Held' : \/ claim'[v].token # leases'[i].token
                                         \/ claim'[v].job = i
                      /\ claim'[v].job \in Held' =>
                           claim'[v].token <= leases'[claim'[v].job].token
    BY DEF OneHolderPerLease
  <2>1. CASE v = w
    <3>1. claim'[v].token = issued + 1 /\ claim'[v].job = j
      BY <1>4, <1>7, <2>1
    <3>2. ASSUME NEW u \in Workers \ {v}, claim'[u] # None
          PROVE  claim'[u].token # claim'[v].token
      <4>1. claim'[u] = claim[u]
        BY <1>7, <2>1
      <4>2. claim[u] # None
        BY <3>2, <4>1
      <4>3. claim[u].token <= issued /\ claim[u].token \in Nat
        BY <1>10, <4>2, ClaimTypes
      <4> QED BY <1>12, <3>1, <4>1, <4>3
    <3>3. ASSUME NEW i \in Held', i # j
          PROVE  claim'[v].token # leases'[i].token
      <4>1. i \in Held /\ leases'[i] = leases[i]
        BY <1>9, <3>3
      <4> QED BY <1>11, <1>12, <3>1, <4>1
    <3>4. claim'[v].token <= leases'[j].token
      BY <1>4, <1>8, <1>12, <3>1
    <3> QED BY <3>1, <3>2, <3>3, <3>4
  <2>2. CASE v # w
    <3>1. claim'[v] = claim[v] /\ claim[v] # None
      BY <1>7, <2>2
    <3>2. claim[v].token <= issued /\ claim[v].token \in Nat
      BY <1>10, <3>1, ClaimTypes
    <3>3. ASSUME NEW u \in Workers \ {v}, claim'[u] # None
          PROVE  claim'[u].token # claim'[v].token
      <4>1. CASE u = w
        BY <1>4, <1>7, <1>12, <3>1, <3>2, <4>1
      <4>2. CASE u # w
        <5>1. claim'[u] = claim[u] /\ claim[u] # None
          BY <1>7, <3>3, <4>2
        <5> QED BY <3>1, <5>1 DEF ClaimInv, OneHolderPerLease
      <4> QED BY <4>1, <4>2
    <3>4. ASSUME NEW i \in Held', claim'[v].job # i
          PROVE  claim'[v].token # leases'[i].token
      <4>1. CASE i = j
        BY <1>4, <1>8, <1>12, <3>1, <3>2, <4>1
      <4>2. CASE i # j
        <5>1. i \in Held /\ leases'[i] = leases[i]
          BY <1>9, <4>2
        <5> QED BY <3>1, <3>4, <5>1 DEF ClaimInv, OneHolderPerLease
      <4> QED BY <4>1, <4>2
    <3>5. ASSUME claim'[v].job \in Held'
          PROVE  claim'[v].token <= leases'[claim'[v].job].token
      <4>1. CASE claim[v].job = j
        BY <1>4, <1>8, <1>12, <3>1, <3>2, <4>1
      <4>2. CASE claim[v].job # j
        <5>1. claim[v].job \in Held /\ leases'[claim[v].job] = leases[claim[v].job]
          BY <1>9, <3>1, <3>5, <4>2
        <5> QED BY <3>1, <5>1 DEF ClaimInv, OneHolderPerLease
      <4> QED BY <4>1, <4>2
    <3> QED BY <3>3, <3>4, <3>5
  <2> QED BY <2>1, <2>2
<1>14. ResultIsNewest'
  <2>1. result[j] = None
    BY <1>1, <1>6 DEF ClaimInv, ResultIsNewest
  <2>2. \A i \in JobIds : state'[i] = "COMPLETED" <=> state[i] = "COMPLETED"
    <3>1. \A i \in JobIds \ {j} : state'[i] = ReclaimedState[i]
      BY <1>3, ReclaimKeepsTypes
    <3>2. \A i \in JobIds : ReclaimedState[i] = "COMPLETED" <=> state[i] = "COMPLETED"
      BY DEF ReclaimedState, Reenqueued
    <3>3. state'[j] = "RUNNING"
      BY <1>1, <1>3, ReclaimKeepsTypes
    <3> QED BY <1>6, <3>1, <3>2, <3>3
  <2>3. ASSUME NEW i \in JobIds, NEW v \in Workers, result[i] # None, claim'[v] # None
        PROVE  claim'[v].job # i \/ claim'[v].token < result[i]
    <3>1. CASE v = w
      BY <1>4, <1>7, <2>1, <2>3, <3>1
    <3>2. CASE v # w
      <4>1. claim'[v] = claim[v] /\ claim[v] # None
        BY <1>7, <2>3, <3>2
      <4> QED BY <2>3, <4>1 DEF ClaimInv, ResultIsNewest
    <3> QED BY <3>1, <3>2
  <2> QED BY <1>3, <2>2, <2>3 DEF ClaimInv, ResultIsNewest
<1>15. ASSUME NEW v \in Workers, claim'[v] # None
       PROVE  claim'[v].token <= issued'
  <2>1. CASE v = w
    BY <1>3, <1>4, <1>7, <1>12, <2>1
  <2>2. CASE v # w
    <3>1. claim'[v] = claim[v] /\ claim[v] # None
      BY <1>7, <1>15, <2>2
    <3>2. claim[v].token <= issued /\ claim[v].token \in Nat
      BY <1>10, <3>1, ClaimTypes
    <3> QED BY <1>3, <1>12, <3>1, <3>2
  <2> QED BY <2>1, <2>2
<1> QED BY <1>13, <1>14, <1>15 DEF ClaimInv

(***************************************************************************)
(* completeJob: of all claims to the job, the one that is accepted has the *)
(* greatest token.                                                         *)
(***************************************************************************)
LEMMA CompleteClaims ==
  ASSUME IInv, ClaimInv, NEW w \in Workers, CompleteJob(w)
  PROVE  ClaimInv'
<1> DEFINE j == claim[w].job
           token == claim[w].token
<1>1. /\ claim[w] # None /\ j \in JobIds /\ j \in Held
      /\ token \in Nat /\ leases[j].token = token
  BY ClaimTypes DEF CompleteJob, TokenIsCurrent, Held
<1>2. /\ state' = [state EXCEPT ![j] = "COMPLETED"]
      /\ result' = [result EXCEPT ![j] = token]
      /\ leases' = [leases EXCEPT ![j] = None]
      /\ claim' = [claim EXCEPT ![w] = None]
      /\ issued' = issued
  BY DEF CompleteJob
<1>3. \A v \in Workers \ {w} :
        claim[v] # None => claim[v].job # j \/ claim[v].token < token
  <2> SUFFICES ASSUME NEW v \in Workers \ {w}, claim[v] # None, claim[v].job = j
               PROVE  claim[v].token < token
    OBVIOUS
  <2>1. claim[v].token <= leases[j].token /\ claim[v].token # token
    BY <1>1 DEF ClaimInv, OneHolderPerLease
  <2>2. claim[v].token \in Nat
    BY ClaimTypes
  <2> QED BY <1>1, <2>1, <2>2
<1> HIDE DEF j, token
<1>4. /\ claim'[w] = None
      /\ \A v \in Workers \ {w} : claim'[v] = claim[v]
  BY <1>2 DEF IInv, TypeOK
<1>5. /\ state'[j] = "COMPLETED" /\ result'[j] = token /\ leases'[j] = None
      /\ \A i \in JobIds \ {j} : /\ state'[i] = state[i]
                                 /\ result'[i] = result[i]
                                 /\ leases'[i] = leases[i]
  BY <1>1, <1>2 DEF IInv, TypeOK
<1>6. \A i \in Held' : i \in Held /\ leases'[i] = leases[i]
  BY <1>5 DEF Held
<1>7. OneHolderPerLease'
  BY <1>4, <1>6 DEF ClaimInv, OneHolderPerLease
<1>8. ResultIsNewest'
  <2>1. token # None
    BY <1>1, NoneAssumption
  <2> QED BY <1>3, <1>4, <1>5, <2>1 DEF ClaimInv, ResultIsNewest
<1>9. \A v \in Workers : claim'[v] # None => claim'[v].token <= issued'
  BY <1>2, <1>4 DEF ClaimInv
<1> QED BY <1>7, <1>8, <1>9 DEF ClaimInv

(***************************************************************************)
(* heartbeat and the clock change how much time is left, never a token.    *)
(***************************************************************************)
LEMMA TimeKeepsTokens ==
  ASSUME IInv, Tick \/ \E w \in Workers : \E d \in Durations : Heartbeat(w, d)
  PROVE  /\ \A j \in Held' : j \in Held /\ leases'[j].token = leases[j].token
         /\ UNCHANGED <<state, result, idempotencyMap, idempotencyKey,
                        waitingQueue, issued, claim>>
<1>1. \A j \in JobIds : leases[j] \in Lease \cup {None}
  BY DEF IInv, TypeOK
<1>2. CASE Tick
  <2>1. ASSUME NEW j \in Held' PROVE j \in Held /\ leases'[j].token = leases[j].token
    <3>1. j \in JobIds /\ leases'[j] # None
      BY DEF Held
    <3>2. leases'[j] = IF j \in Held /\ leases[j].left >= 0
                       THEN [leases[j] EXCEPT !.left = @ - 1] ELSE leases[j]
      BY <1>2, <3>1 DEF Tick
    <3>3. j \in Held
      BY <3>1, <3>2 DEF Held
    <3>4. leases[j] \in Lease
      BY <1>1, <3>3 DEF Held
    <3> QED BY <3>2, <3>3, <3>4 DEF Lease
  <2> QED BY <1>2, <2>1 DEF Tick, jobVars
<1>3. ASSUME NEW w \in Workers, NEW d \in Durations, Heartbeat(w, d)
      PROVE  /\ \A j \in Held' : j \in Held /\ leases'[j].token = leases[j].token
             /\ UNCHANGED <<state, result, idempotencyMap, idempotencyKey,
                            waitingQueue, issued, claim>>
  <2> DEFINE k == claim[w].job
  <2>1. k \in Held /\ k \in JobIds /\ leases[k] \in Lease
    BY <1>1, <1>3, ClaimTypes DEF Heartbeat, TokenIsCurrent, Held
  <2>2. leases' = [leases EXCEPT ![k].left = d]
    BY <1>3 DEF Heartbeat
  <2> HIDE DEF k
  <2>3. leases'[k] = [leases[k] EXCEPT !.left = d]
    BY <2>1, <2>2 DEF IInv, TypeOK
  <2>4. leases'[k].token = leases[k].token
    BY <2>1, <2>3 DEF Lease
  <2>5. \A j \in JobIds \ {k} : leases'[j] = leases[j]
    BY <2>2 DEF IInv, TypeOK
  <2>6. \A j \in Held' : j \in Held /\ leases'[j].token = leases[j].token
    BY <2>1, <2>4, <2>5 DEF Held
  <2>7. UNCHANGED <<state, result, idempotencyMap, idempotencyKey, waitingQueue,
                    issued, claim>>
    BY <1>3 DEF Heartbeat, jobVars
  <2> QED BY <2>6, <2>7
<1> QED BY <1>2, <1>3

(***************************************************************************)
(* One step per action.                                                    *)
(***************************************************************************)
LEMMA NextClaims ==
  ASSUME IInv, ClaimInv, [Next]_vars
  PROVE  ClaimInv'
<1>1. ASSUME NEW j \in JobIds, NEW k \in Keys \cup {j}, Enqueue(j, k)
      PROVE  ClaimInv'
  <2>1. /\ state' = [state EXCEPT ![j] = "QUEUED"] /\ state[j] = "ABSENT"
        /\ UNCHANGED <<result, leases, issued, claim>>
    BY <1>1 DEF Enqueue
  <2>2. \A i \in JobIds : state'[i] = "COMPLETED" <=> state[i] = "COMPLETED"
    BY <2>1 DEF IInv, TypeOK
  <2>3. Held' = Held
    BY <2>1 DEF Held
  <2> QED BY <2>1, <2>2, <2>3, NothingGranted
<1>2. ASSUME GetStats \/ \E w \in Workers : LeaseNothing(w) PROVE ClaimInv'
  <2>1. /\ state' = ReclaimedState /\ leases' = ReclaimedLeases
        /\ UNCHANGED <<result, issued, claim>>
    BY <1>2 DEF GetStats, LeaseNothing
  <2>2. \A i \in JobIds : state'[i] = "COMPLETED" <=> state[i] = "COMPLETED"
    BY <2>1 DEF ReclaimedState, Reenqueued
  <2>3. \A j \in Held' : j \in Held /\ leases'[j] = leases[j]
    BY <2>1, ReclaimKeepsTypes DEF Held, Running
  <2> QED BY <2>1, <2>2, <2>3, NothingGranted
<1>3. ASSUME NEW w \in Workers, NEW d \in Durations, LeaseNextJob(w, d)
      PROVE  ClaimInv'
  BY <1>3, LeaseClaims
<1>4. ASSUME Tick \/ \E w \in Workers : \E d \in Durations : Heartbeat(w, d)
      PROVE  ClaimInv'
  BY <1>4, TimeKeepsTokens, NothingGranted
<1>5. ASSUME NEW w \in Workers, CompleteJob(w) PROVE ClaimInv'
  BY <1>5, CompleteClaims
<1>6. ASSUME NEW w \in Workers, FailJob(w) PROVE ClaimInv'
  <2> DEFINE j == claim[w].job
             next == IF MayRetry(j) THEN "QUEUED" ELSE "FAILED"
  <2>1. /\ j \in JobIds /\ j \in Held
        /\ state' = [state EXCEPT ![j] = next]
        /\ leases' = [leases EXCEPT ![j] = None]
        /\ claim' = [claim EXCEPT ![w] = None]
        /\ UNCHANGED <<result, issued>>
    BY <1>6, ClaimTypes DEF FailJob, TokenIsCurrent, Held
  <2>2. next # "COMPLETED" /\ state[j] = "RUNNING"
    BY <2>1 DEF IInv, LeasedIffRunning
  <2> HIDE DEF j, next
  <2>3. \A i \in JobIds : state'[i] = "COMPLETED" <=> state[i] = "COMPLETED"
    BY <2>1, <2>2 DEF IInv, TypeOK
  <2>4. \A i \in Held' : i \in Held /\ leases'[i] = leases[i]
    BY <2>1 DEF Held, IInv, TypeOK
  <2>5. \A v \in Workers : claim'[v] = claim[v] \/ claim'[v] = None
    BY <2>1 DEF IInv, TypeOK
  <2> QED BY <2>1, <2>3, <2>4, <2>5, NothingGranted
<1>7. ASSUME NEW w \in Workers, Forget(w) PROVE ClaimInv'
  <2>1. /\ claim' = [claim EXCEPT ![w] = None]
        /\ UNCHANGED <<state, result, leases, issued>>
    BY <1>7 DEF Forget, jobVars
  <2>2. \A v \in Workers : claim'[v] = claim[v] \/ claim'[v] = None
    BY <2>1 DEF IInv, TypeOK
  <2>3. Held' = Held
    BY <2>1 DEF Held
  <2> QED BY <2>1, <2>2, <2>3, NothingGranted
<1>8. ASSUME NEW j \in JobIds, CancelJob(j) PROVE ClaimInv'
  <2>1. /\ state' = [state EXCEPT ![j] = "CANCELLED"] /\ state[j] # "COMPLETED"
        /\ leases' = [leases EXCEPT ![j] = None]
        /\ UNCHANGED <<result, issued, claim>>
    BY <1>8 DEF CancelJob, Cancellable, TERMINAL_STATES
  <2>2. \A i \in JobIds : state'[i] = "COMPLETED" <=> state[i] = "COMPLETED"
    BY <2>1 DEF IInv, TypeOK
  <2>3. \A i \in Held' : i \in Held /\ leases'[i] = leases[i]
    BY <2>1 DEF Held, IInv, TypeOK
  <2> QED BY <2>1, <2>2, <2>3, NothingGranted
<1>9. CASE UNCHANGED vars
  <2>1. Held' = Held
    BY <1>9 DEF vars, Held
  <2> QED BY <1>9, <2>1, NothingGranted DEF vars
<1> QED BY <1>1, <1>2, <1>3, <1>4, <1>5, <1>6, <1>7, <1>8, <1>9 DEF Next

(***************************************************************************)
(* The claims and results of every reachable state are as they should be.  *)
(***************************************************************************)
LEMMA ClaimInvariance == Spec => []ClaimInv
<1>1. Init => ClaimInv
  BY DEF Init, ClaimInv, OneHolderPerLease, ResultIsNewest
<1>2. IInv /\ ClaimInv /\ [Next]_vars => ClaimInv'
  BY NextClaims
<1> QED BY <1>1, <1>2, Invariance, PTL DEF Spec

(***************************************************************************)
(* A job handed to another worker can no longer be spoken for by the one   *)
(* that had it before.                                                     *)
(***************************************************************************)
THEOREM Ownership == Spec => []OneHolderPerLease
<1>1. ClaimInv => OneHolderPerLease
  BY DEF ClaimInv
<1> QED BY <1>1, ClaimInvariance, PTL

(***************************************************************************)
(* The result of a job is that of the worker it was last handed to.        *)
(***************************************************************************)
THEOREM NewestResult == Spec => []ResultIsNewest
<1>1. ClaimInv => ResultIsNewest
  BY DEF ClaimInv
<1> QED BY <1>1, ClaimInvariance, PTL

(***************************************************************************)
(* All of it: every job is in its place, one worker at most speaks for it, *)
(* and its result is the newest one, whoever stalls, restarts or is late.  *)
(***************************************************************************)
THEOREM ExactClaims == Spec => []ClaimsAreExact
<1>1. PlacesAreExact /\ OneHolderPerLease /\ ResultIsNewest => ClaimsAreExact
  BY DEF ClaimsAreExact
<1> QED BY <1>1, EveryJobIsInItsPlace, Ownership, NewestResult, PTL

-----------------------------------------------------------------------------
(***************************************************************************)
(* Only enqueue touches the keys, and only enqueue makes a job exist.      *)
(***************************************************************************)
LEMMA KeysStay ==
  ASSUME IInv, [Next]_vars,
         ~ \E j \in JobIds : \E k \in Keys \cup {j} : Enqueue(j, k)
  PROVE  /\ UNCHANGED <<idempotencyKey, idempotencyMap>>
         /\ \A i \in JobIds : state[i] = "ABSENT" => state'[i] = "ABSENT"
<1>1. \A i \in JobIds : state[i] = "ABSENT" => ReclaimedState[i] = "ABSENT"
  BY DEF ReclaimedState, Reenqueued
<1>2. ASSUME GetStats \/ \E w \in Workers : LeaseNothing(w)
      PROVE  /\ UNCHANGED <<idempotencyKey, idempotencyMap>>
             /\ \A i \in JobIds : state[i] = "ABSENT" => state'[i] = "ABSENT"
  BY <1>1, <1>2 DEF GetStats, LeaseNothing
<1>3. ASSUME NEW w \in Workers, NEW d \in Durations, LeaseNextJob(w, d)
      PROVE  /\ UNCHANGED <<idempotencyKey, idempotencyMap>>
             /\ \A i \in JobIds : state[i] = "ABSENT" => state'[i] = "ABSENT"
  <2> DEFINE j == Head(ReclaimedQueue)
  <2>1. j \in JobIds /\ j \in Entries(ReclaimedQueue)
    BY <1>3, ReclaimKeepsQueue, HeadTailEntries DEF LeaseNextJob, CanLease
  <2>2. ReclaimedState[j] = "QUEUED"
    BY <2>1, ReclaimKeepsQueue
  <2>3. state' = [ReclaimedState EXCEPT ![j] = "RUNNING"]
    BY <1>3, <2>2 DEF LeaseNextJob
  <2> HIDE DEF j
  <2>4. \A i \in JobIds \ {j} : state'[i] = ReclaimedState[i]
    BY <2>3, ReclaimKeepsTypes
  <2>5. \A i \in JobIds : state[i] = "ABSENT" => state'[i] = "ABSENT"
    BY <1>1, <2>2, <2>4
  <2> QED BY <1>3, <2>5 DEF LeaseNextJob
<1>4. ASSUME Tick \/ \E w \in Workers : \E d \in Durations : Heartbeat(w, d)
      PROVE  /\ UNCHANGED <<idempotencyKey, idempotencyMap>>
             /\ \A i \in JobIds : state[i] = "ABSENT" => state'[i] = "ABSENT"
  BY <1>4, TimeKeepsTokens
<1>5. ASSUME NEW w \in Workers, CompleteJob(w) \/ FailJob(w)
      PROVE  /\ UNCHANGED <<idempotencyKey, idempotencyMap>>
             /\ \A i \in JobIds : state[i] = "ABSENT" => state'[i] = "ABSENT"
  <2> DEFINE j == claim[w].job
  <2>1. /\ j \in Held /\ j \in JobIds
        /\ \E s : state' = [state EXCEPT ![j] = s]
        /\ UNCHANGED <<idempotencyKey, idempotencyMap>>
    BY <1>5, ClaimTypes DEF CompleteJob, FailJob, TokenIsCurrent, Held
  <2>2. state[j] = "RUNNING"
    BY <2>1 DEF IInv, LeasedIffRunning
  <2> HIDE DEF j
  <2> QED BY <2>1, <2>2 DEF IInv, TypeOK
<1>6. ASSUME NEW w \in Workers, Forget(w)
      PROVE  /\ UNCHANGED <<idempotencyKey, idempotencyMap>>
             /\ \A i \in JobIds : state[i] = "ABSENT" => state'[i] = "ABSENT"
  BY <1>6 DEF Forget, jobVars
<1>7. ASSUME NEW j \in JobIds, CancelJob(j)
      PROVE  /\ UNCHANGED <<idempotencyKey, idempotencyMap>>
             /\ \A i \in JobIds : state[i] = "ABSENT" => state'[i] = "ABSENT"
  <2>1. /\ state' = [state EXCEPT ![j] = "CANCELLED"] /\ state[j] # "ABSENT"
        /\ UNCHANGED <<idempotencyKey, idempotencyMap>>
    BY <1>7 DEF CancelJob, Cancellable
  <2> QED BY <2>1 DEF IInv, TypeOK
<1>8. CASE UNCHANGED vars
  BY <1>8 DEF vars
<1> QED BY <1>2, <1>3, <1>4, <1>5, <1>6, <1>7, <1>8 DEF Next

(***************************************************************************)
(* The step that could break the map keeps it: enqueue takes a free key.   *)
(***************************************************************************)
LEMMA NextKeys ==
  ASSUME IInv, OneJobPerKey, [Next]_vars
  PROVE  OneJobPerKey'
<1>1. CASE \E j \in JobIds : \E k \in Keys \cup {j} : Enqueue(j, k)
  <2>0. PICK j \in JobIds : \E k \in Keys \cup {j} : Enqueue(j, k)
    BY <1>1
  <2>1. PICK k \in Keys \cup {j} : Enqueue(j, k)
    BY <2>0
  <2>2. /\ state' = [state EXCEPT ![j] = "QUEUED"] /\ state[j] = "ABSENT"
        /\ idempotencyKey' = [idempotencyKey EXCEPT ![j] = k]
        /\ idempotencyMap' = [idempotencyMap EXCEPT ![k] = j]
        /\ idempotencyMap[k] = None
    BY <2>1 DEF Enqueue, KeyIsFree
  <2>3. k \in Keys \cup JobIds /\ k # None
    BY <2>1, NoneAssumption
  <2>4. idempotencyKey'[j] = k /\ idempotencyMap'[k] = j
    BY <2>2, <2>3 DEF IInv, TypeOK
  <2>5. ASSUME NEW i \in JobIds \ {j}, state'[i] # "ABSENT"
        PROVE  /\ idempotencyKey'[i] # None
               /\ idempotencyMap'[idempotencyKey'[i]] = i
    <3>1. state[i] # "ABSENT" /\ idempotencyKey'[i] = idempotencyKey[i]
      BY <2>2, <2>5 DEF IInv, TypeOK
    <3>2. idempotencyKey[i] # None /\ idempotencyMap[idempotencyKey[i]] = i
      BY <3>1 DEF OneJobPerKey
    <3>3. idempotencyKey[i] # k
      BY <2>2, <3>2, NoneAssumption
    <3>4. idempotencyKey[i] \in Keys \cup JobIds
      BY <3>2 DEF IInv, TypeOK
    <3>5. idempotencyMap'[idempotencyKey[i]] = idempotencyMap[idempotencyKey[i]]
      BY <2>2, <3>3, <3>4 DEF IInv, TypeOK
    <3> QED BY <3>1, <3>2, <3>5
  <2> QED BY <2>3, <2>4, <2>5 DEF OneJobPerKey
<1>2. CASE ~ \E j \in JobIds : \E k \in Keys \cup {j} : Enqueue(j, k)
  BY <1>2, KeysStay DEF OneJobPerKey
<1> QED BY <1>1, <1>2

(***************************************************************************)
(* One job per idempotency key, found under it for as long as the queue    *)
(* lives.                                                                  *)
(***************************************************************************)
THEOREM Idempotency == Spec => []OneJobPerKey
<1>1. Init => OneJobPerKey
  BY DEF Init, OneJobPerKey
<1>2. IInv /\ OneJobPerKey /\ [Next]_vars => OneJobPerKey'
  BY NextKeys
<1> QED BY <1>1, <1>2, Invariance, PTL DEF Spec

-----------------------------------------------------------------------------
(***************************************************************************)
(* A reclaim puts back no more jobs than it takes leases away.             *)
(***************************************************************************)
LEMMA ReclaimSizes ==
  ASSUME IInv
  PROVE  /\ IsFiniteSet(Held) /\ Cardinality(Held) \in Nat
         /\ IsFiniteSet(Running) /\ Cardinality(Running) \in Nat
         /\ Cardinality(Running) <= Cardinality(Held)
         /\ Len(ReclaimedQueue) \in Nat /\ Len(waitingQueue) \in Nat
         /\ Len(ReclaimedQueue) + Cardinality(Running)
              <= Len(waitingQueue) + Cardinality(Held)
<1>1. Held \subseteq JobIds /\ Stale \subseteq Held /\ Reenqueued \subseteq Stale
  BY DEF Held, Stale, Reenqueued
<1>2. IsFiniteSet(Held) /\ IsFiniteSet(Stale)
  BY <1>1, JobIdsAssumption, FS_Subset
<1>3. /\ IsFiniteSet(Reenqueued)
      /\ Cardinality(Reenqueued) <= Cardinality(Stale)
  BY <1>1, <1>2, FS_Subset
<1>4. /\ IsFiniteSet(Running)
      /\ Cardinality(Running) = Cardinality(Held) - Cardinality(Held \cap Stale)
  BY <1>2, FS_Difference DEF Running
<1>5. Held \cap Stale = Stale
  BY <1>1
<1>6. /\ Cardinality(Held) \in Nat /\ Cardinality(Stale) \in Nat
      /\ Cardinality(Running) \in Nat /\ Cardinality(Reenqueued) \in Nat
  BY <1>2, <1>3, <1>4, FS_CardinalityType
<1>7. /\ Len(ReclaimedQueue) = Len(waitingQueue) + Cardinality(Reenqueued)
      /\ Len(waitingQueue) \in Nat
  BY ReclaimKeepsQueue DEF IInv, TypeOK
<1> DEFINE held == Cardinality(Held)
           stale == Cardinality(Stale)
           kept == Cardinality(Running)
           again == Cardinality(Reenqueued)
           waiting == Len(waitingQueue)
<1>8. /\ held \in Nat /\ stale \in Nat /\ kept \in Nat /\ again \in Nat
      /\ waiting \in Nat /\ kept = held - stale /\ again <= stale
      /\ Len(ReclaimedQueue) = waiting + again
  BY <1>3, <1>4, <1>5, <1>6, <1>7
<1> HIDE DEF held, stale, kept, again, waiting
<1>9. /\ kept <= held /\ Len(ReclaimedQueue) \in Nat
      /\ Len(ReclaimedQueue) + kept <= waiting + held
  BY <1>8
<1> QED BY <1>2, <1>4, <1>8, <1>9 DEF held, kept, waiting

(***************************************************************************)
(* Taking a lease away makes one job less hold one.                        *)
(***************************************************************************)
LEMMA ReleaseSizes ==
  ASSUME IInv, NEW j \in JobIds, Held' = Held \ {j}
  PROVE  /\ Cardinality(Held') \in Nat
         /\ j \in Held => Cardinality(Held') = Cardinality(Held) - 1
         /\ Cardinality(Held') <= Cardinality(Held)
<1>1. IsFiniteSet(Held) /\ Cardinality(Held) \in Nat
  BY ReclaimSizes
<1>2. j \in Held => Cardinality(Held \ {j}) = Cardinality(Held) - 1
  BY <1>1, FS_RemoveElement
<1>3. /\ Cardinality(Held \ {j}) \in Nat
      /\ Cardinality(Held \ {j}) <= Cardinality(Held)
  <2>1. Held \ {j} \in SUBSET Held
    OBVIOUS
  <2> QED BY <1>1, <2>1, FS_Subset, FS_CardinalityType
<1> QED BY <1>2, <1>3

(***************************************************************************)
(* One step per action: whoever enters the queue past enqueue's own check  *)
(* has just given a lease up.                                              *)
(***************************************************************************)
LEMMA NextBacklog ==
  ASSUME IInv, BacklogBound, [Next]_vars
  PROVE  BacklogBound'
<1> DEFINE held == Cardinality(Held)
           waiting == Len(waitingQueue)
<1>0. /\ held \in Nat /\ waiting \in Nat
      /\ maxQueueDepth \in Nat /\ maxRunningJobs \in Nat
      /\ held <= maxRunningJobs
      /\ waiting + held <= maxQueueDepth + maxRunningJobs
  BY ReclaimSizes, LimitsAssumption DEF BacklogBound
<1>1. ASSUME NEW j \in JobIds, NEW k \in Keys \cup {j}, Enqueue(j, k)
      PROVE  BacklogBound'
  <2>1. Held' = Held
    BY <1>1 DEF Enqueue, Held
  <2>2. waiting < maxQueueDepth /\ Len(waitingQueue') = waiting + 1
    BY <1>1, AppendEntries DEF Enqueue, IInv, TypeOK
  <2> QED BY <1>0, <2>1, <2>2 DEF BacklogBound
<1>2. ASSUME GetStats \/ \E w \in Workers : LeaseNothing(w) PROVE BacklogBound'
  <2>1. Held' = Running /\ waitingQueue' = ReclaimedQueue
    BY <1>2, ReclaimKeepsTypes DEF GetStats, LeaseNothing, Held
  <2> QED BY <1>0, <2>1, ReclaimSizes DEF BacklogBound
<1>3. ASSUME NEW w \in Workers, NEW d \in Durations, LeaseNextJob(w, d)
      PROVE  BacklogBound'
  <2> DEFINE j == Head(ReclaimedQueue)
             lease == [token |-> issued + 1, left |-> d]
  <2>1. /\ j \in JobIds /\ j \in Entries(ReclaimedQueue)
        /\ Len(Tail(ReclaimedQueue)) = Len(ReclaimedQueue) - 1
    BY <1>3, ReclaimKeepsQueue, HeadTailEntries DEF LeaseNextJob, CanLease
  <2>2. ReclaimedState[j] = "QUEUED"
    BY <2>1, ReclaimKeepsQueue
  <2>3. /\ leases' = [ReclaimedLeases EXCEPT ![j] = lease]
        /\ waitingQueue' = Tail(ReclaimedQueue)
        /\ Cardinality(Running) < maxRunningJobs
    BY <1>3, <2>2 DEF LeaseNextJob, CanLease, NewToken, TimeLeft
  <2>4. lease # None
    BY DurationsAssumption, NoneAssumption, ClaimTypes
  <2>5. j \notin Running
    BY <2>1, <2>2, ReclaimKeepsTypes
  <2> HIDE DEF j, lease
  <2>6. Held' = Running \cup {j}
    BY <2>1, <2>3, <2>4, ReclaimKeepsTypes DEF Held
  <2>7. Cardinality(Held') = Cardinality(Running) + 1
    BY <2>5, <2>6, ReclaimSizes, FS_AddElement
  <2> QED BY <1>0, <2>1, <2>3, <2>7, ReclaimSizes DEF BacklogBound
<1>4. ASSUME Tick \/ \E w \in Workers : \E d \in Durations : Heartbeat(w, d)
      PROVE  BacklogBound'
  <2>1. Held' \subseteq Held /\ waitingQueue' = waitingQueue
    BY <1>4, TimeKeepsTokens
  <2>2. Cardinality(Held') \in Nat /\ Cardinality(Held') <= held
    BY <2>1, ReclaimSizes, FS_Subset, FS_CardinalityType
  <2> QED BY <1>0, <2>1, <2>2 DEF BacklogBound
<1>5. ASSUME NEW w \in Workers, CompleteJob(w) \/ FailJob(w) PROVE BacklogBound'
  <2> DEFINE j == claim[w].job
  <2>1. /\ j \in Held /\ j \in JobIds
        /\ leases' = [leases EXCEPT ![j] = None]
        /\ waitingQueue' = waitingQueue \/ waitingQueue' = <<j>> \o waitingQueue
    BY <1>5, ClaimTypes DEF CompleteJob, FailJob, TokenIsCurrent, Held, PutBack
  <2> HIDE DEF j
  <2>2. Held' = Held \ {j}
    BY <2>1 DEF Held, IInv, TypeOK
  <2>3. Cardinality(Held') \in Nat /\ Cardinality(Held') = held - 1
    BY <2>1, <2>2, ReleaseSizes
  <2>4. Len(waitingQueue') \in Nat /\ Len(waitingQueue') <= waiting + 1
    <3> DEFINE one == <<j>>
    <3>1. one \in Seq(JobIds) /\ Len(one) = 1 /\ waitingQueue \in Seq(JobIds)
      BY <2>1 DEF IInv, TypeOK
    <3>2. waitingQueue' = waitingQueue \/ waitingQueue' = one \o waitingQueue
      BY <2>1
    <3> HIDE DEF one
    <3>3. Len(one \o waitingQueue) = 1 + waiting
      BY <3>1, ConcatEntries
    <3> QED BY <1>0, <3>2, <3>3
  <2> QED BY <1>0, <2>3, <2>4 DEF BacklogBound
<1>6. ASSUME NEW w \in Workers, Forget(w) PROVE BacklogBound'
  BY <1>6 DEF Forget, jobVars, Held, BacklogBound
<1>7. ASSUME NEW j \in JobIds, CancelJob(j) PROVE BacklogBound'
  <2>1. leases' = [leases EXCEPT ![j] = None] /\ waitingQueue' = Without(waitingQueue, j)
    BY <1>7 DEF CancelJob
  <2>2. Held' = Held \ {j}
    BY <2>1 DEF Held, IInv, TypeOK
  <2>3. Cardinality(Held') \in Nat /\ Cardinality(Held') <= held
    BY <1>0, <2>2, ReleaseSizes
  <2>4. waitingQueue \in Seq(JobIds)
    BY DEF IInv, TypeOK
  <2>5. Without(waitingQueue, j) \in Seq(JobIds) /\ Len(Without(waitingQueue, j)) <= waiting
    BY <2>4, WithoutDrops
  <2>6. Len(waitingQueue') \in Nat /\ Len(waitingQueue') <= waiting
    BY <2>1, <2>5
  <2> QED BY <1>0, <2>3, <2>6 DEF BacklogBound
<1>8. CASE UNCHANGED vars
  BY <1>8 DEF vars, Held, BacklogBound
<1> QED BY <1>1, <1>2, <1>3, <1>4, <1>5, <1>6, <1>7, <1>8 DEF Next

(***************************************************************************)
(* However many retries bypass the check of enqueue, the jobs waiting and  *)
(* running stay within maxQueueDepth and maxRunningJobs together.          *)
(***************************************************************************)
THEOREM BoundedBacklog == Spec => []BacklogBound
<1>1. Init => BacklogBound
  <2> SUFFICES ASSUME Init PROVE BacklogBound
    OBVIOUS
  <2>1. Held = {}
    BY DEF Init, Held
  <2>2. Cardinality(Held) = 0 /\ Len(waitingQueue) = 0
    BY <2>1, FS_EmptySet DEF Init
  <2> QED BY <2>2, LimitsAssumption DEF BacklogBound
<1>2. IInv /\ BacklogBound /\ [Next]_vars => BacklogBound'
  BY NextBacklog
<1> QED BY <1>1, <1>2, Invariance, PTL DEF Spec

-----------------------------------------------------------------------------
(***************************************************************************)
(* What has been tried is in front of what has not.                        *)
(***************************************************************************)

(***************************************************************************)
(* In the sequence s of job ids, those that were tried come first.         *)
(***************************************************************************)
TriedFirst(s, tries) ==
  \A i, k \in DOMAIN s : i < k /\ tries[s[k]] > 0 => tries[s[i]] > 0

(***************************************************************************)
(* RetriesGoFirst is inductive once it is known that whatever is put back  *)
(* at the front has run, and that what is put at the end has not.          *)
(***************************************************************************)
OrderInv ==
  /\ TriedFirst(waitingQueue, attempts)
  /\ \A j \in JobIds : state[j] = "RUNNING" => attempts[j] > 0
  /\ \A j \in JobIds : state[j] = "ABSENT" => attempts[j] = 0

-----------------------------------------------------------------------------
(***************************************************************************)
(* Jobs that were tried, put in front of the others, keep the order.       *)
(***************************************************************************)
LEMMA PutInFront ==
  ASSUME NEW s \in Seq(JobIds), NEW t \in Seq(JobIds), NEW tries \in [JobIds -> Nat],
         TriedFirst(t, tries), \A j \in Entries(s) : tries[j] > 0
  PROVE  TriedFirst(s \o t, tries)
<1> DEFINE u == s \o t
<1>1. /\ DOMAIN u = 1 .. Len(s) + Len(t) /\ Len(s) \in Nat /\ Len(t) \in Nat
      /\ DOMAIN s = 1 .. Len(s) /\ DOMAIN t = 1 .. Len(t)
      /\ \A i \in 1 .. Len(s) + Len(t) :
           u[i] = IF i <= Len(s) THEN s[i] ELSE t[i - Len(s)]
  OBVIOUS
<1> HIDE DEF u
<1>2. SUFFICES ASSUME NEW i \in DOMAIN u, NEW k \in DOMAIN u, i < k,
                      tries[u[k]] > 0
               PROVE  tries[u[i]] > 0
  BY DEF TriedFirst, u
<1>3. CASE i <= Len(s)
  BY <1>1, <1>3 DEF Entries
<1>4. CASE ~(i <= Len(s))
  <2>1. /\ i - Len(s) \in DOMAIN t /\ k - Len(s) \in DOMAIN t
        /\ i - Len(s) < k - Len(s)
        /\ u[i] = t[i - Len(s)] /\ u[k] = t[k - Len(s)]
    BY <1>1, <1>2, <1>4
  <2> QED BY <1>2, <2>1 DEF TriedFirst
<1> QED BY <1>3, <1>4

(***************************************************************************)
(* So does a job nobody tried, put at the end.                             *)
(***************************************************************************)
LEMMA PutAtEnd ==
  ASSUME NEW s \in Seq(JobIds), NEW j \in JobIds, NEW tries \in [JobIds -> Nat],
         TriedFirst(s, tries), tries[j] = 0
  PROVE  TriedFirst(Append(s, j), tries)
<1> DEFINE u == Append(s, j)
<1>1. /\ DOMAIN u = 1 .. Len(s) + 1 /\ Len(s) \in Nat /\ DOMAIN s = 1 .. Len(s)
      /\ \A i \in 1 .. Len(s) : u[i] = s[i]
      /\ u[Len(s) + 1] = j
  OBVIOUS
<1> HIDE DEF u
<1>2. SUFFICES ASSUME NEW i \in DOMAIN u, NEW k \in DOMAIN u, i < k,
                      tries[u[k]] > 0
               PROVE  tries[u[i]] > 0
  BY DEF TriedFirst, u
<1>3. k # Len(s) + 1
  BY <1>1, <1>2
<1>4. i \in DOMAIN s /\ k \in DOMAIN s /\ u[i] = s[i] /\ u[k] = s[k]
  BY <1>1, <1>2, <1>3
<1> QED BY <1>2, <1>4 DEF TriedFirst

(***************************************************************************)
(* The order does not depend on the first job being there.                 *)
(***************************************************************************)
LEMMA TakeFirst ==
  ASSUME NEW s \in Seq(JobIds), s # <<>>, NEW tries, TriedFirst(s, tries)
  PROVE  TriedFirst(Tail(s), tries)
<1> DEFINE u == Tail(s)
<1>1. /\ DOMAIN u = 1 .. Len(s) - 1 /\ Len(s) \in Nat /\ DOMAIN s = 1 .. Len(s)
      /\ \A i \in 1 .. Len(s) - 1 : u[i] = s[i + 1]
  OBVIOUS
<1> HIDE DEF u
<1>2. \A i \in DOMAIN u : i + 1 \in DOMAIN s /\ u[i] = s[i + 1]
  BY <1>1
<1>3. \A i, k \in DOMAIN u : i < k => i + 1 < k + 1
  BY <1>1
<1> QED BY <1>2, <1>3 DEF TriedFirst, u

(***************************************************************************)
(* Nor on any other.                                                       *)
(***************************************************************************)
LEMMA DropOne ==
  ASSUME NEW s \in Seq(JobIds), NEW x, NEW tries, TriedFirst(s, tries)
  PROVE  TriedFirst(Without(s, x), tries)
<1>1. SUFFICES ASSUME NEW i \in DOMAIN Without(s, x), NEW k \in DOMAIN Without(s, x),
                      i < k, tries[Without(s, x)[k]] > 0
               PROVE  tries[Without(s, x)[i]] > 0
  BY DEF TriedFirst
<1>2. \E a, b \in DOMAIN s :
        a < b /\ Without(s, x)[i] = s[a] /\ Without(s, x)[k] = s[b]
  BY <1>1, WithoutKeepsOrder
<1> QED BY <1>1, <1>2 DEF TriedFirst

(***************************************************************************)
(* What a reclaim puts in front of the queue was running, hence tried.     *)
(***************************************************************************)
LEMMA ReclaimOrder ==
  ASSUME IInv, OrderInv
  PROVE  /\ TriedFirst(ReclaimedQueue, attempts)
         /\ \A j \in JobIds : ReclaimedState[j] = "RUNNING" => attempts[j] > 0
         /\ \A j \in JobIds : ReclaimedState[j] = "ABSENT" => attempts[j] = 0
<1> DEFINE rank == [j \in Reenqueued |-> -leases[j].token]
           back == Ranked(Reenqueued, rank)
<1>1. Reenqueued \subseteq JobIds /\ IsFiniteSet(Reenqueued)
  <2>1. Reenqueued \subseteq JobIds
    BY DEF Reenqueued, Stale, Held
  <2> QED BY <2>1, JobIdsAssumption, FS_Subset
<1>2. \A j \in Reenqueued : j \in Held /\ leases[j].token \in Nat
  BY NoneAssumption DEF IInv, TypeOK, Lease, Reenqueued, Stale, Held
<1>3. rank \in [Reenqueued -> Int]
  BY <1>2
<1>4. \A e, g \in Reenqueued : rank[e] = rank[g] => e = g
  <2>1. \A e, g \in Reenqueued : -leases[e].token = -leases[g].token
          => leases[e].token = leases[g].token
    BY <1>2
  <2> QED BY <1>2, <2>1 DEF IInv, TokensDrawn
<1>5. back \in Seq(Reenqueued) /\ Entries(back) = Reenqueued
  <2> HIDE DEF rank
  <2> QED BY <1>1, <1>3, <1>4, RankedLists
<1>6. ReclaimedQueue = back \o waitingQueue
  BY DEF ReclaimedQueue, PutBack
<1> HIDE DEF back, rank
<1>7. back \in Seq(JobIds) /\ \A j \in Entries(back) : attempts[j] > 0
  BY <1>1, <1>5 DEF OrderInv, Reenqueued
<1>8. waitingQueue \in Seq(JobIds) /\ attempts \in [JobIds -> Nat]
  BY DEF IInv, TypeOK
<1>9. TriedFirst(ReclaimedQueue, attempts)
  BY <1>6, <1>7, <1>8, PutInFront DEF OrderInv
<1>10. \A j \in JobIds : ReclaimedState[j] \in {"RUNNING", "ABSENT"}
                           => ReclaimedState[j] = state[j]
  BY DEF ReclaimedState
<1> QED BY <1>9, <1>10 DEF OrderInv

-----------------------------------------------------------------------------
(***************************************************************************)
(* Every step keeps the order.                                             *)
(***************************************************************************)
LEMMA NextOrder ==
  ASSUME IInv, OrderInv, [Next]_vars
  PROVE  OrderInv'
<1>0. /\ waitingQueue \in Seq(JobIds) /\ attempts \in [JobIds -> Nat]
      /\ state \in [JobIds -> JobState \cup {"ABSENT"}]
      /\ \A w \in Workers : claim[w] # None => claim[w].job \in JobIds
  BY DEF IInv, TypeOK, Claim
<1>1. ASSUME NEW j \in JobIds, NEW k \in Keys \cup {j}, Enqueue(j, k) PROVE OrderInv'
  <2>1. /\ attempts' = attempts /\ waitingQueue' = Append(waitingQueue, j)
        /\ state' = [state EXCEPT ![j] = "QUEUED"] /\ state[j] = "ABSENT"
    BY <1>1 DEF Enqueue
  <2>2. TriedFirst(waitingQueue', attempts')
    BY <1>0, <2>1, PutAtEnd DEF OrderInv
  <2> QED BY <1>0, <2>1, <2>2 DEF OrderInv
<1>2. ASSUME GetStats \/ \E w \in Workers : LeaseNothing(w) PROVE OrderInv'
  <2>1. /\ attempts' = attempts /\ waitingQueue' = ReclaimedQueue
        /\ state' = ReclaimedState
    BY <1>2 DEF GetStats, LeaseNothing
  <2> QED BY <2>1, ReclaimOrder DEF OrderInv
<1>3. ASSUME NEW w \in Workers, NEW d \in Durations, LeaseNextJob(w, d)
      PROVE  OrderInv'
  <2> DEFINE j == Head(ReclaimedQueue)
             rest == Tail(ReclaimedQueue)
  <2>1. /\ ReclaimedQueue \in Seq(JobIds) /\ ReclaimedQueue # <<>>
        /\ Distinct(ReclaimedQueue)
        /\ Entries(ReclaimedQueue) = {i \in JobIds : ReclaimedState[i] = "QUEUED"}
    BY <1>3, ReclaimKeepsQueue DEF LeaseNextJob, CanLease
  <2>2. /\ j \in JobIds /\ j \in Entries(ReclaimedQueue)
        /\ rest \in Seq(JobIds) /\ Entries(rest) = Entries(ReclaimedQueue) \ {j}
    BY <2>1, HeadTailEntries
  <2>3. /\ waitingQueue' = rest
        /\ state' = [ReclaimedState EXCEPT ![j] = "RUNNING"]
        /\ attempts' = [attempts EXCEPT ![j] = @ + 1]
    BY <1>3, <2>1, <2>2 DEF LeaseNextJob
  <2>4. TriedFirst(rest, attempts)
    BY <2>1, ReclaimOrder, TakeFirst
  <2>5. ReclaimedState \in [JobIds -> JobState \cup {"ABSENT"}]
    BY ReclaimKeepsTypes
  <2> HIDE DEF j, rest
  <2>6. \A i \in DOMAIN rest : rest[i] \in JobIds /\ rest[i] # j
    BY <2>2 DEF Entries
  <2>7. \A i \in DOMAIN rest : attempts'[rest[i]] = attempts[rest[i]]
    BY <1>0, <2>3, <2>6
  <2>8. TriedFirst(waitingQueue', attempts')
    BY <2>3, <2>4, <2>7 DEF TriedFirst
  <2>9. \A i \in JobIds : /\ state'[i] = "RUNNING" => attempts'[i] > 0
                          /\ state'[i] = "ABSENT" => attempts'[i] = 0
    BY <1>0, <2>2, <2>3, <2>5, ReclaimOrder
  <2> QED BY <2>8, <2>9 DEF OrderInv
<1>4. ASSUME NEW w \in Workers, NEW d \in Durations, Heartbeat(w, d) PROVE OrderInv'
  BY <1>4 DEF Heartbeat, jobVars, OrderInv
<1>5. ASSUME NEW w \in Workers, CompleteJob(w) PROVE OrderInv'
  BY <1>0, <1>5 DEF CompleteJob, OrderInv
<1>6. ASSUME NEW w \in Workers, FailJob(w) PROVE OrderInv'
  <2> DEFINE j == claim[w].job
  <2>1. /\ j \in JobIds /\ j \in Held
        /\ attempts' = attempts
        /\ state' = [state EXCEPT ![j] = IF MayRetry(j) THEN "QUEUED" ELSE "FAILED"]
        /\ waitingQueue' = waitingQueue \/ waitingQueue' = <<j>> \o waitingQueue
    BY <1>0, <1>6 DEF FailJob, TokenIsCurrent, Held, PutBack
  <2> HIDE DEF j
  <2>2. attempts[j] > 0
    BY <2>1 DEF IInv, LeasedIffRunning, OrderInv
  <2>3. <<j>> \in Seq(JobIds) /\ Entries(<<j>>) = {j}
    BY <2>1, SingletonEntries
  <2>4. TriedFirst(<<j>> \o waitingQueue, attempts)
    <3> DEFINE one == <<j>>
    <3>1. one \in Seq(JobIds) /\ \A i \in Entries(one) : attempts[i] > 0
      BY <2>2, <2>3
    <3> HIDE DEF one
    <3>2. TriedFirst(one \o waitingQueue, attempts)
      BY <1>0, <3>1, PutInFront DEF OrderInv
    <3> QED BY <3>2 DEF one
  <2>5. TriedFirst(waitingQueue', attempts')
    BY <2>1, <2>4 DEF OrderInv
  <2>6. \A i \in JobIds : state'[i] \in {"RUNNING", "ABSENT"} => state'[i] = state[i]
    BY <1>0, <2>1
  <2> QED BY <2>1, <2>5, <2>6 DEF OrderInv
<1>7. ASSUME NEW w \in Workers, Forget(w) PROVE OrderInv'
  BY <1>7 DEF Forget, jobVars, OrderInv
<1>8. ASSUME NEW j \in JobIds, CancelJob(j) PROVE OrderInv'
  <2>1. /\ attempts' = attempts /\ waitingQueue' = Without(waitingQueue, j)
        /\ state' = [state EXCEPT ![j] = "CANCELLED"]
    BY <1>8 DEF CancelJob
  <2>2. TriedFirst(waitingQueue', attempts')
    BY <1>0, <2>1, DropOne DEF OrderInv
  <2> QED BY <1>0, <2>1, <2>2 DEF OrderInv
<1>9. ASSUME Tick PROVE OrderInv'
  BY <1>9 DEF Tick, jobVars, OrderInv
<1>10. CASE UNCHANGED vars
  BY <1>10 DEF vars, OrderInv
<1> QED BY <1>1, <1>2, <1>3, <1>4, <1>5, <1>6, <1>7, <1>8, <1>9, <1>10 DEF Next

(***************************************************************************)
(* A job that already ran never waits behind one that has not: reclaims    *)
(* and failures put it in front, and cancellations keep the order.         *)
(***************************************************************************)
THEOREM RetriesInFront == Spec => []RetriesGoFirst
<1>1. Init => OrderInv
  BY DEF Init, OrderInv, TriedFirst
<1>2. IInv /\ OrderInv /\ [Next]_vars => OrderInv'
  BY NextOrder
<1>3. OrderInv => RetriesGoFirst
  BY DEF OrderInv, TriedFirst, RetriesGoFirst
<1> QED BY <1>1, <1>2, <1>3, Invariance, PTL DEF Spec

(***************************************************************************)
(* Retries are bounded in number, leave the backlog within its limits and  *)
(* are served before what has not run yet.                                 *)
(***************************************************************************)
THEOREM OrderlyRetries == Spec => []RetriesAreOrderly
<1>1. BacklogBound /\ AttemptsWithinBudget /\ RetriesGoFirst => RetriesAreOrderly
  BY DEF RetriesAreOrderly
<1> QED BY <1>1, BoundedBacklog, RetryBudget, RetriesInFront, PTL

=============================================================================
