---------------------------- MODULE Redis_proofs ----------------------------
(***************************************************************************)
(* Proofs about RedisQueue, for any number of jobs, keys, producers and    *)
(* consumers, with and without crashes and lease keys that run out, and    *)
(* about ProductDispatch, for any number of API processes and daemons.     *)
(* What the first part shows of the producers' calls is used again in the  *)
(* second: the daemons are not the queue's consumers, but write only what  *)
(* no call looks at.                                                       *)
(***************************************************************************)
EXTENDS ProductDispatch, Ranking_proofs

-----------------------------------------------------------------------------
(* The queue, whose consumers lease jobs.                                  *)

(***************************************************************************)
(* Job j is in the list, or with a consumer: somebody may still run it.    *)
(***************************************************************************)
Claimed(j) == j \in Entries(waiting) \/ \E c \in Consumers : proc[c].id = j

(***************************************************************************)
(* What a call that is under way knows of its job, of which doc is the     *)
(* current document: a copy is written back only while nobody else could   *)
(* have written the job since it was read.                                 *)
(***************************************************************************)
CopyIsCurrent(call, doc) ==
  /\ call.at \in {"GET popped", "SET running", "RPUSH"} => doc.state = "QUEUED"
  /\ call.at \in {"SET lease", "working", "GET completed", "SET completed",
                  "DEL failed lease", "SET failed"} => doc.state = "RUNNING"
  /\ call.at \in {"SET running", "SET completed", "DEL failed lease", "SET failed"}
       => call.doc = doc

ConsumersHoldJobs ==
  \A c \in Consumers :
    \/ proc[c] = Idle
    \/ /\ proc[c].at \in LeaseSteps \cup {"working"} \cup CompleteSteps \cup FailSteps
       /\ proc[c].id \in JobIds
       /\ job[proc[c].id] \in Doc
       /\ CopyIsCurrent(proc[c], job[proc[c].id])

(***************************************************************************)
(* Up to LPUSH a job is nobody else's.                                     *)
(***************************************************************************)
SubmissionIsPrivate(call) ==
  /\ call.at \in {"LLEN", "SET job"} => job[call.id] = None
  /\ call.at = "LPUSH" => /\ job[call.id] \in Doc
                          /\ job[call.id].state = "QUEUED"
                          /\ ~Claimed(call.id)
  /\ call.at = "SET idemp" => job[call.id] \in Doc

ProducersSubmitJobs ==
  \A p \in Producers :
    \/ proc[p] = Idle
    \/ /\ proc[p].at \in EnqueueSteps
       /\ proc[p].id \in JobIds
       /\ proc[p].key \in Keys \cup JobIds
       /\ SubmissionIsPrivate(proc[p])

OneProducerPerJob ==
  \A p, q \in Producers :
    proc[p].id # None /\ proc[p].id = proc[q].id => p = q

ListedAreQueued ==
  \A j \in Entries(waiting) : job[j] \in Doc /\ job[j].state = "QUEUED"

IInv ==
  /\ TypeOK
  /\ ConsumersHoldJobs
  /\ ProducersSubmitJobs
  /\ OneProducerPerJob
  /\ ListedAreQueued
  /\ OneConsumerPerJob

-----------------------------------------------------------------------------
(***************************************************************************)
(* What the invariant says of one consumer that is in a call.              *)
(***************************************************************************)
Holding == LeaseSteps \cup {"working"} \cup CompleteSteps \cup FailSteps

(***************************************************************************)
(* A consumer that is in a call has a job that is in nobody else's hands   *)
(* and of which it knows the state.                                        *)
(***************************************************************************)
LEMMA HolderFacts ==
  ASSUME IInv, NEW c \in Consumers, proc[c].at # "idle"
  PROVE  /\ proc[c] \in Local /\ proc[c] # Idle
         /\ proc[c].at \in Holding
         /\ proc[c].id \in JobIds
         /\ job[proc[c].id] \in Doc
         /\ CopyIsCurrent(proc[c], job[proc[c].id])
         /\ proc[c].id \notin Entries(waiting)
         /\ \A d \in Consumers \ {c} : proc[d].id # proc[c].id
<1>1. proc[c] \in Local
  BY DEF IInv, TypeOK
<1>2. proc[c] # Idle
  BY DEF Idle
<1>3. /\ proc[c].at \in Holding
      /\ proc[c].id \in JobIds
      /\ job[proc[c].id] \in Doc
      /\ CopyIsCurrent(proc[c], job[proc[c].id])
  BY <1>2 DEF IInv, ConsumersHoldJobs, Holding
<1>4. proc[c].id # None
  BY <1>3, NoneAssumption
<1> QED BY <1>1, <1>2, <1>3, <1>4 DEF IInv, OneConsumerPerJob

(***************************************************************************)
(* A consumer that holds a job writes the document of that job, or leaves  *)
(* it as it is, and goes on or is done with the job.                       *)
(***************************************************************************)
LEMMA HolderStep ==
  ASSUME IInv, NEW c \in Consumers, proc[c].at # "idle",
         NEW doc \in Doc, job' = [job EXCEPT ![proc[c].id] = doc],
         NEW me \in Local, proc' = [proc EXCEPT ![c] = me],
         \/ me = Idle
         \/ me.at \in Holding /\ me.id = proc[c].id /\ CopyIsCurrent(me, doc),
         waiting' = waiting, idemp' = idemp,
         lease' \in [JobIds -> Nat \cup {None}], issued' \in Nat,
         abandoned' \subseteq JobIds
  PROVE  IInv'
<1> DEFINE j == proc[c].id
<1>1. /\ j \in JobIds /\ j # None
      /\ job[j] \in Doc /\ job[j] # None
      /\ j \notin Entries(waiting)
      /\ \A d \in Consumers \ {c} : proc[d].id # j
  BY HolderFacts, NoneAssumption
<1>2. /\ job \in [JobIds -> Doc \cup {None}]
      /\ proc \in [Producers \cup Consumers -> Local]
  BY DEF IInv, TypeOK
<1>3. c \notin Producers
  BY ProcessesAssumption
<1>4. /\ proc'[c] = me
      /\ \A d \in Consumers \ {c} : proc'[d] = proc[d]
      /\ \A p \in Producers : proc'[p] = proc[p]
  BY <1>2, <1>3
<1>5. job'[j] = doc /\ \A i \in JobIds \ {j} : job'[i] = job[i]
  BY <1>1, <1>2
<1>6. Idle.id = None
  BY DEF Idle
<1> HIDE DEF j
<1>7. TypeOK'
  <2>1. job' \in [JobIds -> Doc \cup {None}]
    BY <1>1, <1>2 DEF j
  <2>2. proc' \in [Producers \cup Consumers -> Local]
    BY <1>2
  <2> QED BY <2>1, <2>2 DEF IInv, TypeOK
<1>8. ConsumersHoldJobs'
  <2> SUFFICES ASSUME NEW d \in Consumers, proc'[d] # Idle
               PROVE  /\ proc'[d].at \in Holding
                      /\ proc'[d].id \in JobIds
                      /\ job'[proc'[d].id] \in Doc
                      /\ CopyIsCurrent(proc'[d], job'[proc'[d].id])
    BY DEF ConsumersHoldJobs, Holding, CopyIsCurrent
  <2>1. CASE d = c
    BY <1>1, <1>4, <1>5, <2>1 DEF j
  <2>2. CASE d # c
    <3>1. proc'[d] = proc[d] /\ proc[d].id # j
      BY <1>1, <1>4, <2>2
    <3>2. /\ proc[d].at \in Holding
          /\ proc[d].id \in JobIds
          /\ job[proc[d].id] \in Doc
          /\ CopyIsCurrent(proc[d], job[proc[d].id])
      BY <3>1 DEF IInv, ConsumersHoldJobs, Holding
    <3> QED BY <1>5, <3>1, <3>2
  <2> QED BY <2>1, <2>2
<1>9. \A i \in JobIds : Claimed(i)' => Claimed(i)
  BY <1>1, <1>4, <1>6, NoneAssumption DEF Claimed, j
<1>10. ProducersSubmitJobs'
  <2> SUFFICES ASSUME NEW p \in Producers, proc[p] # Idle
               PROVE  /\ proc[p].at \in EnqueueSteps
                      /\ proc[p].id \in JobIds
                      /\ proc[p].key \in Keys \cup JobIds
                      /\ SubmissionIsPrivate(proc[p])'
    BY <1>4 DEF ProducersSubmitJobs, SubmissionIsPrivate, Claimed
  <2>1. /\ proc[p].at \in EnqueueSteps
        /\ proc[p].id \in JobIds
        /\ proc[p].key \in Keys \cup JobIds
        /\ SubmissionIsPrivate(proc[p])
    BY DEF IInv, ProducersSubmitJobs
  <2>2. CASE proc[p].id = j
    <3>1. Claimed(j)
      BY DEF Claimed, j
    <3>2. proc[p].at = "SET idemp"
      BY <1>1, <2>1, <2>2, <3>1 DEF SubmissionIsPrivate, EnqueueSteps
    <3> QED BY <1>4, <1>5, <2>1, <2>2, <3>2 DEF SubmissionIsPrivate
  <2>3. CASE proc[p].id # j
    BY <1>4, <1>5, <1>9, <2>1, <2>3 DEF SubmissionIsPrivate
  <2> QED BY <2>2, <2>3
<1>11. OneProducerPerJob'
  BY <1>4 DEF IInv, OneProducerPerJob
<1>12. ListedAreQueued'
  <2>1. \A i \in Entries(waiting) : i \in JobIds /\ i # j
    BY <1>1 DEF IInv, TypeOK, Entries
  <2> QED BY <1>5, <2>1 DEF IInv, ListedAreQueued
<1>13. OneConsumerPerJob'
  BY <1>1, <1>4, <1>6 DEF IInv, OneConsumerPerJob, j
<1> QED BY <1>7, <1>8, <1>10, <1>11, <1>12, <1>13 DEF IInv

(***************************************************************************)
(* leaseNextJob, after the pop.                                            *)
(***************************************************************************)
LEMMA LeaseGetJobKeeps ==
  ASSUME IInv, NEW c \in Consumers, LeaseGetJob(c) PROVE IInv'
<1> DEFINE doc == job[proc[c].id]
           me == [proc[c] EXCEPT !.at = "SET running", !.doc = doc]
<1>1. proc[c].at = "GET popped"
  BY DEF LeaseGetJob
<1>2. /\ proc[c] \in Local /\ doc \in Doc /\ doc # None /\ proc[c].id \in JobIds
      /\ CopyIsCurrent(proc[c], doc)
  BY <1>1, HolderFacts, NoneAssumption
<1>3. doc.state = "QUEUED"
  BY <1>1, <1>2 DEF CopyIsCurrent
<1>4. me \in Local /\ me.at = "SET running" /\ me.id = proc[c].id /\ me.doc = doc
  BY <1>2 DEF Local, LeaseSteps
<1>5. proc' = [proc EXCEPT ![c] = me] /\ job' = job
  BY <1>2, <1>3 DEF LeaseGetJob, redis
<1>6. job' = [job EXCEPT ![proc[c].id] = doc]
  BY <1>5 DEF IInv, TypeOK
<1>7. me.at \in Holding /\ CopyIsCurrent(me, doc)
  BY <1>3, <1>4 DEF Holding, LeaseSteps, CopyIsCurrent
<1>8. /\ waiting' = waiting /\ idemp' = idemp
      /\ lease' \in [JobIds -> Nat \cup {None}] /\ issued' \in Nat
      /\ abandoned' \subseteq JobIds
  BY DEF LeaseGetJob, redis, IInv, TypeOK
<1> HIDE DEF doc, me
<1> QED BY <1>1, <1>2, <1>4, <1>5, <1>6, <1>7, <1>8, HolderStep

(***************************************************************************)
(* An attempt of a document is a document.                                 *)
(***************************************************************************)
LEMMA AttemptFacts ==
  ASSUME NEW doc \in Doc
  PROVE  /\ Attempt(doc) \in Doc
         /\ Attempt(doc).state = "RUNNING"
         /\ Attempt(doc).attempts = doc.attempts + 1
<1>1. doc.attempts + 1 \in Nat
  BY DEF Doc
<1> DEFINE n == doc.attempts + 1
           ran == [doc EXCEPT !.state = "RUNNING", !.attempts = n]
<1>2. Attempt(doc) = ran
  BY DEF Attempt
<1> HIDE DEF n
<1>3. n \in Nat
  BY <1>1 DEF n
<1>4. ran \in Doc /\ ran.state = "RUNNING" /\ ran.attempts = n
  BY <1>3 DEF Doc, JobState
<1> QED BY <1>2, <1>4 DEF n

(***************************************************************************)
(* LeaseSetJob: the attempt is counted on the current document.            *)
(***************************************************************************)
LEMMA LeaseSetJobKeeps ==
  ASSUME IInv, NEW c \in Consumers, LeaseSetJob(c) PROVE IInv'
<1> DEFINE doc == Attempt(proc[c].doc)
           me == [proc[c] EXCEPT !.at = "SET lease", !.token = issued + 1]
<1>1. proc[c].at = "SET running"
  BY DEF LeaseSetJob
<1>2. /\ proc[c] \in Local /\ proc[c].id \in JobIds
      /\ job[proc[c].id] \in Doc /\ CopyIsCurrent(proc[c], job[proc[c].id])
  BY <1>1, HolderFacts
<1>3. proc[c].doc \in Doc
  BY <1>1, <1>2 DEF CopyIsCurrent
<1>4. doc \in Doc /\ doc.state = "RUNNING"
  BY <1>3, AttemptFacts
<1>5. /\ me \in Local /\ me.at = "SET lease" /\ me.id = proc[c].id
      /\ issued + 1 \in Nat
  <2>1. issued + 1 \in Nat
    BY DEF IInv, TypeOK
  <2> DEFINE n == issued + 1
  <2> HIDE DEF n
  <2>2. n \in Nat
    BY <2>1 DEF n
  <2>3. [proc[c] EXCEPT !.at = "SET lease", !.token = n] \in Local
    BY <1>2, <2>2 DEF Local, LeaseSteps
  <2> QED BY <1>2, <2>1, <2>3 DEF n, Local
<1>6. /\ proc' = [proc EXCEPT ![c] = me]
      /\ job' = [job EXCEPT ![proc[c].id] = doc]
      /\ waiting' = waiting /\ idemp' = idemp
      /\ lease' = lease /\ issued' = issued + 1 /\ abandoned' = abandoned
  BY DEF LeaseSetJob
<1>8. /\ lease' \in [JobIds -> Nat \cup {None}] /\ issued' \in Nat
      /\ abandoned' \subseteq JobIds
  BY <1>5, <1>6 DEF IInv, TypeOK
<1>7. me.at \in Holding /\ CopyIsCurrent(me, doc)
  BY <1>4, <1>5 DEF Holding, LeaseSteps, CopyIsCurrent
<1> HIDE DEF doc, me
<1> QED BY <1>1, <1>4, <1>5, <1>6, <1>7, <1>8, HolderStep

(***************************************************************************)
(* The commands after which a consumer has the document it had before: the *)
(* state of a call that goes on to step `to` and still holds its job.      *)
(***************************************************************************)
LEMMA HolderWaits ==
  ASSUME IInv, NEW c \in Consumers, proc[c].at # "idle",
         job' = job, waiting' = waiting, idemp' = idemp, issued' = issued,
         abandoned' = abandoned, lease' \in [JobIds -> Nat \cup {None}],
         NEW me \in Local, proc' = [proc EXCEPT ![c] = me],
         \/ me = Idle
         \/ /\ me.at \in Holding /\ me.id = proc[c].id
            /\ CopyIsCurrent(me, job[proc[c].id])
  PROVE  IInv'
<1>1. job[proc[c].id] \in Doc
  BY HolderFacts
<1>2. job' = [job EXCEPT ![proc[c].id] = job[proc[c].id]]
  BY HolderFacts DEF IInv, TypeOK
<1>3. issued' \in Nat /\ abandoned' \subseteq JobIds
  BY DEF IInv, TypeOK
<1> QED BY <1>1, <1>2, <1>3, HolderStep

(***************************************************************************)
(* A process that does nothing is well-formed.                             *)
(***************************************************************************)
LEMMA IdleIsLocal == Idle \in Local
  BY DEF Idle, Local

(***************************************************************************)
(* LeaseSetLease: only the lease key changes.                              *)
(***************************************************************************)
LEMMA LeaseSetLeaseKeeps ==
  ASSUME IInv, NEW c \in Consumers, LeaseSetLease(c) PROVE IInv'
<1> DEFINE me == [proc[c] EXCEPT !.at = "working"]
<1>1. proc[c].at = "SET lease"
  BY DEF LeaseSetLease, GoTo
<1>2. /\ proc[c] \in Local /\ proc[c].id \in JobIds
      /\ CopyIsCurrent(proc[c], job[proc[c].id])
  BY <1>1, HolderFacts
<1>3. me \in Local /\ me.at = "working" /\ me.id = proc[c].id
  BY <1>2 DEF Local
<1>4. me.at \in Holding /\ CopyIsCurrent(me, job[proc[c].id])
  BY <1>1, <1>2, <1>3 DEF Holding, CopyIsCurrent
<1>5. lease' \in [JobIds -> Nat \cup {None}]
  BY <1>2 DEF LeaseSetLease, IInv, TypeOK, Local
<1>6. /\ proc' = [proc EXCEPT ![c] = me]
      /\ UNCHANGED <<job, waiting, idemp, issued, abandoned>>
  BY DEF LeaseSetLease, GoTo
<1> HIDE DEF me
<1> QED BY <1>1, <1>3, <1>4, <1>5, <1>6, HolderWaits

(***************************************************************************)
(* completeJob and failJob.                                                *)
(***************************************************************************)
LEMMA CompleteGetLeaseKeeps ==
  ASSUME IInv, NEW c \in Consumers, CompleteGetLease(c) PROVE IInv'
<1> DEFINE me == [proc[c] EXCEPT !.at = "GET completed"]
<1>1. proc[c].at = "working"
  BY DEF CompleteGetLease
<1>2. proc[c] \in Local /\ CopyIsCurrent(proc[c], job[proc[c].id])
  BY <1>1, HolderFacts
<1>3. me \in Local /\ me.at = "GET completed" /\ me.id = proc[c].id
  BY <1>2 DEF Local, CompleteSteps
<1>4. me.at \in Holding /\ CopyIsCurrent(me, job[proc[c].id])
  BY <1>1, <1>2, <1>3 DEF Holding, CompleteSteps, CopyIsCurrent
<1>5. /\ UNCHANGED <<job, waiting, idemp, lease, issued, abandoned>>
      /\ lease' \in [JobIds -> Nat \cup {None}]
  BY DEF CompleteGetLease, redis, IInv, TypeOK
<1>6. proc' = [proc EXCEPT ![c] = me] \/ proc' = [proc EXCEPT ![c] = Idle]
  BY DEF CompleteGetLease, GoTo, Return
<1> HIDE DEF me
<1> QED BY <1>1, <1>3, <1>4, <1>5, <1>6, HolderWaits, IdleIsLocal

(***************************************************************************)
(* CompleteGetJob: the copy is the current document, or the call returns.  *)
(***************************************************************************)
LEMMA CompleteGetJobKeeps ==
  ASSUME IInv, NEW c \in Consumers, CompleteGetJob(c) PROVE IInv'
<1> DEFINE doc == job[proc[c].id]
           me == [proc[c] EXCEPT !.at = "SET completed", !.doc = doc]
<1>1. proc[c].at = "GET completed"
  BY DEF CompleteGetJob
<1>2. proc[c] \in Local /\ doc \in Doc /\ CopyIsCurrent(proc[c], doc)
  BY <1>1, HolderFacts
<1>3. me \in Local /\ me.at = "SET completed" /\ me.id = proc[c].id /\ me.doc = doc
  BY <1>2 DEF Local, CompleteSteps
<1>4. me.at \in Holding /\ CopyIsCurrent(me, doc)
  BY <1>1, <1>2, <1>3 DEF Holding, CompleteSteps, CopyIsCurrent
<1>5. /\ UNCHANGED <<job, waiting, idemp, lease, issued, abandoned>>
      /\ lease' \in [JobIds -> Nat \cup {None}]
  BY DEF CompleteGetJob, redis, IInv, TypeOK
<1>6. proc' = [proc EXCEPT ![c] = me] \/ proc' = [proc EXCEPT ![c] = Idle]
  BY DEF CompleteGetJob
<1> HIDE DEF me
<1> QED BY <1>1, <1>3, <1>4, <1>5, <1>6, HolderWaits, IdleIsLocal

(***************************************************************************)
(* CompleteSetJob: the copy that is written back was still current.        *)
(***************************************************************************)
LEMMA CompleteSetJobKeeps ==
  ASSUME IInv, NEW c \in Consumers, CompleteSetJob(c) PROVE IInv'
<1> DEFINE doc == [proc[c].doc EXCEPT !.state = "COMPLETED"]
           me == [proc[c] EXCEPT !.at = "DEL lease"]
<1>1. proc[c].at = "SET completed"
  BY DEF CompleteSetJob, GoTo
<1>2. /\ proc[c] \in Local /\ job[proc[c].id] \in Doc
      /\ CopyIsCurrent(proc[c], job[proc[c].id])
  BY <1>1, HolderFacts
<1>3. proc[c].doc \in Doc
  BY <1>1, <1>2 DEF CopyIsCurrent
<1>4. doc \in Doc
  BY <1>3 DEF Doc, JobState
<1>5. me \in Local /\ me.at = "DEL lease" /\ me.id = proc[c].id
  BY <1>2 DEF Local, CompleteSteps
<1>6. me.at \in Holding /\ CopyIsCurrent(me, doc)
  BY <1>5 DEF Holding, CompleteSteps, CopyIsCurrent
<1>7. /\ proc' = [proc EXCEPT ![c] = me]
      /\ job' = [job EXCEPT ![proc[c].id] = doc]
      /\ UNCHANGED <<waiting, idemp, lease, issued, abandoned>>
  BY DEF CompleteSetJob, GoTo
<1>8. /\ lease' \in [JobIds -> Nat \cup {None}] /\ issued' \in Nat
      /\ abandoned' \subseteq JobIds
  BY <1>7 DEF IInv, TypeOK
<1> HIDE DEF doc, me
<1> QED BY <1>1, <1>4, <1>5, <1>6, <1>7, <1>8, HolderStep

(***************************************************************************)
(* CompleteDelLease: the call returns, and the job is let go of.           *)
(***************************************************************************)
LEMMA CompleteDelLeaseKeeps ==
  ASSUME IInv, NEW c \in Consumers, CompleteDelLease(c) PROVE IInv'
<1>1. proc[c].at = "DEL lease" /\ proc' = [proc EXCEPT ![c] = Idle]
  BY DEF CompleteDelLease, Return
<1>2. /\ UNCHANGED <<job, waiting, idemp, issued, abandoned>>
      /\ lease' \in [JobIds -> Nat \cup {None}]
  BY DEF CompleteDelLease, IInv, TypeOK
<1> QED BY <1>1, <1>2, HolderWaits, IdleIsLocal

(***************************************************************************)
(* FailGetJob: the copy is the current document.                           *)
(***************************************************************************)
LEMMA FailGetJobKeeps ==
  ASSUME IInv, NEW c \in Consumers, FailGetJob(c) PROVE IInv'
<1> DEFINE doc == job[proc[c].id]
           me == [proc[c] EXCEPT !.at = "DEL failed lease", !.doc = doc]
<1>1. proc[c].at = "working"
  BY DEF FailGetJob
<1>2. proc[c] \in Local /\ doc \in Doc /\ CopyIsCurrent(proc[c], doc)
  BY <1>1, HolderFacts
<1>3. me \in Local /\ me.at = "DEL failed lease" /\ me.id = proc[c].id /\ me.doc = doc
  BY <1>2 DEF Local, FailSteps
<1>4. me.at \in Holding /\ CopyIsCurrent(me, doc)
  BY <1>1, <1>2, <1>3 DEF Holding, FailSteps, CopyIsCurrent
<1>5. /\ UNCHANGED <<job, waiting, idemp, lease, issued, abandoned>>
      /\ lease' \in [JobIds -> Nat \cup {None}]
      /\ proc' = [proc EXCEPT ![c] = me]
  BY DEF FailGetJob, redis, IInv, TypeOK
<1> HIDE DEF me
<1> QED BY <1>1, <1>3, <1>4, <1>5, HolderWaits

(***************************************************************************)
(* FailDelLease: only the lease key changes.                               *)
(***************************************************************************)
LEMMA FailDelLeaseKeeps ==
  ASSUME IInv, NEW c \in Consumers, FailDelLease(c) PROVE IInv'
<1> DEFINE me == [proc[c] EXCEPT !.at = "SET failed"]
<1>1. proc[c].at = "DEL failed lease"
  BY DEF FailDelLease, GoTo
<1>2. proc[c] \in Local /\ CopyIsCurrent(proc[c], job[proc[c].id])
  BY <1>1, HolderFacts
<1>3. me \in Local /\ me.at = "SET failed" /\ me.id = proc[c].id /\ me.doc = proc[c].doc
  BY <1>2 DEF Local, FailSteps
<1>4. me.at \in Holding /\ CopyIsCurrent(me, job[proc[c].id])
  BY <1>1, <1>2, <1>3 DEF Holding, FailSteps, CopyIsCurrent
<1>5. /\ UNCHANGED <<job, waiting, idemp, issued, abandoned>>
      /\ lease' \in [JobIds -> Nat \cup {None}]
      /\ proc' = [proc EXCEPT ![c] = me]
  BY DEF FailDelLease, GoTo, IInv, TypeOK
<1> HIDE DEF me
<1> QED BY <1>1, <1>3, <1>4, <1>5, HolderWaits

(***************************************************************************)
(* FailSetJob: the job is settled, or the consumer still has it to push.   *)
(***************************************************************************)
LEMMA FailSetJobKeeps ==
  ASSUME IInv, NEW c \in Consumers, FailSetJob(c) PROVE IInv'
<1> DEFINE again == MayRetry(proc[c].doc)
           doc == [proc[c].doc EXCEPT !.state = IF again THEN "QUEUED" ELSE "FAILED"]
           me == [proc[c] EXCEPT !.at = "RPUSH"]
<1>1. proc[c].at = "SET failed"
  BY DEF FailSetJob
<1>2. /\ proc[c] \in Local /\ job[proc[c].id] \in Doc
      /\ CopyIsCurrent(proc[c], job[proc[c].id])
  BY <1>1, HolderFacts
<1>3. proc[c].doc \in Doc
  BY <1>1, <1>2 DEF CopyIsCurrent
<1>4. doc \in Doc /\ (again => doc.state = "QUEUED")
  BY <1>3 DEF Doc, JobState
<1>5. me \in Local /\ me.at = "RPUSH" /\ me.id = proc[c].id
  BY <1>2 DEF Local, FailSteps
<1>6. me.at \in Holding /\ (again => CopyIsCurrent(me, doc))
  BY <1>4, <1>5 DEF Holding, FailSteps, CopyIsCurrent
<1>7. /\ job' = [job EXCEPT ![proc[c].id] = doc]
      /\ UNCHANGED <<waiting, idemp, lease, issued, abandoned>>
      /\ \/ again /\ proc' = [proc EXCEPT ![c] = me]
         \/ proc' = [proc EXCEPT ![c] = Idle]
  BY DEF FailSetJob, GoTo, Return
<1>8. /\ lease' \in [JobIds -> Nat \cup {None}] /\ issued' \in Nat
      /\ abandoned' \subseteq JobIds
  BY <1>7 DEF IInv, TypeOK
<1> HIDE DEF doc, me, again
<1> QED BY <1>1, <1>4, <1>5, <1>6, <1>7, <1>8, HolderStep, IdleIsLocal

(***************************************************************************)
(* A job moves between the list and a consumer: it is claimed before and   *)
(* after, by one of them, and nobody writes it.                            *)
(***************************************************************************)
LEMMA ClaimMoves ==
  ASSUME IInv, NEW c \in Consumers, NEW j \in JobIds,
         job[j] \in Doc, job[j].state = "QUEUED", Claimed(j), Claimed(j)',
         \A i \in JobIds \ {j} : Claimed(i)' => Claimed(i),
         NEW me \in Local, proc' = [proc EXCEPT ![c] = me],
         \/ me = Idle
         \/ me.at \in Holding /\ me.id = j /\ CopyIsCurrent(me, job[j]),
         waiting' \in Seq(JobIds), Entries(waiting') \subseteq Entries(waiting) \cup {j},
         UNCHANGED <<job, idemp, lease, issued, abandoned>>,
         OneConsumerPerJob'
  PROVE  IInv'
<1>1. /\ proc \in [Producers \cup Consumers -> Local]
      /\ c \notin Producers
  BY ProcessesAssumption DEF IInv, TypeOK
<1>2. /\ proc'[c] = me
      /\ \A d \in Consumers \ {c} : proc'[d] = proc[d]
      /\ \A p \in Producers : proc'[p] = proc[p]
  BY <1>1
<1>3. TypeOK'
  <2>1. proc' \in [Producers \cup Consumers -> Local]
    BY <1>1
  <2> QED BY <2>1 DEF IInv, TypeOK
<1>4. ConsumersHoldJobs'
  <2> SUFFICES ASSUME NEW d \in Consumers, proc'[d] # Idle
               PROVE  /\ proc'[d].at \in Holding
                      /\ proc'[d].id \in JobIds
                      /\ job[proc'[d].id] \in Doc
                      /\ CopyIsCurrent(proc'[d], job[proc'[d].id])
    BY DEF ConsumersHoldJobs, Holding, CopyIsCurrent
  <2>1. CASE d = c
    BY <1>2, <2>1
  <2>2. CASE d # c
    BY <1>2, <2>2 DEF IInv, ConsumersHoldJobs, Holding
  <2> QED BY <2>1, <2>2
<1>5. ProducersSubmitJobs'
  <2> SUFFICES ASSUME NEW p \in Producers, proc'[p] # Idle
               PROVE  /\ proc'[p].at \in EnqueueSteps
                      /\ proc'[p].id \in JobIds
                      /\ proc'[p].key \in Keys \cup JobIds
                      /\ SubmissionIsPrivate(proc[p])'
    BY DEF ProducersSubmitJobs
  <2>1. /\ proc[p].at \in EnqueueSteps
        /\ proc[p].id \in JobIds
        /\ proc[p].key \in Keys \cup JobIds
        /\ SubmissionIsPrivate(proc[p])
    BY <1>2 DEF IInv, ProducersSubmitJobs
  <2>2. \A i \in JobIds : Claimed(i)' => Claimed(i)
    OBVIOUS
  <2> QED BY <1>2, <2>1, <2>2 DEF SubmissionIsPrivate
<1>6. OneProducerPerJob'
  BY <1>2 DEF IInv, OneProducerPerJob
<1>7. ListedAreQueued'
  BY DEF IInv, ListedAreQueued
<1> QED BY <1>3, <1>4, <1>5, <1>6, <1>7 DEF IInv

(***************************************************************************)
(* LeasePop: the claim moves from the list to the consumer.                *)
(***************************************************************************)
LEMMA LeasePopKeeps ==
  ASSUME IInv, NEW c \in Consumers, LeasePop(c) PROVE IInv'
<1>0. /\ waiting \in Seq(JobIds) /\ Distinct(waiting) /\ waiting # <<>>
      /\ proc[c].at = "idle" /\ Head(waiting) \in JobIds
  BY HeadTailEntries DEF LeasePop, IInv, TypeOK, OneConsumerPerJob
<1>1. PICK j \in JobIds : j = Head(waiting)
  BY <1>0
<1> DEFINE me == [Idle EXCEPT !.at = "GET popped", !.id = j]
<1>2. /\ waiting' = Tail(waiting)
      /\ proc' = [proc EXCEPT ![c] = me]
      /\ UNCHANGED <<job, idemp, lease, issued, abandoned>>
  BY <1>1 DEF LeasePop, Pop
<1>3. /\ j \in JobIds /\ j \in Entries(waiting)
      /\ waiting' \in Seq(JobIds) /\ Distinct(waiting')
      /\ Entries(waiting') = Entries(waiting) \ {j}
  BY <1>0, <1>1, <1>2, HeadTailEntries
<1>4. job[j] \in Doc /\ job[j].state = "QUEUED"
  BY <1>3 DEF IInv, ListedAreQueued
<1>5. me \in Local /\ me.at = "GET popped" /\ me.id = j
  BY <1>3 DEF Local, Idle, LeaseSteps
<1>6. me.at \in Holding /\ CopyIsCurrent(me, job[j])
  BY <1>4, <1>5 DEF Holding, LeaseSteps, CopyIsCurrent
<1>7. proc'[c] = me /\ \A d \in Consumers \ {c} : proc'[d] = proc[d]
  BY <1>2 DEF IInv, TypeOK
<1>8. proc[c].id = None
  <2>1. proc[c] = Idle
    BY <1>0 DEF IInv, ConsumersHoldJobs, LeaseSteps, CompleteSteps, FailSteps
  <2> QED BY <2>1 DEF Idle
<1> HIDE DEF me
<1>9. Claimed(j) /\ Claimed(j)'
  BY <1>3, <1>5, <1>7 DEF Claimed
<1>10. \A i \in JobIds \ {j} : Claimed(i)' => Claimed(i)
  BY <1>3, <1>5, <1>7 DEF Claimed
<1>11. \A d \in Consumers : proc[d].id # j
  <2>1. \A d \in Consumers : proc[d].id # None => proc[d].id \notin Entries(waiting)
    BY DEF IInv, OneConsumerPerJob
  <2> QED BY <1>3, <2>1, NoneAssumption
<1>12. OneConsumerPerJob'
  <2>1. SUFFICES ASSUME NEW d \in Consumers, proc'[d].id # None
                 PROVE  /\ proc'[d].id \notin Entries(waiting')
                        /\ \A e \in Consumers \ {d} : proc'[e].id # proc'[d].id
    BY <1>3 DEF OneConsumerPerJob
  <2>2. CASE d = c
    BY <1>3, <1>5, <1>7, <1>11, <2>2
  <2>3. CASE d # c
    <3>1. proc'[d] = proc[d] /\ proc[d].id # j
      BY <1>7, <1>11, <2>3
    <3>2. /\ proc[d].id \notin Entries(waiting)
          /\ \A e \in Consumers \ {d} : proc[e].id # proc[d].id
      BY <2>1, <3>1 DEF IInv, OneConsumerPerJob
    <3> QED BY <1>3, <1>5, <1>7, <3>1, <3>2
  <2> QED BY <2>2, <2>3
<1>13. Entries(waiting') \subseteq Entries(waiting) \cup {j}
  BY <1>3
<1> QED BY <1>2, <1>3, <1>4, <1>5, <1>6, <1>9, <1>10, <1>12, <1>13, ClaimMoves

(***************************************************************************)
(* FailPush: the claim moves from the consumer back to the list.           *)
(***************************************************************************)
LEMMA FailPushKeeps ==
  ASSUME IInv, NEW c \in Consumers, FailPush(c) PROVE IInv'
<1>0. proc[c].at = "RPUSH"
  BY DEF FailPush, Return
<1>1. PICK j \in JobIds : j = proc[c].id
  BY <1>0, HolderFacts
<1>2. /\ j \in JobIds /\ job[j] \in Doc /\ job[j].state = "QUEUED"
      /\ j \notin Entries(waiting)
      /\ \A d \in Consumers \ {c} : proc[d].id # j
  BY <1>0, <1>1, HolderFacts DEF CopyIsCurrent
<1>3. /\ waiting' = <<j>> \o waiting
      /\ proc' = [proc EXCEPT ![c] = Idle]
      /\ UNCHANGED <<job, idemp, lease, issued, abandoned>>
  BY <1>1 DEF FailPush, Retried, Return
<1>4. waiting \in Seq(JobIds) /\ Distinct(waiting)
  BY DEF IInv, TypeOK, OneConsumerPerJob
<1>5. proc'[c] = Idle /\ \A d \in Consumers \ {c} : proc'[d] = proc[d]
  BY <1>3 DEF IInv, TypeOK
<1>6. Claimed(j)
  BY <1>1 DEF Claimed
<1>7. Idle.id = None
  BY DEF Idle
<1>8. /\ waiting' \in Seq(JobIds) /\ Distinct(waiting')
      /\ Entries(waiting') = Entries(waiting) \cup {j}
  <2> DEFINE one == <<j>>
  <2>1. one \in Seq(JobIds) /\ Entries(one) = {j} /\ Distinct(one)
    BY <1>2, SingletonEntries
  <2> HIDE DEF one
  <2>2. /\ one \o waiting \in Seq(JobIds)
        /\ Entries(one \o waiting) = Entries(one) \cup Entries(waiting)
        /\ Distinct(one) /\ Distinct(waiting) /\ Entries(one) \cap Entries(waiting) = {}
             => Distinct(one \o waiting)
    BY <1>4, <2>1, ConcatEntries
  <2> QED BY <1>2, <1>3, <1>4, <2>1, <2>2 DEF one
<1>9. Claimed(j)' /\ \A i \in JobIds \ {j} : Claimed(i)' => Claimed(i)
  BY <1>5, <1>7, <1>8, NoneAssumption DEF Claimed
<1>10. OneConsumerPerJob'
  BY <1>2, <1>5, <1>7, <1>8 DEF IInv, OneConsumerPerJob
<1> QED BY <1>2, <1>3, <1>6, <1>8, <1>9, <1>10, ClaimMoves, IdleIsLocal

-----------------------------------------------------------------------------
(***************************************************************************)
(* A producer begins, goes on with or leaves a call, and writes neither a  *)
(* job nor the list.                                                       *)
(***************************************************************************)
LEMMA ProducerStep ==
  ASSUME IInv, NEW p \in Producers, NEW me \in Local,
         proc' = [proc EXCEPT ![p] = me],
         \/ me = Idle
         \/ /\ me.at \in EnqueueSteps /\ me.id \in JobIds
            /\ me.key \in Keys \cup JobIds
            /\ SubmissionIsPrivate(me)
            /\ \A q \in Producers \ {p} : proc[q].id # me.id,
         UNCHANGED <<job, waiting, lease, issued>>,
         idemp' \in [Keys \cup JobIds -> JobIds \cup {None}],
         abandoned' \subseteq JobIds
  PROVE  IInv'
<1>1. /\ proc \in [Producers \cup Consumers -> Local]
      /\ p \notin Consumers
  BY ProcessesAssumption DEF IInv, TypeOK
<1>2. /\ proc'[p] = me
      /\ \A q \in Producers \ {p} : proc'[q] = proc[q]
      /\ \A c \in Consumers : proc'[c] = proc[c]
  BY <1>1
<1>3. TypeOK'
  <2>1. proc' \in [Producers \cup Consumers -> Local]
    BY <1>1
  <2> QED BY <2>1 DEF IInv, TypeOK
<1>4. ConsumersHoldJobs'
  BY <1>2 DEF IInv, ConsumersHoldJobs, CopyIsCurrent
<1>5. ProducersSubmitJobs'
  <2>1. \A i : Claimed(i)' => Claimed(i)
    BY <1>2 DEF Claimed
  <2> SUFFICES ASSUME NEW q \in Producers, proc'[q] # Idle
               PROVE  /\ proc'[q].at \in EnqueueSteps
                      /\ proc'[q].id \in JobIds
                      /\ proc'[q].key \in Keys \cup JobIds
                      /\ SubmissionIsPrivate(proc[q])'
    BY DEF ProducersSubmitJobs
  <2>2. CASE q = p
    BY <1>2, <2>1, <2>2 DEF SubmissionIsPrivate
  <2>3. CASE q # p
    <3>1. /\ proc'[q] = proc[q]
          /\ proc[q].at \in EnqueueSteps
          /\ proc[q].id \in JobIds
          /\ proc[q].key \in Keys \cup JobIds
          /\ SubmissionIsPrivate(proc[q])
      BY <1>2, <2>3 DEF IInv, ProducersSubmitJobs
    <3> QED BY <2>1, <3>1 DEF SubmissionIsPrivate
  <2> QED BY <2>2, <2>3
<1>6. OneProducerPerJob'
  <2>1. \A q, r \in Producers : proc[q].id # None /\ proc[q].id = proc[r].id => q = r
    BY DEF IInv, OneProducerPerJob
  <2>2. me.id = None \/ \A q \in Producers \ {p} : proc[q].id # me.id
    BY DEF Idle
  <2> QED BY <1>2, <2>1, <2>2 DEF OneProducerPerJob
<1>7. ListedAreQueued'
  BY DEF IInv, ListedAreQueued
<1>8. OneConsumerPerJob'
  BY <1>2 DEF IInv, OneConsumerPerJob
<1> QED BY <1>3, <1>4, <1>5, <1>6, <1>7, <1>8 DEF IInv

(***************************************************************************)
(* What the invariant says of one producer that is in a call.              *)
(***************************************************************************)
LEMMA CallFacts ==
  ASSUME IInv, NEW p \in Producers, proc[p].at # "idle"
  PROVE  /\ proc[p] \in Local
         /\ proc[p].at \in EnqueueSteps
         /\ proc[p].id \in JobIds
         /\ proc[p].key \in Keys \cup JobIds
         /\ SubmissionIsPrivate(proc[p])
         /\ \A q \in Producers \ {p} : proc[q].id # proc[p].id
<1>1. proc[p] # Idle
  BY DEF Idle
<1>2. /\ proc[p] \in Local
      /\ proc[p].at \in EnqueueSteps
      /\ proc[p].id \in JobIds
      /\ proc[p].key \in Keys \cup JobIds
      /\ SubmissionIsPrivate(proc[p])
  BY <1>1 DEF IInv, TypeOK, ProducersSubmitJobs
<1>3. proc[p].id # None
  BY <1>2, NoneAssumption
<1> QED BY <1>2, <1>3 DEF IInv, OneProducerPerJob

(***************************************************************************)
(* EnqueueLookup: the id is in no key and in no call.                      *)
(***************************************************************************)
LEMMA EnqueueLookupKeeps ==
  ASSUME IInv, NEW p \in Producers, NEW j \in JobIds, NEW k \in Keys \cup {j},
         EnqueueLookup(p, j, k)
  PROVE  IInv'
<1> DEFINE me == [Idle EXCEPT !.at = "LLEN", !.id = j, !.key = k]
<1>1. /\ job[j] = None /\ \A q \in Producers : proc[q].id # j
      /\ proc' = [proc EXCEPT ![p] = me]
      /\ UNCHANGED <<job, waiting, idemp, lease, issued, abandoned>>
  BY DEF EnqueueLookup, Unused, redis
<1>2. me \in Local /\ me.at = "LLEN" /\ me.id = j /\ me.key = k
  BY DEF Local, Idle, EnqueueSteps
<1> HIDE DEF me
<1>3. SubmissionIsPrivate(me)
  BY <1>1, <1>2 DEF SubmissionIsPrivate
<1>4. /\ idemp' \in [Keys \cup JobIds -> JobIds \cup {None}]
      /\ abandoned' \subseteq JobIds
  BY <1>1 DEF IInv, TypeOK
<1>5. me.at \in EnqueueSteps
  BY <1>2 DEF EnqueueSteps
<1> QED BY <1>1, <1>2, <1>3, <1>4, <1>5, ProducerStep

(***************************************************************************)
(* EnqueueDepth: the call goes on, or returns because the queue is full.   *)
(***************************************************************************)
LEMMA EnqueueDepthKeeps ==
  ASSUME IInv, NEW p \in Producers, EnqueueDepth(p) PROVE IInv'
<1> DEFINE me == [proc[p] EXCEPT !.at = "SET job"]
<1>1. /\ proc[p].at = "LLEN"
      /\ proc' = [proc EXCEPT ![p] = me] \/ proc' = [proc EXCEPT ![p] = Idle]
      /\ UNCHANGED <<job, waiting, idemp, lease, issued, abandoned>>
  BY DEF EnqueueDepth, GoTo, Return, redis
<1>2. /\ proc[p] \in Local /\ proc[p].id \in JobIds
      /\ proc[p].key \in Keys \cup JobIds /\ SubmissionIsPrivate(proc[p])
      /\ \A q \in Producers \ {p} : proc[q].id # proc[p].id
  BY <1>1, CallFacts
<1>3. me \in Local /\ me.at = "SET job" /\ me.id = proc[p].id /\ me.key = proc[p].key
  BY <1>2 DEF Local, EnqueueSteps
<1> HIDE DEF me
<1>4. SubmissionIsPrivate(me) /\ me.at \in EnqueueSteps
  BY <1>1, <1>2, <1>3 DEF SubmissionIsPrivate, EnqueueSteps
<1>5. /\ idemp' \in [Keys \cup JobIds -> JobIds \cup {None}]
      /\ abandoned' \subseteq JobIds
  BY <1>1 DEF IInv, TypeOK
<1> QED BY <1>1, <1>2, <1>3, <1>4, <1>5, ProducerStep, IdleIsLocal

(***************************************************************************)
(* EnqueueSetIdemp: only the idempotency key changes.                      *)
(***************************************************************************)
LEMMA EnqueueSetIdempKeeps ==
  ASSUME IInv, NEW p \in Producers, EnqueueSetIdemp(p) PROVE IInv'
<1>1. /\ proc[p].at = "SET idemp"
      /\ proc' = [proc EXCEPT ![p] = Idle]
      /\ idemp' = [idemp EXCEPT ![proc[p].key] = proc[p].id]
      /\ UNCHANGED <<job, waiting, lease, issued, abandoned>>
  BY DEF EnqueueSetIdemp, Return
<1>2. proc[p].id \in JobIds
  BY <1>1, CallFacts
<1>3. /\ idemp' \in [Keys \cup JobIds -> JobIds \cup {None}]
      /\ abandoned' \subseteq JobIds
  BY <1>1, <1>2 DEF IInv, TypeOK
<1> QED BY <1>1, <1>3, ProducerStep, IdleIsLocal

(***************************************************************************)
(* The two commands that make a job known.                                 *)
(***************************************************************************)
LEMMA EnqueueSetJobKeeps ==
  ASSUME IInv, NEW p \in Producers, EnqueueSetJob(p) PROVE IInv'
<1>0. proc[p].at = "SET job"
  BY DEF EnqueueSetJob, GoTo
<1>1. PICK j \in JobIds : j = proc[p].id
  BY <1>0, CallFacts
<1> DEFINE doc == [state |-> "QUEUED", attempts |-> 0, idempotencyKey |-> proc[p].key]
           me == [proc[p] EXCEPT !.at = "LPUSH"]
<1>2. /\ proc[p] \in Local /\ proc[p].key \in Keys \cup JobIds
      /\ job[j] = None
      /\ \A q \in Producers \ {p} : proc[q].id # j
  BY <1>0, <1>1, CallFacts DEF SubmissionIsPrivate
<1>3. doc \in Doc /\ doc.state = "QUEUED"
  BY <1>2 DEF Doc, JobState
<1>4. me \in Local /\ me.at = "LPUSH" /\ me.id = j /\ me.key = proc[p].key
  BY <1>1, <1>2 DEF Local, EnqueueSteps
<1>5. /\ proc' = [proc EXCEPT ![p] = me]
      /\ job' = [job EXCEPT ![j] = doc]
      /\ UNCHANGED <<waiting, idemp, lease, issued, abandoned>>
  BY <1>1 DEF EnqueueSetJob, GoTo
<1>6. /\ proc \in [Producers \cup Consumers -> Local]
      /\ job \in [JobIds -> Doc \cup {None}]
      /\ p \notin Consumers
  BY ProcessesAssumption DEF IInv, TypeOK
<1> HIDE DEF doc, me
<1>7. /\ proc'[p] = me
      /\ \A q \in Producers \ {p} : proc'[q] = proc[q]
      /\ \A c \in Consumers : proc'[c] = proc[c]
      /\ job'[j] = doc /\ \A i \in JobIds \ {j} : job'[i] = job[i]
  BY <1>5, <1>6
<1>8. /\ j \notin Entries(waiting)
      /\ \A c \in Consumers : proc[c].id # j
  <2>1. job[j] \notin Doc
    BY <1>2, NoneAssumption
  <2>2. j \notin Entries(waiting)
    BY <2>1 DEF IInv, ListedAreQueued
  <2>3. Idle.id # j
    BY NoneAssumption DEF Idle
  <2> QED BY <2>1, <2>2, <2>3 DEF IInv, ConsumersHoldJobs
<1>9. TypeOK'
  <2>1. job' \in [JobIds -> Doc \cup {None}]
    BY <1>3, <1>5, <1>6
  <2>2. proc' \in [Producers \cup Consumers -> Local]
    BY <1>4, <1>5, <1>6
  <2> QED BY <1>5, <2>1, <2>2 DEF IInv, TypeOK
<1>10. ConsumersHoldJobs'
  <2> SUFFICES ASSUME NEW c \in Consumers, proc'[c] # Idle
               PROVE  /\ proc'[c].at \in Holding
                      /\ proc'[c].id \in JobIds
                      /\ job'[proc'[c].id] \in Doc
                      /\ CopyIsCurrent(proc'[c], job'[proc'[c].id])
    BY DEF ConsumersHoldJobs, Holding, CopyIsCurrent
  <2>1. /\ proc[c].at \in Holding /\ proc[c].id \in JobIds /\ proc[c].id # j
        /\ job[proc[c].id] \in Doc /\ CopyIsCurrent(proc[c], job[proc[c].id])
    BY <1>7, <1>8 DEF IInv, ConsumersHoldJobs, Holding
  <2> QED BY <1>7, <2>1
<1>11. ProducersSubmitJobs'
  <2>1. \A i : Claimed(i)' => Claimed(i)
    BY <1>5, <1>7 DEF Claimed
  <2> SUFFICES ASSUME NEW q \in Producers, proc'[q] # Idle
               PROVE  /\ proc'[q].at \in EnqueueSteps
                      /\ proc'[q].id \in JobIds
                      /\ proc'[q].key \in Keys \cup JobIds
                      /\ SubmissionIsPrivate(proc[q])'
    BY DEF ProducersSubmitJobs
  <2>2. CASE q = p
    <3>1. ~Claimed(j)
      BY <1>8 DEF Claimed
    <3>2. me.at \in EnqueueSteps
      BY <1>4 DEF EnqueueSteps
    <3> QED BY <1>2, <1>3, <1>4, <1>7, <2>1, <2>2, <3>1, <3>2 DEF SubmissionIsPrivate
  <2>3. CASE q # p
    <3>1. /\ proc'[q] = proc[q]
          /\ proc[q].at \in EnqueueSteps
          /\ proc[q].id \in JobIds
          /\ proc[q].key \in Keys \cup JobIds
          /\ SubmissionIsPrivate(proc[q])
          /\ job'[proc[q].id] = job[proc[q].id]
      BY <1>2, <1>7, <2>3 DEF IInv, ProducersSubmitJobs
    <3> QED BY <2>1, <3>1 DEF SubmissionIsPrivate
  <2> QED BY <2>2, <2>3
<1>12. OneProducerPerJob'
  <2>1. \A q \in Producers : proc'[q].id = proc[q].id
    BY <1>1, <1>4, <1>7
  <2> QED BY <2>1 DEF IInv, OneProducerPerJob
<1>13. ListedAreQueued'
  <2>1. \A i \in Entries(waiting) : i \in JobIds /\ i # j
    BY <1>8 DEF IInv, TypeOK, Entries
  <2> QED BY <1>5, <1>7, <2>1 DEF IInv, ListedAreQueued
<1>14. OneConsumerPerJob'
  BY <1>5, <1>7 DEF IInv, OneConsumerPerJob
<1> QED BY <1>9, <1>10, <1>11, <1>12, <1>13, <1>14 DEF IInv

(***************************************************************************)
(* EnqueuePush: a job that nobody has claimed enters the list.             *)
(***************************************************************************)
LEMMA EnqueuePushKeeps ==
  ASSUME IInv, NEW p \in Producers, EnqueuePush(p) PROVE IInv'
<1>0. proc[p].at = "LPUSH"
  BY DEF EnqueuePush, GoTo
<1>1. PICK j \in JobIds : j = proc[p].id
  BY <1>0, CallFacts
<1> DEFINE me == [proc[p] EXCEPT !.at = "SET idemp"]
<1>2. /\ proc[p] \in Local /\ proc[p].key \in Keys \cup JobIds
      /\ job[j] \in Doc /\ job[j].state = "QUEUED" /\ ~Claimed(j)
      /\ \A q \in Producers \ {p} : proc[q].id # j
  BY <1>0, <1>1, CallFacts DEF SubmissionIsPrivate
<1>3. me \in Local /\ me.at = "SET idemp" /\ me.id = j /\ me.key = proc[p].key
  BY <1>1, <1>2 DEF Local, EnqueueSteps
<1>4. /\ proc' = [proc EXCEPT ![p] = me]
      /\ waiting' = Append(waiting, j)
      /\ UNCHANGED <<job, idemp, lease, issued, abandoned>>
  BY <1>1 DEF EnqueuePush, GoTo
<1>5. /\ proc \in [Producers \cup Consumers -> Local]
      /\ waiting \in Seq(JobIds) /\ Distinct(waiting)
      /\ p \notin Consumers
  BY ProcessesAssumption DEF IInv, TypeOK, OneConsumerPerJob
<1> HIDE DEF me
<1>6. /\ proc'[p] = me
      /\ \A q \in Producers \ {p} : proc'[q] = proc[q]
      /\ \A c \in Consumers : proc'[c] = proc[c]
  BY <1>4, <1>5
<1>7. j \notin Entries(waiting) /\ \A c \in Consumers : proc[c].id # j
  BY <1>2 DEF Claimed
<1>8. /\ waiting' \in Seq(JobIds) /\ Distinct(waiting')
      /\ Entries(waiting') = Entries(waiting) \cup {j}
  BY <1>4, <1>5, <1>7, AppendEntries
<1>9. TypeOK'
  <2>1. proc' \in [Producers \cup Consumers -> Local]
    BY <1>3, <1>4, <1>5
  <2> QED BY <1>4, <1>8, <2>1 DEF IInv, TypeOK
<1>10. ConsumersHoldJobs'
  BY <1>4, <1>6 DEF IInv, ConsumersHoldJobs, CopyIsCurrent
<1>11. ProducersSubmitJobs'
  <2>1. \A i \in JobIds \ {j} : Claimed(i)' => Claimed(i)
    BY <1>6, <1>8 DEF Claimed
  <2> SUFFICES ASSUME NEW q \in Producers, proc'[q] # Idle
               PROVE  /\ proc'[q].at \in EnqueueSteps
                      /\ proc'[q].id \in JobIds
                      /\ proc'[q].key \in Keys \cup JobIds
                      /\ SubmissionIsPrivate(proc[q])'
    BY DEF ProducersSubmitJobs
  <2>2. CASE q = p
    <3>1. me.at \in EnqueueSteps
      BY <1>3 DEF EnqueueSteps
    <3> QED BY <1>2, <1>3, <1>4, <1>6, <2>2, <3>1 DEF SubmissionIsPrivate
  <2>3. CASE q # p
    <3>1. /\ proc'[q] = proc[q] /\ proc[q].id # j
          /\ proc[q].at \in EnqueueSteps
          /\ proc[q].id \in JobIds
          /\ proc[q].key \in Keys \cup JobIds
          /\ SubmissionIsPrivate(proc[q])
      BY <1>2, <1>6, <2>3 DEF IInv, ProducersSubmitJobs
    <3> QED BY <1>4, <2>1, <3>1 DEF SubmissionIsPrivate
  <2> QED BY <2>2, <2>3
<1>12. OneProducerPerJob'
  <2>1. \A q \in Producers : proc'[q].id = proc[q].id
    BY <1>1, <1>3, <1>6
  <2> QED BY <2>1 DEF IInv, OneProducerPerJob
<1>13. ListedAreQueued'
  BY <1>2, <1>4, <1>8 DEF IInv, ListedAreQueued
<1>14. OneConsumerPerJob'
  BY <1>6, <1>7, <1>8 DEF IInv, OneConsumerPerJob
<1> QED BY <1>9, <1>10, <1>11, <1>12, <1>13, <1>14 DEF IInv

-----------------------------------------------------------------------------
(***************************************************************************)
(* A lease key that runs out touches nothing but leases; a process that    *)
(* dies lets go of its job where it stands.                                *)
(***************************************************************************)
LEMMA LeaseExpiresKeeps ==
  ASSUME IInv, NEW j \in JobIds, LeaseExpires(j) PROVE IInv'
<1>1. /\ lease' = [lease EXCEPT ![j] = None]
      /\ abandoned' = abandoned \cup {j}
      /\ UNCHANGED <<job, waiting, idemp, issued, proc>>
  BY DEF LeaseExpires
<1>2. TypeOK'
  BY <1>1 DEF IInv, TypeOK
<1>3. ConsumersHoldJobs' /\ ListedAreQueued' /\ OneConsumerPerJob' /\ OneProducerPerJob'
  BY <1>1 DEF IInv, ConsumersHoldJobs, CopyIsCurrent, ListedAreQueued,
              OneConsumerPerJob, OneProducerPerJob
<1>4. ProducersSubmitJobs'
  BY <1>1 DEF IInv, ProducersSubmitJobs, SubmissionIsPrivate, Claimed
<1> QED BY <1>2, <1>3, <1>4 DEF IInv

(***************************************************************************)
(* Crash: the process forgets its call; its job stays as it is.            *)
(***************************************************************************)
LEMMA CrashKeeps ==
  ASSUME IInv, NEW p \in Producers \cup Consumers, Crash(p) PROVE IInv'
<1>1. /\ proc[p] # Idle
      /\ proc' = [proc EXCEPT ![p] = Idle]
      /\ abandoned' = abandoned \cup ({proc[p].id} \ {None})
      /\ UNCHANGED <<job, waiting, idemp, lease, issued>>
  BY DEF Crash, redis
<1>2. proc[p] \in Local
  BY DEF IInv, TypeOK
<1>3. abandoned' \subseteq JobIds
  BY <1>1, <1>2 DEF IInv, TypeOK, Local
<1>4. /\ idemp' \in [Keys \cup JobIds -> JobIds \cup {None}]
      /\ lease' \in [JobIds -> Nat \cup {None}] /\ issued' \in Nat
  BY <1>1 DEF IInv, TypeOK
<1>5. CASE p \in Producers
  BY <1>1, <1>3, <1>4, <1>5, ProducerStep, IdleIsLocal
<1>6. CASE p \in Consumers
  <2>1. proc[p].at # "idle"
    BY <1>1, <1>6 DEF IInv, ConsumersHoldJobs, LeaseSteps, CompleteSteps, FailSteps
  <2>2. job[proc[p].id] \in Doc /\ job' = [job EXCEPT ![proc[p].id] = job[proc[p].id]]
    BY <1>1, <1>6, <2>1, HolderFacts DEF IInv, TypeOK
  <2> QED BY <1>1, <1>3, <1>4, <1>6, <2>1, <2>2, HolderStep, IdleIsLocal
<1> QED BY <1>5, <1>6

(***************************************************************************)
(* The invariant holds of every behaviour.                                 *)
(***************************************************************************)
LEMMA InitEstablishes == Init => IInv
<1> SUFFICES ASSUME Init PROVE IInv
  OBVIOUS
<1>1. TypeOK
  BY IdleIsLocal DEF Init, TypeOK
<1>2. Entries(waiting) = {} /\ Distinct(waiting)
  BY DEF Init, Entries, Distinct
<1>3. \A p \in Producers \cup Consumers : proc[p] = Idle /\ proc[p].id = None
  BY DEF Init, Idle
<1> QED BY <1>1, <1>2, <1>3 DEF IInv, ConsumersHoldJobs, ProducersSubmitJobs,
                                OneProducerPerJob, ListedAreQueued, OneConsumerPerJob

(***************************************************************************)
(* Every step of a producer, a consumer, the server or a fault keeps IInv. *)
(***************************************************************************)
LEMMA StepKeeps == IInv /\ [Next]_vars => IInv'
<1> SUFFICES ASSUME IInv, [Next]_vars PROVE IInv'
  OBVIOUS
<1>1. ASSUME NEW p \in Producers, Lookup(p) \/ Enqueueing(p) PROVE IInv'
  <2>1. CASE Lookup(p)
    BY <2>1, EnqueueLookupKeeps DEF Lookup
  <2>2. CASE Enqueueing(p)
    BY <2>2, EnqueueDepthKeeps, EnqueueSetJobKeeps, EnqueuePushKeeps,
       EnqueueSetIdempKeeps DEF Enqueueing
  <2> QED BY <1>1, <2>1, <2>2
<1>2. ASSUME NEW c \in Consumers, Leasing(c) PROVE IInv'
  BY <1>2, LeasePopKeeps, LeaseGetJobKeeps, LeaseSetJobKeeps, LeaseSetLeaseKeeps
     DEF Leasing
<1>3. ASSUME NEW c \in Consumers, Reporting(c) PROVE IInv'
  BY <1>3, CompleteGetLeaseKeeps, CompleteGetJobKeeps, CompleteSetJobKeeps,
     CompleteDelLeaseKeeps, FailGetJobKeeps, FailDelLeaseKeeps, FailSetJobKeeps,
     FailPushKeeps DEF Reporting
<1>4. CASE UNCHANGED vars
  BY <1>4 DEF vars, redis, IInv, TypeOK, ConsumersHoldJobs, ProducersSubmitJobs,
              OneProducerPerJob, ListedAreQueued, OneConsumerPerJob, CopyIsCurrent,
              SubmissionIsPrivate, Claimed
<1> QED BY <1>1, <1>2, <1>3, <1>4, LeaseExpiresKeeps, CrashKeeps DEF Next

(***************************************************************************)
(* IInv holds of every behaviour.                                          *)
(***************************************************************************)
LEMMA Invariance == Spec => []IInv
  BY InitEstablishes, StepKeeps, PTL DEF Spec

(***************************************************************************)
(* RPOP is the only claim, and it is enough: see OneConsumerPerJob.        *)
(***************************************************************************)
THEOREM OneClaim == Spec => []OneConsumerPerJob
<1>1. IInv => OneConsumerPerJob
  BY DEF IInv
<1> QED BY <1>1, Invariance, PTL

-----------------------------------------------------------------------------
(***************************************************************************)
(* The refinement.  A step writes one job or none; StateOf and AttemptsOf  *)
(* are what JobLifecycle sees of the documents.                            *)
(***************************************************************************)
StateOf == [j \in JobIds |-> IF job[j] = None THEN "ABSENT" ELSE job[j].state]

AttemptsOf == [j \in JobIds |-> IF job[j] = None THEN 0 ELSE job[j].attempts]

(***************************************************************************)
(* Who is allowed to write what: a job that is not there is submitted, and *)
(* the document of one that is there moves on.                             *)
(***************************************************************************)
Follows(old, new) ==
  \/ old = None /\ new.state = "QUEUED" /\ new.attempts = 0
  \/ /\ old # None
     /\ \/ /\ old.state = "QUEUED" /\ new.state = "RUNNING"
           /\ new.attempts = old.attempts + 1
        \/ /\ old.state = "RUNNING" /\ new.attempts = old.attempts
           /\ \/ new.state = "COMPLETED"
              \/ new.state = "QUEUED" /\ old.attempts < maxRetries
              \/ new.state = "FAILED" /\ old.attempts >= maxRetries

(***************************************************************************)
(* A write of one document is a step of the life cycle of that job, if the *)
(* documents allow it.                                                     *)
(***************************************************************************)
LEMMA WriteIsStep ==
  ASSUME IInv, IInv', NEW j \in JobIds, NEW doc \in Doc,
         job' = [job EXCEPT ![j] = doc], Follows(job[j], doc)
  PROVE  Life!Next
<1>1. job \in [JobIds -> Doc \cup {None}] /\ job' \in [JobIds -> Doc \cup {None}]
  BY DEF IInv, TypeOK
<1>2. job'[j] = doc /\ doc # None /\ \A i \in JobIds \ {j} : job'[i] = job[i]
  BY <1>1, NoneAssumption
<1>3. /\ StateOf'[j] = doc.state /\ AttemptsOf'[j] = doc.attempts
      /\ \A i \in JobIds \ {j} : /\ StateOf'[i] = StateOf[i]
                                 /\ AttemptsOf'[i] = AttemptsOf[i]
  BY <1>2 DEF StateOf, AttemptsOf
<1>4. /\ StateOf' \in [JobIds -> JobState \cup {"ABSENT"}]
      /\ AttemptsOf' \in [JobIds -> Nat]
  BY <1>1 DEF StateOf, AttemptsOf, Doc
<1>5. /\ job[j] = None => StateOf[j] = "ABSENT" /\ AttemptsOf[j] = 0
      /\ job[j] # None => StateOf[j] = job[j].state /\ AttemptsOf[j] = job[j].attempts
  BY DEF StateOf, AttemptsOf
<1>6. Life!JobStep(j)
  <2>1. CASE job[j] = None
    <3>1. StateOf[j] = "ABSENT" /\ StateOf'[j] = "QUEUED" /\ AttemptsOf'[j] = AttemptsOf[j]
      BY <1>3, <1>5, <2>1 DEF Follows
    <3> QED BY <3>1 DEF Life!JobStep, Life!Submit, Life!Moves, StateOf, AttemptsOf
  <2>2. CASE job[j] # None
    <3>1. CASE StateOf[j] = "QUEUED"
      <4>1. StateOf'[j] = "RUNNING" /\ AttemptsOf'[j] = AttemptsOf[j] + 1
        BY <1>3, <1>5, <2>2, <3>1 DEF Follows
      <4> QED BY <3>1, <4>1 DEF Life!JobStep, Life!Lease, Life!Starts, StateOf, AttemptsOf
    <3>2. CASE StateOf[j] = "RUNNING"
      <4>1. /\ AttemptsOf'[j] = AttemptsOf[j]
            /\ \/ StateOf'[j] = "COMPLETED"
               \/ StateOf'[j] = "QUEUED" /\ AttemptsOf[j] < maxRetries
               \/ StateOf'[j] = "FAILED" /\ AttemptsOf[j] >= maxRetries
        BY <1>3, <1>5, <2>2, <3>2 DEF Follows
      <4> QED BY <3>2, <4>1 DEF Life!JobStep, Life!Complete, Life!Retry, Life!GiveUp,
                                Life!Moves, StateOf, AttemptsOf
    <3> QED BY <1>5, <2>2, <3>1, <3>2 DEF Follows
  <2> QED BY <2>1, <2>2
<1>7. \A i \in JobIds \ {j} : Life!JobStep(i)
  BY <1>3 DEF Life!JobStep, Life!Stays, StateOf, AttemptsOf
<1>8. \A i \in JobIds : Life!JobStep(i)
  BY <1>6, <1>7, Zenon
<1> QED BY <1>4, <1>8 DEF Life!Next, StateOf, AttemptsOf, JobState, Life!JobState

(***************************************************************************)
(* The commands that write a job.                                          *)
(***************************************************************************)
LEMMA SubmissionIsStep ==
  ASSUME IInv, IInv', NEW p \in Producers, EnqueueSetJob(p) PROVE Life!Next
<1> DEFINE doc == [state |-> "QUEUED", attempts |-> 0, idempotencyKey |-> proc[p].key]
<1>1. proc[p].at = "SET job" /\ job' = [job EXCEPT ![proc[p].id] = doc]
  BY DEF EnqueueSetJob, GoTo
<1>2. /\ proc[p].id \in JobIds /\ proc[p].key \in Keys \cup JobIds
      /\ job[proc[p].id] = None
  BY <1>1, CallFacts DEF SubmissionIsPrivate
<1>3. doc \in Doc
  BY <1>2 DEF Doc, JobState
<1>4. Follows(job[proc[p].id], doc)
  BY <1>2 DEF Follows
<1> HIDE DEF doc
<1> QED BY <1>1, <1>2, <1>3, <1>4, WriteIsStep

(***************************************************************************)
(* LeaseSetJob is a lease of the life cycle: the job was QUEUED.           *)
(***************************************************************************)
LEMMA AttemptIsStep ==
  ASSUME IInv, IInv', NEW c \in Consumers, LeaseSetJob(c) PROVE Life!Next
<1> DEFINE doc == Attempt(proc[c].doc)
<1>1. proc[c].at = "SET running" /\ job' = [job EXCEPT ![proc[c].id] = doc]
  BY DEF LeaseSetJob
<1>2. /\ proc[c].id \in JobIds /\ job[proc[c].id] \in Doc
      /\ job[proc[c].id].state = "QUEUED" /\ proc[c].doc = job[proc[c].id]
  BY <1>1, HolderFacts DEF CopyIsCurrent
<1>3. doc \in Doc /\ doc.state = "RUNNING" /\ doc.attempts = job[proc[c].id].attempts + 1
  BY <1>2, AttemptFacts
<1> HIDE DEF doc
<1>4. Follows(job[proc[c].id], doc)
  BY <1>2, <1>3, NoneAssumption DEF Follows
<1> QED BY <1>1, <1>2, <1>3, <1>4, WriteIsStep

(***************************************************************************)
(* CompleteSetJob completes a job that was RUNNING.                        *)
(***************************************************************************)
LEMMA CompletionIsStep ==
  ASSUME IInv, IInv', NEW c \in Consumers, CompleteSetJob(c) PROVE Life!Next
<1> DEFINE old == job[proc[c].id]
           doc == [proc[c].doc EXCEPT !.state = "COMPLETED"]
<1>1. proc[c].at = "SET completed" /\ job' = [job EXCEPT ![proc[c].id] = doc]
  BY DEF CompleteSetJob, GoTo
<1>2. proc[c].id \in JobIds /\ old \in Doc /\ old.state = "RUNNING" /\ proc[c].doc = old
  BY <1>1, HolderFacts DEF CopyIsCurrent
<1>3. doc \in Doc /\ doc.state = "COMPLETED" /\ doc.attempts = old.attempts
  BY <1>2 DEF Doc, JobState
<1> HIDE DEF doc, old
<1>4. Follows(old, doc)
  BY <1>2, <1>3, NoneAssumption DEF Follows
<1> QED BY <1>1, <1>2, <1>3, <1>4, WriteIsStep DEF old

(***************************************************************************)
(* FailSetJob retries or fails a job that was RUNNING, within its budget.  *)
(***************************************************************************)
LEMMA FailureIsStep ==
  ASSUME IInv, IInv', NEW c \in Consumers, FailSetJob(c) PROVE Life!Next
<1> DEFINE old == job[proc[c].id]
           next == IF MayRetry(proc[c].doc) THEN "QUEUED" ELSE "FAILED"
           doc == [proc[c].doc EXCEPT !.state = next]
<1>1. proc[c].at = "SET failed" /\ job' = [job EXCEPT ![proc[c].id] = doc]
  BY DEF FailSetJob
<1>2. proc[c].id \in JobIds /\ old \in Doc /\ old.state = "RUNNING" /\ proc[c].doc = old
  BY <1>1, HolderFacts DEF CopyIsCurrent
<1>3. \/ next = "QUEUED" /\ old.attempts < maxRetries
      \/ next = "FAILED" /\ old.attempts >= maxRetries
  BY <1>2, LimitsAssumption DEF MayRetry, Doc
<1> HIDE DEF next
<1>4. doc \in Doc /\ doc.state = next /\ doc.attempts = old.attempts
  BY <1>2, <1>3 DEF Doc, JobState
<1> HIDE DEF doc, old
<1>5. Follows(old, doc)
  BY <1>2, <1>3, <1>4, NoneAssumption DEF Follows
<1> QED BY <1>1, <1>2, <1>4, <1>5, WriteIsStep DEF old

(***************************************************************************)
(* Every other command leaves the documents alone.                         *)
(***************************************************************************)
LEMMA StepSimulation ==
  ASSUME IInv, IInv', [Next]_vars PROVE [Life!Next]_(Life!vars)
<1>1. CASE job' = job
  BY <1>1 DEF Life!vars
<1>2. CASE job' # job
  <2>1. \/ \E p \in Producers : EnqueueSetJob(p)
        \/ \E c \in Consumers : LeaseSetJob(c) \/ CompleteSetJob(c) \/ FailSetJob(c)
    BY <1>2 DEF Next, vars, redis, Lookup, EnqueueLookup, Enqueueing, EnqueueDepth,
      EnqueuePush, EnqueueSetIdemp, Leasing, LeasePop, LeaseGetJob, LeaseSetLease,
      Reporting, CompleteGetLease, CompleteGetJob, CompleteDelLease, FailGetJob,
      FailDelLease, FailPush, LeaseExpires, Crash
  <2>2. Life!Next
    BY <2>1, SubmissionIsStep, AttemptIsStep, CompletionIsStep, FailureIsStep
  <2> QED BY <2>2
<1> QED BY <1>1, <1>2

(***************************************************************************)
(* The queue over Redis implements the job life cycle, whatever processes  *)
(* die and leases run out between its commands: the copies that they write *)
(* back never undo what another one wrote.                                 *)
(***************************************************************************)
THEOREM RedisImplementation == Spec => JobsFollowTheirLifecycle
<1>1. Init => Life!Init
  BY DEF Init, Life!Init
<1>2. IInv /\ IInv' /\ [Next]_vars => [Life!Next]_(Life!vars)
  BY StepSimulation
<1> QED BY <1>1, <1>2, Invariance, PTL DEF Spec, JobsFollowTheirLifecycle, Life!Spec

-----------------------------------------------------------------------------
(* The deployed path, whose daemons do not.                                *)

DaemonSteps == {"GET", "SET running", "run", "SET completed"}

DaemonLocal ==
  [at : {"idle"} \cup DaemonSteps, id : JobIds \cup {None},
   doc : Doc \cup {None}, status : Outcomes \cup {None}]

DispatchTypeOK ==
  /\ toInit \in [Producers -> JobIds \cup {None}]
  /\ files \in [JobIds -> SUBSET {"meta", "source", "code", "report"}]
  /\ response \in [JobIds -> Outcomes \cup {None}]
  /\ daemon \in [Daemons -> DaemonLocal]

ConsumersAreIdle == \A c \in Consumers : proc[c] = Idle

DaemonIsInOrder(me) ==
  \/ me = Polling
  \/ /\ me.at \in DaemonSteps
     /\ me.id \in JobIds
     /\ me.at # "GET" => me.doc \in Doc

DaemonsHoldJobs ==
  \A d \in Daemons :
    /\ DaemonIsInOrder(daemon[d])
    /\ daemon[d].id # None => job[daemon[d].id] \in Doc

(***************************************************************************)
(* Job j is not in the list yet.                                           *)
(***************************************************************************)
Fresh(j) ==
  job[j] = None \/ \E p \in Producers : proc[p].id = j /\ proc[p].at = "LPUSH"

FreshIsUntouched ==
  \A j \in JobIds : Fresh(j) =>
    /\ response[j] = None
    /\ \A d \in Daemons : daemon[d].id # j
    /\ \A p \in Producers : toInit[p] # j
    /\ "meta" \notin files[j]

(***************************************************************************)
(* The files of job j are still to be initialised by an API process.       *)
(***************************************************************************)
Pending(j) == \E p \in Producers : proc[p].id = j \/ toInit[p] = j

(***************************************************************************)
(* A job is submitted by one process, once.                                *)
(***************************************************************************)
SubmissionsAreApart ==
  \A p \in Producers : toInit[p] # None =>
    /\ proc[p] = Idle
    /\ job[toInit[p]] \in Doc
    /\ \A q \in Producers \ {p} : toInit[q] # toInit[p] /\ proc[q].id # toInit[p]

(***************************************************************************)
(* The run of job j has completed, or is written down as completed.        *)
(***************************************************************************)
Recovered(j) ==
  \/ response[j] = "completed"
  \/ \E d \in Daemons : /\ daemon[d].at = "SET completed" /\ daemon[d].id = j
                        /\ daemon[d].status = "completed"

FilesBeforeState ==
  \A j \in JobIds :
    /\ Pending(j) => "meta" \notin files[j]
    /\ Recovered(j) /\ (Pending(j) \/ "meta" \in files[j]) =>
         {"code", "report"} \subseteq files[j]

DInv ==
  /\ IInv
  /\ DispatchTypeOK
  /\ ConsumersAreIdle
  /\ DaemonsHoldJobs
  /\ FreshIsUntouched
  /\ SubmissionsAreApart
  /\ FilesBeforeState
  /\ OneRunPerJob

-----------------------------------------------------------------------------
(***************************************************************************)
(* A step of the API process p that stores no files.  It takes on a job    *)
(* that nobody knows, keeps the one it has, or lets go of it.              *)
(***************************************************************************)
LEMMA CallStep ==
  ASSUME Assumptions, DInv, IInv', NEW p \in Producers,
         \A q \in Producers \ {p} : proc'[q] = proc[q] /\ toInit'[q] = toInit[q],
         \A c \in Consumers : proc'[c] = proc[c],
         toInit' \in [Producers -> JobIds \cup {None}],
         UNCHANGED <<files, response, daemon>>,
         \A j \in JobIds : job[j] \in Doc => job'[j] \in Doc,
         \A j \in JobIds : Fresh(j)' => Fresh(j) /\ toInit'[p] # j,
         proc'[p].id \in JobIds =>
           proc'[p].id = proc[p].id \/ job[proc'[p].id] = None,
         toInit'[p] # None => /\ toInit'[p] \in {proc[p].id, toInit[p]}
                              /\ proc'[p] = Idle /\ job'[toInit'[p]] \in Doc,
         OneRunPerJob'
  PROVE  DInv'
<1>1. DispatchTypeOK'
  BY DEF DInv, DispatchTypeOK, DaemonLocal, Doc
<1>2. ConsumersAreIdle'
  BY DEF DInv, ConsumersAreIdle, Idle
<1>3. DaemonsHoldJobs'
  <2> SUFFICES ASSUME NEW d \in Daemons
               PROVE  /\ DaemonIsInOrder(daemon[d])
                      /\ daemon[d].id # None => job'[daemon[d].id] \in Doc
    BY DEF DaemonsHoldJobs, DaemonIsInOrder, Polling, Doc
  <2>1. /\ DaemonIsInOrder(daemon[d])
        /\ daemon[d].id # None => job[daemon[d].id] \in Doc
        /\ daemon[d] \in DaemonLocal
    BY DEF DInv, DaemonsHoldJobs, DispatchTypeOK
  <2>2. daemon[d].id \in JobIds \cup {None}
    BY <2>1 DEF DaemonLocal
  <2> QED BY <2>1, <2>2
<1>4. FreshIsUntouched'
  BY DEF DInv, FreshIsUntouched
<1>5. \A j \in JobIds : job[j] = None => Fresh(j)
  BY DEF Fresh
<1>6. SubmissionsAreApart'
  <2> SUFFICES ASSUME NEW q \in Producers, toInit'[q] # None
               PROVE  /\ proc'[q] = Idle
                      /\ job'[toInit'[q]] \in Doc
                      /\ \A r \in Producers \ {q} : /\ toInit'[r] # toInit'[q]
                                                    /\ proc'[r].id # toInit'[q]
    BY DEF SubmissionsAreApart, Idle
  <2>0. toInit'[q] \in JobIds
    OBVIOUS
  <2>1. CASE q = p
    <3>1. ASSUME NEW r \in Producers \ {p}
          PROVE  toInit[r] # toInit'[p] /\ proc[r].id # toInit'[p]
      <4>1. CASE toInit'[p] = proc[p].id
        <5>1. toInit[r] # proc[p].id
          BY <2>0, <2>1, <4>1, NoneAssumption DEF DInv, SubmissionsAreApart
        <5>2. proc[r].id # proc[p].id
          BY <2>0, <2>1, <4>1, NoneAssumption DEF DInv, IInv, OneProducerPerJob
        <5> QED BY <4>1, <5>1, <5>2
      <4>2. CASE toInit'[p] = toInit[p]
        BY <2>1, <4>2 DEF DInv, SubmissionsAreApart
      <4> QED BY <2>1, <4>1, <4>2
    <3> QED BY <2>1, <3>1
  <2>2. CASE q # p
    <3>1. /\ toInit'[q] = toInit[q] /\ proc'[q] = proc[q]
          /\ proc[q] = Idle /\ job[toInit[q]] \in Doc
          /\ \A r \in Producers \ {q} : /\ toInit[r] # toInit[q]
                                        /\ proc[r].id # toInit[q]
      BY <2>2 DEF DInv, SubmissionsAreApart
    <3>2. proc'[p].id # toInit[q]
      BY <2>0, <2>2, <3>1, NoneAssumption
    <3>3. toInit'[p] # toInit[q]
      BY <2>0, <2>2, <3>1
    <3> QED BY <2>2, <3>1, <3>2, <3>3
  <2> QED BY <2>1, <2>2
<1>7. FilesBeforeState'
  <2> SUFFICES ASSUME NEW j \in JobIds
               PROVE  /\ Pending(j)' => "meta" \notin files[j]
                      /\ Recovered(j) /\ (Pending(j)' \/ "meta" \in files[j]) =>
                           {"code", "report"} \subseteq files[j]
    BY DEF FilesBeforeState, Recovered
  <2>1. Pending(j)' => Pending(j) \/ job[j] = None
    BY NoneAssumption DEF Pending
  <2>2. job[j] = None => "meta" \notin files[j] /\ ~Recovered(j)
    <3>1. SUFFICES ASSUME job[j] = None PROVE "meta" \notin files[j] /\ ~Recovered(j)
      OBVIOUS
    <3>2. /\ "meta" \notin files[j] /\ response[j] = None
          /\ \A d \in Daemons : daemon[d].id # j
      BY <1>5, <3>1 DEF DInv, FreshIsUntouched
    <3>3. None # "completed"
      BY DEF Assumptions
    <3> QED BY <3>2, <3>3 DEF Recovered
  <2> QED BY <2>1, <2>2 DEF DInv, FilesBeforeState
<1> QED BY <1>1, <1>2, <1>3, <1>4, <1>6, <1>7 DEF DInv

(***************************************************************************)
(* Submit: the job is one that nobody knows.                               *)
(***************************************************************************)
LEMMA SubmitKeeps ==
  ASSUME Assumptions, DInv, NEW p \in Producers, Submit(p) PROVE DInv'
<1>1. PICK j \in JobIds : EnqueueLookup(p, j, j)
  BY DEF Submit
<1>2. IInv'
  BY <1>1, EnqueueLookupKeeps DEF DInv
<1> DEFINE me == [Idle EXCEPT !.at = "LLEN", !.id = j, !.key = j]
<1>3. /\ proc' = [proc EXCEPT ![p] = me] /\ job[j] = None
      /\ toInit[p] = None
      /\ UNCHANGED <<job, waiting, toInit, files, response, daemon>>
  BY <1>1 DEF EnqueueLookup, Unused, Submit, redis
<1>4. me.at = "LLEN" /\ me.id = j
  BY DEF Idle
<1> HIDE DEF me
<1>5. /\ proc'[p] = me
      /\ \A q \in Producers \ {p} : proc'[q] = proc[q]
      /\ \A c \in Consumers : proc'[c] = proc[c]
  BY <1>3, ProcessesAssumption DEF DInv, IInv, TypeOK
<1>6. \A i \in JobIds : Fresh(i)' => Fresh(i)
  BY <1>3, <1>4, <1>5 DEF Fresh
<1>7. OneRunPerJob' /\ toInit' \in [Producers -> JobIds \cup {None}]
  BY <1>3 DEF DInv, DispatchTypeOK, OneRunPerJob
<1>8. \A i \in JobIds : toInit'[p] # i
  BY <1>3, NoneAssumption
<1> QED BY <1>2, <1>3, <1>4, <1>5, <1>6, <1>7, <1>8, CallStep

(***************************************************************************)
(* Queue and Queued: the calls of RedisQueue go on.                        *)
(***************************************************************************)
LEMMA BusyIsNotToInit ==
  ASSUME DInv, NEW p \in Producers, proc[p].at # "idle" PROVE toInit[p] = None
  BY DEF DInv, SubmissionsAreApart, Idle

(***************************************************************************)
(* EnqueueDepth: the call goes on, or returns because the queue is full.   *)
(***************************************************************************)
LEMMA DepthKeeps ==
  ASSUME Assumptions, DInv, NEW p \in Producers, EnqueueDepth(p),
         UNCHANGED <<toInit, files, response, daemon>>
  PROVE  DInv'
<1>1. IInv'
  BY EnqueueDepthKeeps DEF DInv
<1> DEFINE me == [proc[p] EXCEPT !.at = "SET job"]
<1>2. /\ proc[p].at = "LLEN"
      /\ proc' = [proc EXCEPT ![p] = me] \/ proc' = [proc EXCEPT ![p] = Idle]
      /\ UNCHANGED <<job, waiting>>
  BY DEF EnqueueDepth, GoTo, Return, redis
<1>3. proc \in [Producers \cup Consumers -> Local] /\ p \notin Consumers
  BY ProcessesAssumption DEF DInv, IInv, TypeOK
<1>4. /\ proc'[p].id \in {proc[p].id, None} /\ proc'[p].at # "LPUSH"
      /\ \A q \in Producers \ {p} : proc'[q] = proc[q]
      /\ \A c \in Consumers : proc'[c] = proc[c]
  <2>1. CASE proc' = [proc EXCEPT ![p] = me]
    <3>1. me.id = proc[p].id /\ me.at = "SET job"
      BY <1>3 DEF Local
    <3> QED BY <1>3, <2>1, <3>1
  <2>2. CASE proc' = [proc EXCEPT ![p] = Idle]
    BY <1>3, <2>2 DEF Idle
  <2> QED BY <1>2, <2>1, <2>2
<1> HIDE DEF me
<1>5. toInit[p] = None /\ \A i \in JobIds : toInit'[p] # i
  BY <1>2, BusyIsNotToInit, NoneAssumption
<1>6. \A i \in JobIds : Fresh(i)' => Fresh(i)
  BY <1>2, <1>4 DEF Fresh
<1>7. OneRunPerJob' /\ toInit' \in [Producers -> JobIds \cup {None}]
  BY <1>2 DEF DInv, DispatchTypeOK, OneRunPerJob
<1>8. proc'[p].id \in JobIds => proc'[p].id = proc[p].id
  BY <1>4, NoneAssumption
<1> QED BY <1>1, <1>2, <1>4, <1>5, <1>6, <1>7, <1>8, CallStep

(***************************************************************************)
(* EnqueueSetJob: the document appears, and the job is still fresh.        *)
(***************************************************************************)
LEMMA SetJobKeeps ==
  ASSUME Assumptions, DInv, NEW p \in Producers, EnqueueSetJob(p),
         UNCHANGED <<toInit, files, response, daemon>>
  PROVE  DInv'
<1>1. IInv'
  BY EnqueueSetJobKeeps DEF DInv
<1> DEFINE me == [proc[p] EXCEPT !.at = "LPUSH"]
           doc == [state |-> "QUEUED", attempts |-> 0, idempotencyKey |-> proc[p].key]
<1>2. /\ proc[p].at = "SET job"
      /\ proc' = [proc EXCEPT ![p] = me]
      /\ job' = [job EXCEPT ![proc[p].id] = doc]
      /\ waiting' = waiting
  BY DEF EnqueueSetJob, GoTo
<1>3. /\ proc \in [Producers \cup Consumers -> Local] /\ p \notin Consumers
      /\ job \in [JobIds -> Doc \cup {None}]
  BY ProcessesAssumption DEF DInv, IInv, TypeOK
<1>4. /\ proc[p].id \in JobIds /\ proc[p].key \in Keys \cup JobIds
      /\ job[proc[p].id] = None
  BY <1>2, CallFacts DEF DInv, SubmissionIsPrivate
<1>5. doc \in Doc
  BY <1>4 DEF Doc, JobState
<1>6. me.id = proc[p].id
  BY <1>3 DEF Local
<1> HIDE DEF me, doc
<1>7. /\ proc'[p].id = proc[p].id
      /\ \A q \in Producers \ {p} : proc'[q] = proc[q]
      /\ \A c \in Consumers : proc'[c] = proc[c]
      /\ \A i \in JobIds : job[i] \in Doc => job'[i] \in Doc
      /\ \A i \in JobIds : i # proc[p].id => job'[i] = job[i]
  BY <1>2, <1>3, <1>4, <1>5, <1>6
<1>8. toInit[p] = None /\ \A i \in JobIds : toInit'[p] # i
  BY <1>2, BusyIsNotToInit, NoneAssumption
<1>9. \A i \in JobIds : Fresh(i)' => Fresh(i)
  BY <1>4, <1>7 DEF Fresh
<1>10. OneRunPerJob' /\ toInit' \in [Producers -> JobIds \cup {None}]
  BY <1>2 DEF DInv, DispatchTypeOK, OneRunPerJob
<1> QED BY <1>1, <1>2, <1>7, <1>8, <1>9, <1>10, CallStep

(***************************************************************************)
(* EnqueuePush: the job can be popped from here on.                        *)
(***************************************************************************)
LEMMA PushKeeps ==
  ASSUME Assumptions, DInv, NEW p \in Producers, EnqueuePush(p),
         UNCHANGED <<toInit, files, response, daemon>>
  PROVE  DInv'
<1>1. IInv'
  BY EnqueuePushKeeps DEF DInv
<1>2. proc[p].at = "LPUSH"
  BY DEF EnqueuePush, GoTo
<1>3. PICK j \in JobIds : j = proc[p].id
  BY <1>2, CallFacts DEF DInv
<1> DEFINE me == [proc[p] EXCEPT !.at = "SET idemp"]
<1>4. /\ proc' = [proc EXCEPT ![p] = me]
      /\ waiting' = Append(waiting, j)
      /\ job' = job
  BY <1>3 DEF EnqueuePush, GoTo
<1>5. /\ proc \in [Producers \cup Consumers -> Local] /\ p \notin Consumers
      /\ waiting \in Seq(JobIds)
  BY ProcessesAssumption DEF DInv, IInv, TypeOK
<1>6. me.id = j /\ me.at = "SET idemp"
  BY <1>3, <1>5 DEF Local
<1> HIDE DEF me
<1>7. /\ proc'[p].id = proc[p].id /\ proc'[p].at = "SET idemp"
      /\ \A q \in Producers \ {p} : proc'[q] = proc[q]
      /\ \A c \in Consumers : proc'[c] = proc[c]
  BY <1>3, <1>4, <1>5, <1>6
<1>8. toInit[p] = None /\ \A i \in JobIds : toInit'[p] # i
  BY <1>2, BusyIsNotToInit, NoneAssumption
<1>9. \A i \in JobIds : Fresh(i)' => Fresh(i)
  BY <1>4, <1>7 DEF Fresh
<1>10. response[j] = None /\ \A d \in Daemons : daemon[d].id # j
  <2>1. Fresh(j)
    BY <1>2, <1>3 DEF Fresh
  <2> QED BY <2>1 DEF DInv, FreshIsUntouched
<1>11. OneRunPerJob'
  <2>1. Entries(waiting') = Entries(waiting) \cup {j}
    BY <1>4, <1>5, AppendEntries
  <2>2. Distinct(waiting')
    BY <1>1 DEF IInv, OneConsumerPerJob
  <2> QED BY <1>10, <2>1, <2>2 DEF DInv, OneRunPerJob
<1>12. toInit' \in [Producers -> JobIds \cup {None}]
  BY DEF DInv, DispatchTypeOK
<1> QED BY <1>1, <1>4, <1>7, <1>8, <1>9, <1>11, <1>12, CallStep

(***************************************************************************)
(* Queued: enqueue has resolved, the files are still to be stored.         *)
(***************************************************************************)
LEMMA QueuedKeeps ==
  ASSUME Assumptions, DInv, NEW p \in Producers, Queued(p) PROVE DInv'
<1>1. IInv'
  BY EnqueueSetIdempKeeps DEF DInv, Queued
<1>2. /\ proc[p].at = "SET idemp"
      /\ proc' = [proc EXCEPT ![p] = Idle]
      /\ toInit' = [toInit EXCEPT ![p] = proc[p].id]
      /\ UNCHANGED <<job, waiting, files, response, daemon>>
  BY DEF Queued, EnqueueSetIdemp, Return
<1>3. /\ proc \in [Producers \cup Consumers -> Local] /\ p \notin Consumers
      /\ toInit \in [Producers -> JobIds \cup {None}]
  BY ProcessesAssumption DEF DInv, IInv, TypeOK, DispatchTypeOK
<1>4. /\ proc[p].id \in JobIds /\ job[proc[p].id] \in Doc
      /\ \A q \in Producers \ {p} : proc[q].id # proc[p].id
  BY <1>2, CallFacts DEF DInv, SubmissionIsPrivate
<1>5. /\ proc'[p] = Idle /\ toInit'[p] = proc[p].id
      /\ \A q \in Producers \ {p} : proc'[q] = proc[q] /\ toInit'[q] = toInit[q]
      /\ \A c \in Consumers : proc'[c] = proc[c]
  BY <1>2, <1>3
<1>6. Idle.id = None /\ Idle.at = "idle"
  BY DEF Idle
<1>7. \A i \in JobIds : Fresh(i)' => Fresh(i) /\ toInit'[p] # i
  <2>1. TAKE i \in JobIds
  <2>2. HAVE Fresh(i)'
  <2>3. job[i] = None \/ \E q \in Producers \ {p} : proc[q].id = i /\ proc[q].at = "LPUSH"
    BY <1>2, <1>5, <1>6, <2>2 DEF Fresh
  <2>4. i # proc[p].id
    BY <1>4, <2>3, NoneAssumption
  <2> QED BY <1>5, <2>3, <2>4 DEF Fresh
<1>8. OneRunPerJob' /\ toInit' \in [Producers -> JobIds \cup {None}]
  BY <1>2, <1>3, <1>4 DEF DInv, OneRunPerJob
<1>9. ~(proc'[p].id \in JobIds)
  BY <1>5, <1>6, NoneAssumption
<1> QED BY <1>1, <1>2, <1>4, <1>5, <1>7, <1>8, <1>9, CallStep

(***************************************************************************)
(* ApiCrash: the job stays in Redis and nobody will store its files.       *)
(***************************************************************************)
LEMMA ApiCrashKeeps ==
  ASSUME Assumptions, DInv, NEW p \in Producers, ApiCrash(p) PROVE DInv'
<1>1. /\ proc' = [proc EXCEPT ![p] = Idle]
      /\ toInit' = [toInit EXCEPT ![p] = None]
      /\ abandoned' = abandoned \cup ({proc[p].id, toInit[p]} \ {None})
      /\ UNCHANGED <<job, waiting, idemp, lease, issued, files, response, daemon>>
  BY DEF ApiCrash, redis
<1>2. /\ proc \in [Producers \cup Consumers -> Local] /\ p \notin Consumers
      /\ toInit \in [Producers -> JobIds \cup {None}]
      /\ abandoned \subseteq JobIds
      /\ idemp \in [Keys \cup JobIds -> JobIds \cup {None}]
  BY ProcessesAssumption DEF DInv, IInv, TypeOK, DispatchTypeOK
<1>3. abandoned' \subseteq JobIds
  BY <1>1, <1>2 DEF Local
<1>4. IInv'
  BY <1>1, <1>2, <1>3, ProducerStep, IdleIsLocal DEF DInv
<1>5. /\ proc'[p] = Idle /\ toInit'[p] = None
      /\ \A q \in Producers \ {p} : proc'[q] = proc[q] /\ toInit'[q] = toInit[q]
      /\ \A c \in Consumers : proc'[c] = proc[c]
  BY <1>1, <1>2
<1>6. Idle.id = None /\ Idle.at = "idle"
  BY DEF Idle
<1>7. \A i \in JobIds : Fresh(i)' => Fresh(i) /\ toInit'[p] # i
  BY <1>1, <1>5, <1>6, NoneAssumption DEF Fresh
<1>8. OneRunPerJob' /\ toInit' \in [Producers -> JobIds \cup {None}]
  BY <1>1, <1>2 DEF DInv, OneRunPerJob
<1>9. ~(proc'[p].id \in JobIds)
  BY <1>5, <1>6, NoneAssumption
<1> QED BY <1>1, <1>4, <1>5, <1>7, <1>8, <1>9, CallStep

(***************************************************************************)
(* The files of a job arrive when its submission returns, whatever a       *)
(* daemon has stored by then, and go at the end of retention.              *)
(***************************************************************************)
LEMMA InitJobArtifactsKeeps ==
  ASSUME DInv, NEW p \in Producers, InitJobArtifacts(p) PROVE DInv'
<1>1. PICK j \in JobIds : j = toInit[p]
  BY DEF InitJobArtifacts, DInv, DispatchTypeOK
<1>2. /\ toInit' = [toInit EXCEPT ![p] = None]
      /\ files' = [files EXCEPT ![j] = @ \cup {"meta", "source"}]
      /\ UNCHANGED <<job, waiting, idemp, lease, issued, abandoned, proc, response, daemon>>
  BY <1>1 DEF InitJobArtifacts, vars, redis
<1>3. IInv'
  BY StepKeeps DEF DInv, InitJobArtifacts
<1>4. /\ toInit \in [Producers -> JobIds \cup {None}]
      /\ files \in [JobIds -> SUBSET {"meta", "source", "code", "report"}]
  BY DEF DInv, DispatchTypeOK
<1>5. /\ toInit'[p] = None /\ \A q \in Producers \ {p} : toInit'[q] = toInit[q]
      /\ files'[j] = files[j] \cup {"meta", "source"}
      /\ \A i \in JobIds \ {j} : files'[i] = files[i]
  BY <1>2, <1>4
<1>6. DispatchTypeOK'
  BY <1>2, <1>4 DEF DInv, DispatchTypeOK, DaemonLocal, Doc
<1>7. ConsumersAreIdle' /\ DaemonsHoldJobs' /\ OneRunPerJob'
  BY <1>2 DEF DInv, ConsumersAreIdle, Idle, DaemonsHoldJobs, DaemonIsInOrder, Polling,
              Doc, OneRunPerJob
<1>8. /\ proc[p] = Idle /\ job[j] \in Doc
      /\ \A q \in Producers \ {p} : toInit[q] # j /\ proc[q].id # j
  BY <1>1, NoneAssumption DEF DInv, SubmissionsAreApart
<1>9. ~Pending(j)'
  <2>1. Idle.id # j
    BY NoneAssumption DEF Idle
  <2> QED BY <1>2, <1>5, <1>8, <2>1, NoneAssumption DEF Pending
<1>10. Pending(j)
  BY <1>1 DEF Pending
<1>11. FreshIsUntouched'
  <2> SUFFICES ASSUME NEW i \in JobIds, Fresh(i)'
               PROVE  /\ response[i] = None
                      /\ \A d \in Daemons : daemon[d].id # i
                      /\ \A q \in Producers : toInit'[q] # i
                      /\ "meta" \notin files'[i]
    BY <1>2 DEF FreshIsUntouched
  <2>1. Fresh(i)
    BY <1>2 DEF Fresh
  <2>2. /\ response[i] = None
        /\ \A d \in Daemons : daemon[d].id # i
        /\ \A q \in Producers : toInit[q] # i
        /\ "meta" \notin files[i]
    BY <2>1 DEF DInv, FreshIsUntouched
  <2>3. i # j
    BY <1>1, <2>2
  <2> QED BY <1>5, <2>2, <2>3, NoneAssumption
<1>12. SubmissionsAreApart'
  <2> SUFFICES ASSUME NEW q \in Producers, toInit'[q] # None
               PROVE  /\ proc[q] = Idle
                      /\ job[toInit'[q]] \in Doc
                      /\ \A r \in Producers \ {q} : /\ toInit'[r] # toInit'[q]
                                                    /\ proc[r].id # toInit'[q]
    BY <1>2 DEF SubmissionsAreApart, Idle, Doc
  <2> QED BY <1>5 DEF DInv, SubmissionsAreApart
<1>13. FilesBeforeState'
  <2> SUFFICES ASSUME NEW i \in JobIds
               PROVE  /\ Pending(i)' => "meta" \notin files'[i]
                      /\ Recovered(i) /\ (Pending(i)' \/ "meta" \in files'[i]) =>
                           {"code", "report"} \subseteq files'[i]
    BY <1>2 DEF FilesBeforeState, Recovered
  <2>1. /\ Pending(i) => "meta" \notin files[i]
        /\ Recovered(i) /\ (Pending(i) \/ "meta" \in files[i]) =>
             {"code", "report"} \subseteq files[i]
    BY DEF DInv, FilesBeforeState
  <2>2. CASE i = j
    BY <1>5, <1>9, <1>10, <2>1, <2>2
  <2>3. CASE i # j
    <3>1. Pending(i)' => Pending(i)
      BY <1>2, <1>5, NoneAssumption DEF Pending
    <3> QED BY <1>5, <2>1, <2>3, <3>1
  <2> QED BY <2>2, <2>3
<1> QED BY <1>3, <1>6, <1>7, <1>11, <1>12, <1>13 DEF DInv

(***************************************************************************)
(* RemoveExpired: the files go together, and only when the owner is on     *)
(* record.                                                                 *)
(***************************************************************************)
LEMMA RemoveExpiredKeeps ==
  ASSUME DInv, NEW j \in JobIds, RemoveExpired(j) PROVE DInv'
<1>1. /\ "meta" \in files[j]
      /\ files' = [files EXCEPT ![j] = {}]
      /\ UNCHANGED <<job, waiting, idemp, lease, issued, abandoned, proc, toInit, response,
                     daemon>>
  BY DEF RemoveExpired, vars, redis
<1>2. IInv'
  BY StepKeeps DEF DInv, RemoveExpired
<1>3. files'[j] = {} /\ \A i \in JobIds \ {j} : files'[i] = files[i]
  BY <1>1 DEF DInv, DispatchTypeOK
<1>4. DispatchTypeOK'
  BY <1>1 DEF DInv, DispatchTypeOK, DaemonLocal, Doc
<1>5. /\ ConsumersAreIdle' /\ DaemonsHoldJobs' /\ OneRunPerJob' /\ SubmissionsAreApart'
  BY <1>1 DEF DInv, ConsumersAreIdle, Idle, DaemonsHoldJobs, DaemonIsInOrder, Polling,
              Doc, OneRunPerJob, SubmissionsAreApart
<1>6. FreshIsUntouched'
  BY <1>1, <1>3 DEF DInv, FreshIsUntouched, Fresh
<1>7. FilesBeforeState'
  <2> SUFFICES ASSUME NEW i \in JobIds
               PROVE  /\ Pending(i) => "meta" \notin files'[i]
                      /\ Recovered(i) /\ (Pending(i) \/ "meta" \in files'[i]) =>
                           {"code", "report"} \subseteq files'[i]
    BY <1>1 DEF FilesBeforeState, Recovered, Pending
  <2>1. ~Pending(j)
    BY <1>1 DEF DInv, FilesBeforeState
  <2> QED BY <1>3, <2>1 DEF DInv, FilesBeforeState
<1> QED BY <1>2, <1>4, <1>5, <1>6, <1>7 DEF DInv

-----------------------------------------------------------------------------
(***************************************************************************)
(* Somebody else than a consumer writes a job that is in nobody's call     *)
(* before LPUSH, nor in the list.                                          *)
(***************************************************************************)
LEMMA ForeignWrite ==
  ASSUME IInv, ConsumersAreIdle, NEW j \in JobIds, NEW doc \in Doc,
         job' = [job EXCEPT ![j] = doc], job[j] \in Doc,
         j \notin Entries(waiting),
         \A p \in Producers : proc[p].id = j => proc[p].at # "LPUSH",
         UNCHANGED <<waiting, idemp, lease, issued, proc>>,
         abandoned' \subseteq JobIds
  PROVE  IInv'
<1>1. job \in [JobIds -> Doc \cup {None}] /\ job[j] # None
  BY NoneAssumption DEF IInv, TypeOK
<1>2. job'[j] = doc /\ \A i \in JobIds \ {j} : job'[i] = job[i]
  BY <1>1
<1>3. TypeOK'
  <2>1. job' \in [JobIds -> Doc \cup {None}]
    BY <1>1
  <2> QED BY <2>1 DEF IInv, TypeOK
<1>4. ConsumersHoldJobs' /\ OneConsumerPerJob' /\ OneProducerPerJob'
  BY DEF ConsumersAreIdle, IInv, ConsumersHoldJobs, OneConsumerPerJob, OneProducerPerJob,
         Idle
<1>5. ProducersSubmitJobs'
  <2>1. \A i : Claimed(i)' => Claimed(i)
    BY DEF Claimed
  <2> SUFFICES ASSUME NEW q \in Producers, proc'[q] # Idle
               PROVE  /\ proc'[q].at \in EnqueueSteps
                      /\ proc'[q].id \in JobIds
                      /\ proc'[q].key \in Keys \cup JobIds
                      /\ SubmissionIsPrivate(proc[q])'
    BY DEF ProducersSubmitJobs
  <2>2. /\ proc'[q] = proc[q]
        /\ proc[q].at \in EnqueueSteps
        /\ proc[q].id \in JobIds
        /\ proc[q].key \in Keys \cup JobIds
        /\ SubmissionIsPrivate(proc[q])
    BY DEF IInv, ProducersSubmitJobs
  <2>3. CASE proc[q].id = j
    <3>1. proc[q].at = "SET idemp"
      BY <1>1, <2>2, <2>3 DEF SubmissionIsPrivate, EnqueueSteps
    <3> QED BY <1>2, <2>2, <2>3, <3>1 DEF SubmissionIsPrivate
  <2>4. CASE proc[q].id # j
    BY <1>2, <2>1, <2>2, <2>4 DEF SubmissionIsPrivate
  <2> QED BY <2>3, <2>4
<1>6. ListedAreQueued'
  <2>1. \A i \in Entries(waiting) : i \in JobIds /\ i # j
    BY DEF IInv, TypeOK, Entries
  <2> QED BY <1>2, <2>1 DEF IInv, ListedAreQueued
<1> QED BY <1>3, <1>4, <1>5, <1>6 DEF IInv

(***************************************************************************)
(* What the invariant says of a daemon that has a job.                     *)
(***************************************************************************)
LEMMA DaemonFacts ==
  ASSUME DInv, NEW d \in Daemons, daemon[d].at # "idle"
  PROVE  /\ daemon[d] \in DaemonLocal
         /\ daemon[d].at \in DaemonSteps
         /\ daemon[d].id \in JobIds
         /\ job[daemon[d].id] \in Doc
         /\ daemon[d].at # "GET" => daemon[d].doc \in Doc
         /\ daemon[d].id \notin Entries(waiting)
         /\ response[daemon[d].id] = None
         /\ \A e \in Daemons \ {d} : daemon[e].id # daemon[d].id
         /\ ~Fresh(daemon[d].id)
<1>1. daemon[d] \in DaemonLocal
  BY DEF DInv, DispatchTypeOK
<1>2. daemon[d] # Polling
  BY DEF Polling
<1>3. /\ daemon[d].at \in DaemonSteps /\ daemon[d].id \in JobIds
      /\ daemon[d].at # "GET" => daemon[d].doc \in Doc
  BY <1>2 DEF DInv, DaemonsHoldJobs, DaemonIsInOrder
<1>4. daemon[d].id # None
  BY <1>3, NoneAssumption
<1>5. /\ job[daemon[d].id] \in Doc
      /\ daemon[d].id \notin Entries(waiting)
      /\ response[daemon[d].id] = None
      /\ \A e \in Daemons \ {d} : daemon[e].id # daemon[d].id
  BY <1>4 DEF DInv, DaemonsHoldJobs, OneRunPerJob
<1>6. ~Fresh(daemon[d].id)
  BY <1>3 DEF DInv, FreshIsUntouched
<1> QED BY <1>1, <1>3, <1>5, <1>6

(***************************************************************************)
(* Daemon d, which has job j, writes doc, stored and answer of it (or what *)
(* is there already) and is then at me: it goes on, or polls again.        *)
(***************************************************************************)
DaemonWrites(d, j, doc, me, stored, answer) ==
  /\ daemon[d].at # "idle" /\ daemon[d].id = j
  /\ doc \in Doc /\ me \in DaemonLocal
  /\ stored \subseteq {"meta", "source", "code", "report"}
  /\ answer \in Outcomes \cup {None}
  /\ DaemonIsInOrder(me) /\ (me = Polling \/ me.id = j)
  /\ answer = None \/ me = Polling
  /\ "meta" \in stored => "meta" \in files[j]
  /\ answer = "completed" \/ (me.at = "SET completed" /\ me.status = "completed") =>
       {"code", "report"} \subseteq stored \/ (~Pending(j) /\ "meta" \notin stored)
  /\ job' = [job EXCEPT ![j] = doc]
  /\ daemon' = [daemon EXCEPT ![d] = me]
  /\ files' = [files EXCEPT ![j] = stored]
  /\ response' = [response EXCEPT ![j] = answer]
  /\ UNCHANGED <<waiting, idemp, lease, issued, proc, toInit>>
  /\ abandoned' \subseteq JobIds

(***************************************************************************)
(* Nobody else has the job a daemon writes.                                *)
(***************************************************************************)
LEMMA DaemonStep ==
  ASSUME Assumptions, DInv, NEW d \in Daemons, NEW j \in JobIds,
         NEW doc, NEW me, NEW stored, NEW answer,
         DaemonWrites(d, j, doc, me, stored, answer)
  PROVE  DInv'
<1>0. /\ daemon[d].at # "idle" /\ daemon[d].id = j
      /\ doc \in Doc /\ me \in DaemonLocal
      /\ DaemonIsInOrder(me) /\ (me = Polling \/ me.id = j)
      /\ answer = None \/ me = Polling
      /\ job' = [job EXCEPT ![j] = doc]
      /\ daemon' = [daemon EXCEPT ![d] = me]
      /\ files' = [files EXCEPT ![j] = stored]
      /\ response' = [response EXCEPT ![j] = answer]
      /\ UNCHANGED <<waiting, idemp, lease, issued, proc, toInit>>
      /\ abandoned' \subseteq JobIds
  BY DEF DaemonWrites
<1>1. /\ job[j] \in Doc /\ j \notin Entries(waiting) /\ response[j] = None
      /\ \A e \in Daemons \ {d} : daemon[e].id # j
      /\ ~Fresh(j)
  BY <1>0, DaemonFacts
<1>2. /\ job \in [JobIds -> Doc \cup {None}]
      /\ files \in [JobIds -> SUBSET {"meta", "source", "code", "report"}]
      /\ response \in [JobIds -> Outcomes \cup {None}]
      /\ daemon \in [Daemons -> DaemonLocal]
  BY DEF DInv, IInv, TypeOK, DispatchTypeOK
<1>3. /\ job'[j] = doc /\ files'[j] = stored /\ response'[j] = answer
      /\ \A i \in JobIds \ {j} : /\ job'[i] = job[i] /\ files'[i] = files[i]
                                 /\ response'[i] = response[i]
      /\ daemon'[d] = me /\ \A e \in Daemons \ {d} : daemon'[e] = daemon[e]
  BY <1>0, <1>2
<1>4. /\ me = Polling => me.id = None /\ me.at = "idle"
      /\ me.id = None \/ me.id = j
  <2>1. Polling.id = None /\ Polling.at = "idle"
    BY DEF Polling
  <2> QED BY <1>0, <2>1
<1>5. IInv'
  <2>1. \A p \in Producers : proc[p].id = j => proc[p].at # "LPUSH"
    BY <1>1 DEF Fresh
  <2> QED BY <1>0, <1>1, <2>1, ForeignWrite DEF DInv
<1>6. DispatchTypeOK'
  <2>1. daemon' \in [Daemons -> DaemonLocal]
    BY <1>0, <1>2
  <2>2. /\ files' \in [JobIds -> SUBSET {"meta", "source", "code", "report"}]
        /\ response' \in [JobIds -> Outcomes \cup {None}]
    BY <1>2 DEF DaemonWrites
  <2>3. toInit' \in [Producers -> JobIds \cup {None}]
    BY <1>0 DEF DInv, DispatchTypeOK
  <2> QED BY <2>1, <2>2, <2>3 DEF DispatchTypeOK, DaemonLocal, Doc
<1>7. ConsumersAreIdle'
  BY <1>0 DEF DInv, ConsumersAreIdle, Idle
<1>8. DaemonsHoldJobs'
  <2> SUFFICES ASSUME NEW e \in Daemons
               PROVE  /\ DaemonIsInOrder(daemon'[e])
                      /\ daemon'[e].id # None => job'[daemon'[e].id] \in Doc
    BY DEF DaemonsHoldJobs, DaemonIsInOrder, Polling, Doc
  <2>1. CASE e = d
    <3>1. daemon'[e] = me
      BY <1>3, <2>1
    <3>2. DaemonIsInOrder(daemon'[e])
      BY <1>0, <3>1
    <3> QED BY <1>0, <1>3, <1>4, <3>1, <3>2
  <2>2. CASE e # d
    <3>1. /\ daemon'[e] = daemon[e] /\ daemon[e].id # j
          /\ DaemonIsInOrder(daemon[e])
          /\ daemon[e].id # None => job[daemon[e].id] \in Doc
          /\ daemon[e].id \in JobIds \cup {None}
      BY <1>1, <1>2, <1>3, <2>2 DEF DInv, DaemonsHoldJobs, DaemonLocal
    <3> QED BY <1>3, <3>1
  <2> QED BY <2>1, <2>2
<1>9. \A i \in JobIds : Fresh(i)' => Fresh(i) /\ i # j
  <2> TAKE i \in JobIds
  <2>1. doc # None
    BY <1>0, NoneAssumption
  <2>2. CASE i = j
    <3>1. job'[i] # None /\ ~\E p \in Producers : proc[p].id = i /\ proc[p].at = "LPUSH"
      BY <1>1, <1>3, <2>1, <2>2 DEF Fresh
    <3> QED BY <1>0, <3>1 DEF Fresh
  <2>3. CASE i # j
    BY <1>0, <1>3, <2>3 DEF Fresh
  <2> QED BY <2>2, <2>3
<1>10. FreshIsUntouched'
  <2> SUFFICES ASSUME NEW i \in JobIds, Fresh(i)'
               PROVE  /\ response'[i] = None
                      /\ \A e \in Daemons : daemon'[e].id # i
                      /\ \A p \in Producers : toInit[p] # i
                      /\ "meta" \notin files'[i]
    BY <1>0 DEF FreshIsUntouched
  <2>1. Fresh(i) /\ i # j
    BY <1>9
  <2>2. /\ response[i] = None
        /\ \A e \in Daemons : daemon[e].id # i
        /\ \A p \in Producers : toInit[p] # i
        /\ "meta" \notin files[i]
    BY <2>1 DEF DInv, FreshIsUntouched
  <2>3. \A e \in Daemons : daemon'[e].id # i
    BY <1>3, <1>4, <2>1, <2>2, NoneAssumption
  <2> QED BY <1>3, <2>1, <2>2, <2>3
<1>11. SubmissionsAreApart'
  <2> SUFFICES ASSUME NEW p \in Producers, toInit[p] # None
               PROVE  /\ proc[p] = Idle
                      /\ job'[toInit[p]] \in Doc
                      /\ \A q \in Producers \ {p} : /\ toInit[q] # toInit[p]
                                                    /\ proc[q].id # toInit[p]
    BY <1>0 DEF SubmissionsAreApart, Idle, Doc
  <2>1. toInit[p] \in JobIds
    BY DEF DInv, DispatchTypeOK
  <2> QED BY <1>0, <1>3, <2>1 DEF DInv, SubmissionsAreApart
<1>12. FilesBeforeState'
  <2> SUFFICES ASSUME NEW i \in JobIds
               PROVE  /\ Pending(i) => "meta" \notin files'[i]
                      /\ Recovered(i)' /\ (Pending(i) \/ "meta" \in files'[i]) =>
                           {"code", "report"} \subseteq files'[i]
    BY <1>0 DEF FilesBeforeState, Pending
  <2>1. /\ Pending(i) => "meta" \notin files[i]
        /\ Recovered(i) /\ (Pending(i) \/ "meta" \in files[i]) =>
             {"code", "report"} \subseteq files[i]
    BY DEF DInv, FilesBeforeState
  <2>2. CASE i = j
    <3>1. Recovered(j)' => \/ answer = "completed"
                           \/ me.at = "SET completed" /\ me.status = "completed"
      BY <1>1, <1>3 DEF Recovered
    <3> QED BY <1>3, <2>1, <2>2, <3>1 DEF DaemonWrites
  <2>3. CASE i # j
    <3>1. Recovered(i)' => Recovered(i)
      <4>1. \A e \in Daemons : daemon'[e].id = i => daemon'[e] = daemon[e]
        BY <1>3, <1>4, <2>3, NoneAssumption
      <4> QED BY <1>3, <2>3, <4>1 DEF Recovered
    <3> QED BY <1>3, <2>1, <2>3, <3>1
  <2> QED BY <2>2, <2>3
<1>13. OneRunPerJob'
  <2>1. Distinct(waiting) /\ \A i \in Entries(waiting) : response'[i] = None
    <3>1. waiting \in Seq(JobIds)
      BY DEF DInv, IInv, TypeOK
    <3>2. \A i \in Entries(waiting) : i \in JobIds /\ i # j
      <4>1. \A i \in Entries(waiting) : i \in JobIds
        BY <3>1 DEF Entries
      <4> QED BY <1>1, <4>1
    <3> QED BY <1>3, <3>2 DEF DInv, OneRunPerJob
  <2>2. ASSUME NEW e \in Daemons, daemon'[e].id # None
        PROVE  /\ daemon'[e].id \notin Entries(waiting)
               /\ response'[daemon'[e].id] = None
               /\ \A f \in Daemons \ {e} : daemon'[f].id # daemon'[e].id
    <3>1. CASE e = d
      <4>1. daemon'[e].id = j /\ me # Polling
        BY <1>3, <1>4, <2>2, <3>1
      <4>2. response'[j] = None
        BY <1>0, <1>3, <4>1
      <4> QED BY <1>1, <1>3, <3>1, <4>1, <4>2
    <3>2. CASE e # d
      <4>1. daemon'[e] = daemon[e] /\ daemon[e].id # j /\ daemon[e].id # None
        BY <1>1, <1>3, <2>2, <3>2
      <4>2. daemon[e].id \in JobIds
        BY <1>2, <4>1 DEF DaemonLocal
      <4>3. /\ daemon[e].id \notin Entries(waiting)
            /\ response[daemon[e].id] = None
            /\ \A f \in Daemons \ {e} : daemon[f].id # daemon[e].id
        BY <4>1 DEF DInv, OneRunPerJob
      <4>4. \A f \in Daemons \ {e} : daemon'[f].id # daemon[e].id
        BY <1>3, <1>4, <4>1, <4>3
      <4>5. response'[daemon[e].id] = response[daemon[e].id]
        BY <1>3, <4>1, <4>2
      <4> QED BY <4>1, <4>3, <4>4, <4>5
    <3> QED BY <3>1, <3>2
  <2> QED BY <1>0, <2>1, <2>2 DEF OneRunPerJob
<1> QED BY <1>5, <1>6, <1>7, <1>8, <1>10, <1>11, <1>12, <1>13 DEF DInv

(***************************************************************************)
(* A daemon that only moves on, or polls again.                            *)
(***************************************************************************)
LEMMA DaemonMoves ==
  ASSUME Assumptions, DInv, NEW d \in Daemons, daemon[d].at # "idle",
         NEW me \in DaemonLocal, daemon' = [daemon EXCEPT ![d] = me],
         DaemonIsInOrder(me), me = Polling \/ me.id = daemon[d].id,
         me.at # "SET completed",
         NEW doc \in Doc, job' = [job EXCEPT ![daemon[d].id] = doc],
         UNCHANGED <<waiting, idemp, lease, issued, proc, toInit, files, response>>,
         abandoned' \subseteq JobIds
  PROVE  DInv'
<1>1. PICK j \in JobIds : j = daemon[d].id
  BY DaemonFacts
<1>2. response[j] = None /\ None # "completed"
  BY <1>1, DaemonFacts DEF Assumptions
<1>3. /\ files' = [files EXCEPT ![j] = files[j]]
      /\ response' = [response EXCEPT ![j] = None]
      /\ files[j] \subseteq {"meta", "source", "code", "report"}
  BY <1>2 DEF DInv, DispatchTypeOK
<1>4. DaemonWrites(d, j, doc, me, files[j], None)
  BY <1>1, <1>2, <1>3 DEF DaemonWrites
<1> QED BY <1>4, DaemonStep

(***************************************************************************)
(* A daemon that polls is well-formed.                                     *)
(***************************************************************************)
LEMMA PollingIsLocal == Polling \in DaemonLocal
  BY DEF Polling, DaemonLocal

(***************************************************************************)
(* GetJob: the document is always there, nobody deletes it.                *)
(***************************************************************************)
LEMMA GetJobKeeps ==
  ASSUME Assumptions, DInv, NEW d \in Daemons, GetJob(d) PROVE DInv'
<1> DEFINE doc == job[daemon[d].id]
           me == [daemon[d] EXCEPT !.at = "SET running", !.doc = doc]
<1>1. daemon[d].at = "GET"
  BY DEF GetJob
<1>2. daemon[d] \in DaemonLocal /\ daemon[d].id \in JobIds /\ doc \in Doc
  BY <1>1, DaemonFacts
<1>3. me \in DaemonLocal /\ me.at = "SET running" /\ me.id = daemon[d].id /\ me.doc = doc
  BY <1>2 DEF DaemonLocal, DaemonSteps
<1>4. DaemonIsInOrder(me)
  BY <1>2, <1>3 DEF DaemonIsInOrder, DaemonSteps
<1>5. /\ daemon' = [daemon EXCEPT ![d] = me]
      /\ job' = [job EXCEPT ![daemon[d].id] = doc]
      /\ UNCHANGED <<waiting, idemp, lease, issued, proc, toInit, files, response>>
      /\ abandoned' \subseteq JobIds
  BY <1>2, NoneAssumption DEF GetJob, redis, DInv, IInv, TypeOK
<1> HIDE DEF me, doc
<1> QED BY <1>1, <1>2, <1>3, <1>4, <1>5, DaemonMoves

(***************************************************************************)
(* SetRunning: the copy that is written back is of the job the daemon has. *)
(***************************************************************************)
LEMMA SetRunningKeeps ==
  ASSUME Assumptions, DInv, NEW d \in Daemons, SetRunning(d) PROVE DInv'
<1> DEFINE doc == [daemon[d].doc EXCEPT !.state = "RUNNING"]
           me == [daemon[d] EXCEPT !.at = "run"]
<1>1. daemon[d].at = "SET running"
  BY DEF SetRunning
<1>2. daemon[d] \in DaemonLocal /\ daemon[d].id \in JobIds /\ daemon[d].doc \in Doc
  BY <1>1, DaemonFacts
<1>3. doc \in Doc
  BY <1>2 DEF Doc, JobState
<1>4. /\ me \in DaemonLocal /\ me.at = "run" /\ me.id = daemon[d].id
      /\ me.doc = daemon[d].doc
  BY <1>2 DEF DaemonLocal, DaemonSteps
<1>5. DaemonIsInOrder(me)
  BY <1>2, <1>4 DEF DaemonIsInOrder, DaemonSteps
<1>6. /\ daemon' = [daemon EXCEPT ![d] = me]
      /\ job' = [job EXCEPT ![daemon[d].id] = doc]
      /\ UNCHANGED <<waiting, idemp, lease, issued, proc, toInit, files, response>>
      /\ abandoned' \subseteq JobIds
  BY DEF SetRunning, apiVars, DInv, IInv, TypeOK
<1> HIDE DEF me, doc
<1> QED BY <1>1, <1>3, <1>4, <1>5, <1>6, DaemonMoves

(***************************************************************************)
(* The end of a run: the files are stored before the state is written.     *)
(***************************************************************************)
LEMMA RunKeeps ==
  ASSUME Assumptions, DInv, NEW d \in Daemons, NEW outcome \in Outcomes, Run(d, outcome)
  PROVE  DInv'
<1>0. daemon[d].at = "run"
  BY DEF Run
<1>1. PICK j \in JobIds : j = daemon[d].id
  BY <1>0, DaemonFacts
<1>2. /\ daemon[d] \in DaemonLocal /\ job[j] \in Doc /\ response[j] = None
      /\ daemon[d].doc \in Doc
  BY <1>0, <1>1, DaemonFacts
<1>3. /\ job' = [job EXCEPT ![j] = job[j]]
      /\ UNCHANGED <<waiting, idemp, lease, issued, proc, toInit, response>>
  BY DEF Run, redis, DInv, IInv, TypeOK
<1>4. abandoned' \subseteq JobIds
  BY <1>1 DEF Run, DInv, IInv, TypeOK
<1>5. CASE outcome = "throws"
  <2>1. daemon' = [daemon EXCEPT ![d] = Polling] /\ files' = files
    BY <1>5 DEF Run
  <2>2. Polling.at # "SET completed" /\ DaemonIsInOrder(Polling)
    BY DEF Polling, DaemonIsInOrder
  <2> QED BY <1>0, <1>1, <1>2, <1>3, <1>4, <2>1, <2>2, PollingIsLocal, DaemonMoves
<1>6. CASE outcome # "throws"
  <2> DEFINE me == [daemon[d] EXCEPT !.at = "SET completed", !.status = outcome]
             stored == (files[j] \cup Stores(outcome)) \ {"source"}
  <2>1. /\ daemon' = [daemon EXCEPT ![d] = me]
        /\ files' = [files EXCEPT ![j] = stored]
    BY <1>1, <1>6 DEF Run
  <2>2. /\ me \in DaemonLocal /\ me.at = "SET completed" /\ me.id = j
        /\ me.doc = daemon[d].doc /\ me.status = outcome
    BY <1>1, <1>2 DEF DaemonLocal, DaemonSteps
  <2>3. DaemonIsInOrder(me)
    BY <1>2, <2>2 DEF DaemonIsInOrder, DaemonSteps
  <2>4. /\ stored \subseteq {"meta", "source", "code", "report"}
        /\ "meta" \in stored => "meta" \in files[j]
        /\ outcome = "completed" => {"code", "report"} \subseteq stored
    BY DEF Stores, DInv, DispatchTypeOK
  <2>5. response' = [response EXCEPT ![j] = None] /\ None # "completed"
    BY <1>2, <1>3 DEF DInv, DispatchTypeOK, Assumptions
  <2> HIDE DEF me, stored
  <2>6. DaemonWrites(d, j, job[j], me, stored, None)
    BY <1>0, <1>1, <1>2, <1>3, <1>4, <2>1, <2>2, <2>3, <2>4, <2>5 DEF DaemonWrites
  <2> QED BY <2>6, DaemonStep
<1> QED BY <1>5, <1>6

(***************************************************************************)
(* SetCompleted: the answer is written when the files are there.           *)
(***************************************************************************)
LEMMA SetCompletedKeeps ==
  ASSUME Assumptions, DInv, NEW d \in Daemons, SetCompleted(d) PROVE DInv'
<1>0. daemon[d].at = "SET completed"
  BY DEF SetCompleted
<1>1. PICK j \in JobIds : j = daemon[d].id
  BY <1>0, DaemonFacts
<1> DEFINE doc == [daemon[d].doc EXCEPT !.state = "COMPLETED"]
<1>2. daemon[d] \in DaemonLocal /\ daemon[d].doc \in Doc
  BY <1>0, DaemonFacts
<1>3. doc \in Doc
  BY <1>2 DEF Doc, JobState
<1>4. /\ job' = [job EXCEPT ![j] = doc]
      /\ response' = [response EXCEPT ![j] = daemon[d].status]
      /\ daemon' = [daemon EXCEPT ![d] = Polling]
      /\ UNCHANGED <<waiting, idemp, lease, issued, abandoned, proc, toInit, files>>
  BY <1>1 DEF SetCompleted, Answered, apiVars
<1> HIDE DEF doc
<1>5. /\ files' = [files EXCEPT ![j] = files[j]]
      /\ files[j] \subseteq {"meta", "source", "code", "report"}
      /\ abandoned' \subseteq JobIds
  BY <1>4 DEF DInv, IInv, TypeOK, DispatchTypeOK
<1>6. daemon[d].status \in Outcomes \cup {None}
  BY <1>2 DEF DaemonLocal
<1>7. Polling.at # "SET completed" /\ DaemonIsInOrder(Polling)
  BY DEF Polling, DaemonIsInOrder
<1>8. daemon[d].status = "completed" =>
        {"code", "report"} \subseteq files[j] \/ (~Pending(j) /\ "meta" \notin files[j])
  <2>1. daemon[d].status = "completed" => Recovered(j)
    BY <1>0, <1>1 DEF Recovered
  <2> QED BY <2>1 DEF DInv, FilesBeforeState
<1>9. DaemonWrites(d, j, doc, Polling, files[j], daemon[d].status)
  BY <1>0, <1>1, <1>3, <1>4, <1>5, <1>6, <1>7, <1>8, PollingIsLocal DEF DaemonWrites
<1> QED BY <1>9, DaemonStep

(***************************************************************************)
(* DaemonCrash: the job is lost, and nobody gets it a second time.         *)
(***************************************************************************)
LEMMA DaemonCrashKeeps ==
  ASSUME Assumptions, DInv, NEW d \in Daemons, DaemonCrash(d) PROVE DInv'
<1>1. /\ daemon[d] # Polling
      /\ daemon' = [daemon EXCEPT ![d] = Polling]
      /\ abandoned' = abandoned \cup {daemon[d].id}
      /\ UNCHANGED <<job, waiting, idemp, lease, issued, proc, toInit, files, response>>
  BY DEF DaemonCrash, redis
<1>2. daemon[d].at # "idle"
  BY <1>1 DEF DInv, DaemonsHoldJobs, DaemonIsInOrder, DaemonSteps
<1>3. daemon[d].id \in JobIds /\ job[daemon[d].id] \in Doc
  BY <1>2, DaemonFacts
<1>4. /\ job' = [job EXCEPT ![daemon[d].id] = job[daemon[d].id]]
      /\ abandoned' \subseteq JobIds
  BY <1>1, <1>3 DEF DInv, IInv, TypeOK
<1>5. Polling.at # "SET completed" /\ DaemonIsInOrder(Polling)
  BY DEF Polling, DaemonIsInOrder
<1> QED BY <1>1, <1>2, <1>3, <1>4, <1>5, PollingIsLocal, DaemonMoves

(***************************************************************************)
(* The job a daemon pops is nobody else's, and has no answer yet.          *)
(***************************************************************************)
LEMMA PopJobKeeps ==
  ASSUME Assumptions, DInv, NEW d \in Daemons, PopJob(d) PROVE DInv'
<1>0. /\ waiting \in Seq(JobIds) /\ Distinct(waiting) /\ waiting # <<>>
      /\ daemon[d].at = "idle" /\ Head(waiting) \in JobIds
  BY HeadTailEntries DEF PopJob, DInv, IInv, TypeOK, OneRunPerJob
<1>1. PICK j \in JobIds : j = Head(waiting)
  BY <1>0
<1> DEFINE me == [daemon[d] EXCEPT !.at = "GET", !.id = j]
<1>2. /\ waiting' = Tail(waiting)
      /\ daemon' = [daemon EXCEPT ![d] = me]
      /\ UNCHANGED <<job, idemp, lease, issued, abandoned, proc, toInit, files, response>>
  BY <1>1 DEF PopJob, Pop, apiVars
<1>3. /\ j \in Entries(waiting)
      /\ waiting' \in Seq(JobIds) /\ Distinct(waiting')
      /\ Entries(waiting') = Entries(waiting) \ {j}
  BY <1>0, <1>1, <1>2, HeadTailEntries
<1>4. job[j] \in Doc /\ response[j] = None
  BY <1>3 DEF DInv, IInv, ListedAreQueued, OneRunPerJob
<1>5. /\ daemon \in [Daemons -> DaemonLocal]
      /\ \A e \in Daemons : daemon[e].id # j
  <2>1. \A e \in Daemons : daemon[e].id # None => daemon[e].id \notin Entries(waiting)
    BY DEF DInv, OneRunPerJob
  <2> QED BY <1>3, <2>1, NoneAssumption DEF DInv, DispatchTypeOK
<1>6. me \in DaemonLocal /\ me.at = "GET" /\ me.id = j
  BY <1>5 DEF DaemonLocal, DaemonSteps
<1> HIDE DEF me
<1>7. daemon'[d] = me /\ \A e \in Daemons \ {d} : daemon'[e] = daemon[e]
  BY <1>2, <1>5
<1>8. IInv'
  <2>1. TypeOK'
    BY <1>2, <1>3 DEF DInv, IInv, TypeOK
  <2>2. ConsumersHoldJobs' /\ OneProducerPerJob'
    BY <1>2 DEF DInv, IInv, ConsumersHoldJobs, OneProducerPerJob, CopyIsCurrent
  <2>3. OneConsumerPerJob' /\ ListedAreQueued'
    BY <1>2, <1>3 DEF DInv, IInv, OneConsumerPerJob, ListedAreQueued
  <2>4. ProducersSubmitJobs'
    <3>1. \A i : Claimed(i)' => Claimed(i)
      BY <1>2, <1>3 DEF Claimed
    <3> SUFFICES ASSUME NEW p \in Producers, proc[p] # Idle
                 PROVE  /\ proc[p].at \in EnqueueSteps
                        /\ proc[p].id \in JobIds
                        /\ proc[p].key \in Keys \cup JobIds
                        /\ SubmissionIsPrivate(proc[p])'
      BY <1>2 DEF ProducersSubmitJobs, Idle
    <3>2. /\ proc[p].at \in EnqueueSteps
          /\ proc[p].id \in JobIds
          /\ proc[p].key \in Keys \cup JobIds
          /\ SubmissionIsPrivate(proc[p])
      BY DEF DInv, IInv, ProducersSubmitJobs
    <3> QED BY <1>2, <3>1, <3>2 DEF SubmissionIsPrivate
  <2> QED BY <2>1, <2>2, <2>3, <2>4 DEF IInv
<1>9. DispatchTypeOK'
  <2>1. daemon' \in [Daemons -> DaemonLocal]
    BY <1>2, <1>5, <1>6
  <2> QED BY <1>2, <2>1 DEF DInv, DispatchTypeOK, DaemonLocal, Doc
<1>10. ConsumersAreIdle' /\ SubmissionsAreApart'
  BY <1>2 DEF DInv, ConsumersAreIdle, SubmissionsAreApart, Idle, Doc
<1>11. DaemonsHoldJobs'
  <2>1. DaemonIsInOrder(me)
    BY <1>6 DEF DaemonIsInOrder, DaemonSteps
  <2> SUFFICES ASSUME NEW e \in Daemons
               PROVE  /\ DaemonIsInOrder(daemon'[e])
                      /\ daemon'[e].id # None => job[daemon'[e].id] \in Doc
    BY <1>2 DEF DaemonsHoldJobs, DaemonIsInOrder, Polling, Doc
  <2>2. CASE e = d
    BY <1>4, <1>6, <1>7, <2>1, <2>2
  <2>3. CASE e # d
    BY <1>7, <2>3 DEF DInv, DaemonsHoldJobs
  <2> QED BY <2>2, <2>3
<1>12. FreshIsUntouched'
  <2>1. ~Fresh(j)
    <3>1. job[j] # None
      BY <1>4, NoneAssumption
    <3>2. ASSUME NEW p \in Producers, proc[p].id = j, proc[p].at = "LPUSH"
          PROVE  FALSE
      <4>1. ~Claimed(proc[p].id)
        BY <3>2, CallFacts DEF DInv, SubmissionIsPrivate
      <4> QED BY <1>3, <3>2, <4>1 DEF Claimed
    <3> QED BY <3>1, <3>2 DEF Fresh
  <2> SUFFICES ASSUME NEW i \in JobIds, Fresh(i)
               PROVE  /\ response[i] = None
                      /\ \A e \in Daemons : daemon'[e].id # i
                      /\ \A p \in Producers : toInit[p] # i
                      /\ "meta" \notin files[i]
    BY <1>2 DEF FreshIsUntouched, Fresh
  <2>2. i # j
    BY <2>1
  <2> QED BY <1>6, <1>7, <2>2 DEF DInv, FreshIsUntouched
<1>13. FilesBeforeState'
  <2> SUFFICES ASSUME NEW i \in JobIds
               PROVE  /\ Pending(i) => "meta" \notin files[i]
                      /\ Recovered(i)' /\ (Pending(i) \/ "meta" \in files[i]) =>
                           {"code", "report"} \subseteq files[i]
    BY <1>2 DEF FilesBeforeState, Pending
  <2>1. Recovered(i)' => Recovered(i)
    BY <1>2, <1>6, <1>7 DEF Recovered
  <2> QED BY <2>1 DEF DInv, FilesBeforeState
<1>14. OneRunPerJob'
  <2> SUFFICES ASSUME NEW e \in Daemons, daemon'[e].id # None
               PROVE  /\ daemon'[e].id \notin Entries(waiting')
                      /\ response[daemon'[e].id] = None
                      /\ \A f \in Daemons \ {e} : daemon'[f].id # daemon'[e].id
    BY <1>2, <1>3 DEF DInv, OneRunPerJob
  <2>1. CASE e = d
    BY <1>3, <1>4, <1>5, <1>6, <1>7, <2>1
  <2>2. CASE e # d
    <3>1. /\ daemon'[e] = daemon[e] /\ daemon[e].id # j
          /\ daemon[e].id \notin Entries(waiting)
          /\ response[daemon[e].id] = None
          /\ \A f \in Daemons \ {e} : daemon[f].id # daemon[e].id
      BY <1>5, <1>7, <2>2 DEF DInv, OneRunPerJob
    <3> QED BY <1>3, <1>6, <1>7, <2>2, <3>1
  <2> QED BY <2>1, <2>2
<1> QED BY <1>8, <1>9, <1>10, <1>11, <1>12, <1>13, <1>14 DEF DInv

-----------------------------------------------------------------------------
(***************************************************************************)
(* The invariant holds of every behaviour.                                 *)
(***************************************************************************)
LEMMA DispatchInitEstablishes == ASSUME Assumptions, DispatchInit PROVE DInv
<1>1. IInv
  BY InitEstablishes DEF DispatchInit
<1>2. /\ \A p \in Producers \cup Consumers : proc[p] = Idle
      /\ \A p \in Producers : toInit[p] = None
      /\ \A j \in JobIds : files[j] = {} /\ response[j] = None
      /\ \A d \in Daemons : daemon[d] = Polling
      /\ waiting = <<>>
  BY DEF DispatchInit, Init
<1>3. Idle.id = None /\ Idle.at = "idle" /\ Polling.id = None /\ Polling.at = "idle"
  BY DEF Idle, Polling
<1>4. DispatchTypeOK
  BY PollingIsLocal DEF DispatchInit, DispatchTypeOK
<1>5. ConsumersAreIdle /\ SubmissionsAreApart
  BY <1>2 DEF ConsumersAreIdle, SubmissionsAreApart
<1>6. DaemonsHoldJobs
  BY <1>2, <1>3 DEF DaemonsHoldJobs, DaemonIsInOrder
<1>7. FreshIsUntouched
  BY <1>2, <1>3, NoneAssumption DEF FreshIsUntouched
<1>8. FilesBeforeState
  <2>1. None # "completed"
    BY DEF Assumptions
  <2> QED BY <1>2, <1>3, <2>1, NoneAssumption DEF FilesBeforeState, Recovered, Pending
<1>9. OneRunPerJob
  <2>1. Entries(waiting) = {} /\ Distinct(waiting)
    BY <1>2 DEF Entries, Distinct
  <2> QED BY <1>2, <1>3, <2>1 DEF OneRunPerJob
<1> QED BY <1>1, <1>4, <1>5, <1>6, <1>7, <1>8, <1>9 DEF DInv

(***************************************************************************)
(* Every step of an API process, of a daemon or of the clock keeps it.     *)
(***************************************************************************)
LEMMA DispatchStepKeeps ==
  ASSUME Assumptions, DInv, [DispatchNext]_dispatchVars PROVE DInv'
<1>1. ASSUME NEW p \in Producers, Submit(p) \/ Api(p) \/ ApiCrash(p) PROVE DInv'
  <2>1. CASE Queue(p)
    BY <2>1, DepthKeeps, SetJobKeeps, PushKeeps DEF Queue
  <2> QED BY <1>1, <2>1, SubmitKeeps, QueuedKeeps, InitJobArtifactsKeeps, ApiCrashKeeps
          DEF Api
<1>2. ASSUME NEW d \in Daemons, Loop(d) \/ DaemonCrash(d) PROVE DInv'
  BY <1>2, PopJobKeeps, GetJobKeeps, SetRunningKeeps, RunKeeps, SetCompletedKeeps,
     DaemonCrashKeeps DEF Loop
<1>3. CASE UNCHANGED dispatchVars
  <2>1. IInv'
    BY <1>3, StepKeeps DEF DInv, dispatchVars
  <2>2. UNCHANGED <<job, waiting, proc, toInit, files, response, daemon>>
    BY <1>3 DEF dispatchVars, vars, redis
  <2>3. DispatchTypeOK' /\ ConsumersAreIdle' /\ DaemonsHoldJobs' /\ OneRunPerJob'
    BY <2>2 DEF DInv, DispatchTypeOK, DaemonLocal, ConsumersAreIdle, Idle, DaemonsHoldJobs,
                DaemonIsInOrder, Polling, Doc, OneRunPerJob
  <2>4. FreshIsUntouched' /\ SubmissionsAreApart' /\ FilesBeforeState'
    BY <2>2 DEF DInv, FreshIsUntouched, Fresh, SubmissionsAreApart, Idle, Doc,
                FilesBeforeState, Pending, Recovered
  <2> QED BY <2>1, <2>3, <2>4 DEF DInv
<1> QED BY <1>1, <1>2, <1>3, RemoveExpiredKeeps DEF DispatchNext

(***************************************************************************)
(* DInv holds of every behaviour of the deployed path.                     *)
(***************************************************************************)
LEMMA DispatchInvariance == ASSUME Assumptions PROVE DispatchSpec => []DInv
<1>1. DispatchInit => DInv
  BY DispatchInitEstablishes
<1>2. DInv /\ [DispatchNext]_dispatchVars => DInv'
  BY DispatchStepKeeps
<1> QED BY <1>1, <1>2, PTL DEF DispatchSpec

(***************************************************************************)
(* One job is never run twice, though no daemon looks at the state of a    *)
(* job and whatever crashes: see OneRunPerJob.                             *)
(***************************************************************************)
THEOREM OneRun == ASSUME Assumptions PROVE DispatchSpec => []OneRunPerJob
<1>1. DInv => OneRunPerJob
  BY DEF DInv
<1> QED BY <1>1, DispatchInvariance, PTL

(***************************************************************************)
(* A recovery that Redis shows as completed can be downloaded, whenever    *)
(* the submission stored its own files: see CompletedIsDownloadable.       *)
(***************************************************************************)
THEOREM Download == ASSUME Assumptions PROVE DispatchSpec => []CompletedIsDownloadable
<1>1. DInv => CompletedIsDownloadable
  BY DEF DInv, FilesBeforeState, Recovered, CompletedIsDownloadable
<1> QED BY <1>1, DispatchInvariance, PTL

=============================================================================
