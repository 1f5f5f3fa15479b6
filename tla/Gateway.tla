------------------------------ MODULE Gateway ------------------------------
(***************************************************************************)
(* RecoveryGateway (packages/gateway/src/recovery-gateway.js) over the     *)
(* queue of its own process, with one of the artifact stores of            *)
(* artifact-store.js and the counters of metrics.js, and the handlers of   *)
(* ProductApiServer (packages/api/src/server.js) that ask for the status   *)
(* of a recovery, cancel it, list its artifacts and download one.          *)
(*                                                                         *)
(* Over this queue every method of the gateway is synchronous, so a run of *)
(* the worker is one step, whatever its length; only the handlers of the   *)
(* server are cut in two, by the await after they have looked up the job.  *)
(***************************************************************************)
EXTENDS Ranking

CONSTANTS
  Requests,        \* handlers that may be under way together
  Principals,
  JobIds,
  Outcomes,        \* how a run of the worker may end
  maxQueueDepth,
  maxRetries,
  retention,       \* retentionMs, in ticks
  Restarts,        \* whether the process may be restarted
  None

\* What the queue has of a job.
Job == [state : {"QUEUED", "COMPLETED", "FAILED", "CANCELLED"}, attempts : Nat,
        result : Outcomes \cup {None}]

Assumptions ==
  /\ IsFiniteSet(JobIds) /\ None \notin Principals \cup Job
  /\ Outcomes \subseteq {"completed", "empty", "report too large", "failed",
                         "timed_out", "throws"}
  /\ {maxQueueDepth, maxRetries, retention} \subseteq Nat
  /\ Restarts \in BOOLEAN

VARIABLES
  store,      \* the class of the artifact store
  owner,      \* job id -> who it was made for, None while the id is not in use
  job,        \* the queue's jobs: state, attempts, result; None for no job
  waiting,    \* the queue's list
  files,      \* job id -> what the store has of it, "meta" being the record
  age,        \* job id -> Date.now() - createdAt of that record
  counters,   \* of the metrics
  handler     \* request -> what it looked up, or what it was answered

vars == <<store, owner, job, waiting, files, age, counters, handler>>

Stores == {"local", "filesystem", "s3"}

Kinds == {"recoveredCode", "report", "logs"}

Counters == {"submitted", "completed", "failed", "timed_out", "cancelled",
             "admissions"}

Idle == [at |-> "idle", op |-> None, job |-> None, by |-> None,
         seen |-> None, says |-> None]

-----------------------------------------------------------------------------
(***************************************************************************)
(* state-machine.js: what a state of the queue is called by the product.   *)
(* The queue's LEASED does not occur, RESOURCE_LIMIT is a failure.         *)
(***************************************************************************)
mapInternalToProductState(state) ==
  CASE state = "COMPLETED" -> "SUCCEEDED"
    [] state \in {"QUEUED", "RUNNING", "TIMED_OUT", "CANCELLED"} -> state
    [] OTHER -> "FAILED"

TERMINAL_PRODUCT_STATES == {"SUCCEEDED", "FAILED", "TIMED_OUT", "CANCELLED"}

CANCELLABLE_PRODUCT_STATES == {"QUEUED", "LEASED", "RUNNING"}

-----------------------------------------------------------------------------
(***************************************************************************)
(* The stores.  The one for S3 keeps no source; the one on disk is given a *)
(* file for a job whether or not it has a record of it.                    *)
(***************************************************************************)
InitialFiles == IF store = "s3" THEN {"meta"} ELSE {"meta", "sourceCode"}

CanSave(j) == store = "filesystem" \/ "meta" \in files[j]

Purged(j) == files[j] \ {"sourceCode"}

Expired(j) == "meta" \in files[j] /\ age[j] > retention

cleanupExpired == [j \in JobIds |-> IF Expired(j) THEN {} ELSE files[j]]

(***************************************************************************)
(* getArtifact removes what has expired first: everything, this job's      *)
(* directory, or nothing.                                                  *)
(***************************************************************************)
FilesWhenAsked(j) ==
  CASE store = "local" -> cleanupExpired
    [] store = "filesystem" -> [files EXCEPT ![j] = cleanupExpired[j]]
    [] store = "s3" -> files

NoRecord == IF store = "s3" THEN "ARTIFACT_NOT_FOUND" ELSE "ARTIFACT_EXPIRED"

ArtifactFor(p, j, kind) ==
  LET has == FilesWhenAsked(j)[j] IN
  CASE "meta" \notin has -> NoRecord
    [] "meta" \in has /\ owner[j] # p -> "FORBIDDEN"
    [] "meta" \in has /\ owner[j] = p /\ kind \in has -> "OK"
    [] OTHER -> "INTERNAL_ERROR"

-----------------------------------------------------------------------------
Count(names) == [c \in Counters |-> IF c \in names THEN counters[c] + 1 ELSE counters[c]]

Init ==
  /\ store \in Stores
  /\ owner = [j \in JobIds |-> None]
  /\ job = [j \in JobIds |-> None]
  /\ waiting = <<>>
  /\ files = [j \in JobIds |-> {}]
  /\ age = [j \in JobIds |-> 0]
  /\ counters = [c \in Counters |-> 0]
  /\ handler = [r \in Requests |-> Idle]

(***************************************************************************)
(* submitJobSync.  The server hands on no key, so every job is a new one.  *)
(* A queue that is full, or a limit, refuses it without a trace in here.   *)
(***************************************************************************)
SubmitJob(j, p) ==
  /\ owner[j] = None
  /\ Len(waiting) < maxQueueDepth
  /\ owner' = [owner EXCEPT ![j] = p]
  /\ job' = [job EXCEPT ![j] = [state |-> "QUEUED", attempts |-> 0, result |-> None]]
  /\ waiting' = Append(waiting, j)
  /\ files' = [files EXCEPT ![j] = InitialFiles]
  /\ counters' = Count({"submitted"})
  /\ UNCHANGED <<store, age, handler>>

-----------------------------------------------------------------------------
(***************************************************************************)
(* processNextJobSync: lease, run, save, purge, count and report.  A store *)
(* that refuses a file throws, as the runner may, and the job is failed;   *)
(* what was saved before that stays.  The principal's slot is taken and    *)
(* given back within the step and never refused (see RateLimiter).         *)
(***************************************************************************)
Produces(outcome) ==
  CASE outcome = "completed" -> {"recoveredCode", "report"}
    [] outcome = "empty" -> {"report"}      \* no code: it is '' and not saved
    [] outcome = "report too large" -> {"recoveredCode"}
    [] OTHER -> {}

Succeeds(j, outcome) == outcome \in {"completed", "empty"} /\ CanSave(j)

SavedUnpurged(j, outcome) ==   \* defect: the source is purged on success only
  IF ~CanSave(j) THEN files[j]
  ELSE IF Succeeds(j, outcome) THEN Purged(j) \cup Produces(outcome)
  ELSE files[j] \cup Produces(outcome)

Saved(j, outcome) ==
  IF CanSave(j) THEN Purged(j) \cup Produces(outcome) ELSE files[j]

Counted(j, outcome) ==
  CASE Succeeds(j, outcome) -> {"completed", "admissions"}
    [] outcome = "timed_out" -> {"timed_out"}
    [] OTHER -> {"failed"}

MayRetry(j) == job[j].attempts + 1 < maxRetries

StateAfter(j, outcome) ==
  IF Succeeds(j, outcome) THEN "COMPLETED"
  ELSE IF MayRetry(j) THEN "QUEUED" ELSE "FAILED"

ProcessNextJob(outcome) ==
  LET j == Head(waiting) IN
  /\ waiting # <<>>
  /\ job' = [job EXCEPT
               ![j] = [state |-> StateAfter(j, outcome), attempts |-> @.attempts + 1,
                       result |-> IF Succeeds(j, outcome) THEN outcome ELSE None]]
  /\ waiting' = IF StateAfter(j, outcome) = "QUEUED" THEN waiting ELSE Tail(waiting)
  /\ files' = [files EXCEPT ![j] = Saved(j, outcome)]
  /\ counters' = Count(Counted(j, outcome))
  /\ UNCHANGED <<store, owner, age, handler>>

-----------------------------------------------------------------------------
(***************************************************************************)
(* The handlers.  gateway.getJob answers with a copy of the job, or throws *)
(* for one that is not there or not the caller's; the handler goes on with *)
(* the copy when its await returns.                                        *)
(***************************************************************************)
Answered(op, p, j, answer) ==
  [Idle EXCEPT !.at = "answered", !.op = op, !.by = p, !.job = j, !.says = answer]

Found(p, j) ==
  IF job[j] = None THEN "JOB_NOT_FOUND"
  ELSE IF owner[j] # p THEN "FORBIDDEN"
  ELSE "OK"

LookUp(r, op, p, j) ==
  /\ handler[r].at # "await"
  /\ op \in {"status", "cancel", "list"}
  /\ handler' = [handler EXCEPT
                   ![r] = IF Found(p, j) = "OK"
                          THEN [Idle EXCEPT !.at = "await", !.op = op, !.by = p, !.job = j,
                                            !.seen = mapInternalToProductState(job[j].state)]
                          ELSE Answered(op, p, j, Found(p, j))]
  /\ UNCHANGED <<store, owner, job, waiting, files, age, counters>>

Answer(r, answer) ==
  handler' = [handler EXCEPT ![r] = Answered(@.op, @.by, @.job, answer)]

GetRecovery(r) ==
  /\ handler[r].at = "await"
  /\ handler[r].op = "status"
  /\ Answer(r, handler[r].seen)
  /\ UNCHANGED <<store, owner, job, waiting, files, age, counters>>

\* Both artifacts are listed, of every recovery that has succeeded.
ListArtifacts(r) ==
  /\ handler[r].at = "await"
  /\ handler[r].op = "list"
  /\ Answer(r, IF handler[r].seen = "SUCCEEDED" THEN "both" ELSE "none")
  /\ UNCHANGED <<store, owner, job, waiting, files, age, counters>>

(***************************************************************************)
(* What the copy said is checked, then the gateway cancels what is there   *)
(* now; the server does not ask whether it did, and confirms.              *)
(***************************************************************************)
CanBeCancelledAlways(j) == TRUE   \* defect: cancelJob does not look either

CanBeCancelled(j) ==
  mapInternalToProductState(job[j].state) \notin TERMINAL_PRODUCT_STATES

CancelledButQueued(j) == waiting   \* defect: the id stays in the list

WithoutCancelled(j) == Without(waiting, j)

CancelRecovery(r) ==
  LET j == handler[r].job IN
  /\ handler[r].at = "await"
  /\ handler[r].op = "cancel"
  /\ IF handler[r].seen \in CANCELLABLE_PRODUCT_STATES
     THEN Answer(r, "CANCELLED")
     ELSE Answer(r, "JOB_NOT_CANCELLABLE")
  /\ IF handler[r].seen \in CANCELLABLE_PRODUCT_STATES /\ CanBeCancelled(j)
     THEN /\ job' = [job EXCEPT ![j].state = "CANCELLED"]
          /\ waiting' = WithoutCancelled(j)
          /\ files' = [files EXCEPT ![j] = Purged(j)]
          /\ counters' = Count({"cancelled"})
     ELSE UNCHANGED <<job, waiting, files, counters>>
  /\ UNCHANGED <<store, owner, age>>

\* The store is asked before the handler waits; the queue is not asked at all.
DownloadArtifact(r, p, j, kind) ==
  /\ handler[r].at # "await"
  /\ handler' = [handler EXCEPT ![r] = Answered(kind, p, j, ArtifactFor(p, j, kind))]
  /\ files' = FilesWhenAsked(j)
  /\ UNCHANGED <<store, owner, job, waiting, age, counters>>

-----------------------------------------------------------------------------
CleanupExpired ==
  /\ files' = cleanupExpired
  /\ UNCHANGED <<store, owner, job, waiting, age, counters, handler>>

\* Ages stop one tick past the retention: everything older is as old.
Tick ==
  /\ \E j \in JobIds : owner[j] # None /\ age[j] <= retention
  /\ age' = [j \in JobIds |->
               IF owner[j] # None /\ age[j] <= retention THEN age[j] + 1 ELSE age[j]]
  /\ UNCHANGED <<store, owner, job, waiting, files, counters, handler>>

(***************************************************************************)
(* The process is restarted.  Queue, metrics, and the records of a store   *)
(* that are not on disk are gone; clients remember what they were told.    *)
(***************************************************************************)
Restart ==
  /\ Restarts
  /\ job' = [j \in JobIds |-> None]
  /\ waiting' = <<>>
  /\ files' = IF store = "filesystem" THEN files ELSE [j \in JobIds |-> {}]
  /\ counters' = [c \in Counters |-> 0]
  /\ handler' = [r \in Requests |-> IF handler[r].at = "await" THEN Idle ELSE handler[r]]
  /\ UNCHANGED <<store, owner, age>>

Steps(requests, principals, jobs) ==
  \/ \E j \in jobs, p \in principals : SubmitJob(j, p)
  \/ \E outcome \in Outcomes : ProcessNextJob(outcome)
  \/ \E r \in requests :
       \/ \E p \in principals, j \in jobs :
            \/ \E op \in {"status", "cancel", "list"} : LookUp(r, op, p, j)
            \/ \E kind \in Kinds : DownloadArtifact(r, p, j, kind)
       \/ GetRecovery(r) \/ ListArtifacts(r) \/ CancelRecovery(r)
  \/ CleanupExpired \/ Tick

Next == Steps(Requests, Principals, JobIds) \/ Restart

Spec == Init /\ [][Next]_vars

-----------------------------------------------------------------------------
Told(r, op, answer) ==
  handler[r].at = "answered" /\ handler[r].op = op /\ handler[r].says = answer

HasState(j, state) == job[j] # None /\ mapInternalToProductState(job[j].state) = state

(***************************************************************************)
(* A terminal status that a client was once told stays true, as long as    *)
(* the process has the job.                                                *)
(***************************************************************************)
TerminalStatusStays ==
  \A r \in Requests, state \in TERMINAL_PRODUCT_STATES :
    Told(r, "status", state) =>
      \/ job[handler[r].job] = None
      \/ HasState(handler[r].job, state)

(***************************************************************************)
(* A job whose cancellation was confirmed is over: it waits for no worker  *)
(* and runs no more, even when it ended before the cancellation arrived.   *)
(***************************************************************************)
CancelledIsOver ==
  \A r \in Requests :
    LET j == handler[r].job IN
    Told(r, "cancel", "CANCELLED") /\ job[j] # None =>
      /\ \E state \in TERMINAL_PRODUCT_STATES : HasState(j, state)
      /\ \A n \in DOMAIN waiting : waiting[n] # j

(***************************************************************************)
(* What a list named can be downloaded by who asked for it, by no one else *)
(* and until it expires, whatever else the process does.  The exception is *)
(* the code of a program recovered to nothing: it is listed, but the store *)
(* has none, or what an earlier run of the job left there.                 *)
(***************************************************************************)
ListedCanBeDownloaded ==
  \A r \in Requests :
    LET j == handler[r].job IN
    Told(r, "list", "both") /\ job[j] # None /\ age[j] <= retention =>
      /\ ArtifactFor(handler[r].by, j, "report") = "OK"
      /\ \A p \in Principals \ {handler[r].by} : ArtifactFor(p, j, "report") = "FORBIDDEN"
      /\ job[j].result = "completed" =>
           ArtifactFor(handler[r].by, j, "recoveredCode") = "OK"

(***************************************************************************)
(* The answers of the read, list and cancel handlers stay true after they  *)
(* were given, though each speaks of a copy made before its await.         *)
(***************************************************************************)
AnswersStayTrue == TerminalStatusStays /\ CancelledIsOver /\ ListedCanBeDownloaded

(***************************************************************************)
(* The source is kept for no longer than the first run: of a job that ran, *)
(* ended or was cancelled the store has none, however the run went.        *)
(***************************************************************************)
SourceIsPurged ==
  \A j \in JobIds :
    /\ job[j] # None
    /\ job[j].attempts > 0 \/ job[j].state # "QUEUED"
    => "sourceCode" \notin files[j]

JobsIn(state) == {j \in JobIds : job[j] # None /\ job[j].state = state}

RunsOf(jobs) == UNION {{<<j, n>> : n \in 1 .. job[j].attempts} : j \in jobs}

(***************************************************************************)
(* The counters agree with the queue: submissions, completions and         *)
(* cancellations count jobs, failures and timeouts count runs, so that     *)
(* every run is counted once, retries and the runs that threw included.    *)
(***************************************************************************)
CountersAreTrue ==
  LET jobs == {j \in JobIds : job[j] # None} IN
  /\ counters["submitted"] = Cardinality(jobs)
  /\ counters["completed"] = Cardinality(JobsIn("COMPLETED"))
  /\ counters["cancelled"] = Cardinality(JobsIn("CANCELLED"))
  /\ counters["admissions"] = counters["completed"]
  /\ counters["completed"] + counters["failed"] + counters["timed_out"] =
       Cardinality(RunsOf(jobs))

BooksAreTrue == SourceIsPurged /\ CountersAreTrue

=============================================================================
