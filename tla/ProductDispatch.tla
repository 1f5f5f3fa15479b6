--------------------------- MODULE ProductDispatch ---------------------------
(***************************************************************************)
(* The deployed path of a recovery: an API process submits the job through *)
(* RecoveryGateway.submitJob to Redis, a worker daemon of another process  *)
(* (scripts/run-product-worker-daemon.js) takes it from the list and both  *)
(* share a FilesystemArtifactStore.  The daemon does not lease: it pops,   *)
(* runs and writes the job document back by itself.                        *)
(*                                                                         *)
(* The producers of RedisQueue are the API processes; it has no consumers  *)
(* here.                                                                   *)
(***************************************************************************)
EXTENDS RedisQueue

CONSTANTS
  Daemons,
  Outcomes,     \* how a run of the container may end
  Expiring      \* whether job directories reach the end of their retention

Assumptions ==
  /\ Outcomes \subseteq {"completed", "failed", "throws"}
  /\ None \notin {"completed", "failed", "throws"}
  /\ Expiring \in BOOLEAN

VARIABLES
  toInit,      \* the job an API process has queued and not yet stored files for
  files,       \* job -> which of "meta", "source", "code", "report" are there
  response,    \* job.result.status
  daemon       \* what each daemon is doing

dispatchVars == <<vars, toInit, files, response, daemon>>

Polling == [at |-> "idle", id |-> None, doc |-> None, status |-> None]

DispatchInit ==
  /\ Init
  /\ toInit = [p \in Producers |-> None]
  /\ files = [j \in JobIds |-> {}]
  /\ response = [j \in JobIds |-> None]
  /\ daemon = [d \in Daemons |-> Polling]

-----------------------------------------------------------------------------
(***************************************************************************)
(* submitJobSync over an asynchronous queue.  The API gives the queue no   *)
(* idempotency key, so the fresh job id is the key.  The files are stored  *)
(* when enqueue has resolved, after the job can be popped.                 *)
(***************************************************************************)
Submit(p) ==
  /\ toInit[p] = None
  /\ \E j \in JobIds : EnqueueLookup(p, j, j)
  /\ UNCHANGED <<toInit, files, response, daemon>>

Queue(p) ==
  /\ EnqueueDepth(p) \/ EnqueueSetJob(p) \/ EnqueuePush(p)
  /\ UNCHANGED <<toInit, files, response, daemon>>

Queued(p) ==
  /\ EnqueueSetIdemp(p)
  /\ toInit' = [toInit EXCEPT ![p] = proc[p].id]
  /\ UNCHANGED <<files, response, daemon>>

InitJobArtifacts(p) ==
  /\ toInit[p] # None
  /\ toInit' = [toInit EXCEPT ![p] = None]
  /\ files' = [files EXCEPT ![toInit[p]] = @ \cup {"meta", "source"}]
  /\ UNCHANGED <<vars, response, daemon>>

ApiCrash(p) ==
  /\ "crash" \in Faults
  /\ proc[p] # Idle \/ toInit[p] # None
  /\ proc' = [proc EXCEPT ![p] = Idle]
  /\ toInit' = [toInit EXCEPT ![p] = None]
  /\ abandoned' = abandoned \cup ({proc[p].id, toInit[p]} \ {None})
  /\ UNCHANGED <<redis, issued, files, response, daemon>>

-----------------------------------------------------------------------------
(***************************************************************************)
(* The daemon's loop.  It does not look at the state of the job it popped, *)
(* and counts no attempts.                                                 *)
(***************************************************************************)
apiVars == <<idemp, lease, issued, abandoned, proc, toInit>>

PopJob(d) ==
  /\ daemon[d].at = "idle"
  /\ waiting # <<>>
  /\ waiting' = Pop(waiting)
  /\ daemon' = [daemon EXCEPT ![d].at = "GET", ![d].id = Head(waiting)]
  /\ UNCHANGED <<job, apiVars, files, response>>

GetJob(d) ==
  LET doc == job[daemon[d].id] IN
  /\ daemon[d].at = "GET"
  /\ daemon' = [daemon EXCEPT
                  ![d] = IF doc = None
                         THEN Polling
                         ELSE [@ EXCEPT !.at = "SET running", !.doc = doc]]
  /\ UNCHANGED <<redis, issued, abandoned, proc, toInit, files, response>>

SetRunning(d) ==
  /\ daemon[d].at = "SET running"
  /\ job' = [job EXCEPT ![daemon[d].id] = [daemon[d].doc EXCEPT !.state = "RUNNING"]]
  /\ daemon' = [daemon EXCEPT ![d].at = "run"]
  /\ UNCHANGED <<waiting, apiVars, files, response>>

(***************************************************************************)
(* A response that is not completed has neither code nor admission and     *)
(* stores nothing.  When the runner or the store throws, the daemon logs   *)
(* it and polls again.                                                     *)
(***************************************************************************)
StoresOnlyReport(status) ==   \* defect: artifacts?.code is looked up instead
  IF status = "completed" THEN {"report"} ELSE {}

Stores(status) == IF status = "completed" THEN {"code", "report"} ELSE {}

Run(d, outcome) ==
  LET j == daemon[d].id IN
  /\ daemon[d].at = "run"
  /\ IF outcome = "throws"
     THEN /\ daemon' = [daemon EXCEPT ![d] = Polling]
          /\ abandoned' = abandoned \cup {j}
          /\ UNCHANGED files
     ELSE /\ daemon' = [daemon EXCEPT ![d].at = "SET completed", ![d].status = outcome]
          /\ files' = [files EXCEPT ![j] = (@ \cup Stores(outcome)) \ {"source"}]
          /\ UNCHANGED abandoned
  /\ UNCHANGED <<redis, issued, proc, toInit, response>>

\* defect: job.result is set after the document was written
AnsweredWithout(d) == response

Answered(d) == [response EXCEPT ![daemon[d].id] = daemon[d].status]

SetCompleted(d) ==
  LET j == daemon[d].id IN
  /\ daemon[d].at = "SET completed"
  /\ job' = [job EXCEPT ![j] = [daemon[d].doc EXCEPT !.state = "COMPLETED"]]
  /\ response' = Answered(d)
  /\ daemon' = [daemon EXCEPT ![d] = Polling]
  /\ UNCHANGED <<waiting, apiVars, files>>

DaemonCrash(d) ==
  /\ "crash" \in Faults
  /\ daemon[d] # Polling
  /\ daemon' = [daemon EXCEPT ![d] = Polling]
  /\ abandoned' = abandoned \cup {daemon[d].id}
  /\ UNCHANGED <<redis, issued, proc, toInit, files, response>>

(***************************************************************************)
(* getArtifact or cleanupExpired, which know a directory by its meta.json. *)
(***************************************************************************)
RemoveExpired(j) ==
  /\ Expiring
  /\ "meta" \in files[j]
  /\ files' = [files EXCEPT ![j] = {}]
  /\ UNCHANGED <<vars, toInit, response, daemon>>

-----------------------------------------------------------------------------
Api(p) == Queue(p) \/ Queued(p) \/ InitJobArtifacts(p)

Loop(d) ==
  \/ PopJob(d) \/ GetJob(d) \/ SetRunning(d) \/ SetCompleted(d)
  \/ \E outcome \in Outcomes : Run(d, outcome)

DispatchNext ==
  \/ \E p \in Producers : Submit(p) \/ Api(p) \/ ApiCrash(p)
  \/ \E d \in Daemons : Loop(d) \/ DaemonCrash(d)
  \/ \E j \in JobIds : RemoveExpired(j)

DispatchSpec == DispatchInit /\ [][DispatchNext]_dispatchVars

(***************************************************************************)
(* An API process finishes the submission it began; the daemon polls in a  *)
(* loop without end and a run of the container ends.                       *)
(***************************************************************************)
DispatchFairness ==
  /\ \A p \in Producers : WF_dispatchVars(Api(p))
  /\ \A d \in Daemons : WF_dispatchVars(Loop(d))

-----------------------------------------------------------------------------
(***************************************************************************)
(* The daemons never look at the state of a job, yet whatever crashes, one *)
(* job is never run twice: it is in the list once or with one daemon, and  *)
(* a job with an answer is in neither.                                     *)
(***************************************************************************)
OneRunPerJob ==
  /\ Distinct(waiting)
  /\ \A d \in Daemons :
       daemon[d].id # None =>
         /\ daemon[d].id \notin Entries(waiting)
         /\ response[daemon[d].id] = None
         /\ \A e \in Daemons \ {d} : daemon[e].id # daemon[d].id
  /\ \A j \in Entries(waiting) : response[j] = None

(***************************************************************************)
(* A job that Redis shows as completed with a recovery, and whose owner is *)
(* on record, has its code and its report: the files are there before the  *)
(* state is, and come and go together.                                     *)
(***************************************************************************)
CompletedIsDownloadable ==
  \A j \in JobIds :
    /\ response[j] = "completed"
    /\ "meta" \in files[j]
    => {"code", "report"} \subseteq files[j]

(***************************************************************************)
(* A fault costs the one job it hits: of the submissions that reached      *)
(* Redis none stays without an answer for ever, unless the API process or  *)
(* the daemon that had that very job died, or its run threw.               *)
(***************************************************************************)
EveryJobIsAnswered ==
  []<>(\A j \in JobIds : job[j] # None => response[j] # None \/ j \in abandoned)

(***************************************************************************)
(* docs/job-lifecycle.md: COMPLETED is a job that finished successfully.   *)
(***************************************************************************)
CompletedIsSuccess ==
  \A j \in JobIds : response[j] = "failed" => job[j].state # "COMPLETED"

==============================================================================
