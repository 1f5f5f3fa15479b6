-------------------------------- MODULE Front --------------------------------
(***************************************************************************)
(* The front of the product API: who a request is from (Accounts), what    *)
(* becomes of a submission (ApiServer), the limits that gateway and server *)
(* keep per principal (RateLimiter), and what the gateway makes of a job   *)
(* and the server tells of it (Gateway).  Each takes the outcome of the    *)
(* one before as a choice of its own, so they share the handlers, the      *)
(* principals and the jobs there may be, and nothing else.                 *)
(***************************************************************************)
EXTENDS Accounts

CONSTANTS
  Principals, Keys, Contents, JobIds, maxJobsPerDay, maxConcurrentJobs,
  Workers, windowMs, second, maxRequests, burstLimit, maxConcurrent,
  Outcomes, maxQueueDepth, maxRetries, retention, Restarts

VARIABLES
  handler, dailyJobCounts, idempotencyRegistry, job, overlapped,
  requestTimestamps, activeJobs, waiting, running, granted,
  artifactStore, owner, kept, list, files, age, counters, asked

Submissions == INSTANCE ApiServer WITH request <- handler

Limits == INSTANCE RateLimiter

Recoveries == INSTANCE Gateway WITH
  store <- artifactStore, job <- kept, waiting <- list, handler <- asked

ASSUME SubmissionsAssumption == Submissions!Assumptions

ASSUME LimitsAssumption == Limits!Assumptions

ASSUME RecoveriesAssumption == Recoveries!Assumptions

submissionVars == <<handler, dailyJobCounts, idempotencyRegistry, job, overlapped>>

limitVars == <<requestTimestamps, activeJobs, waiting, running, granted>>

gatewayVars == <<artifactStore, owner, kept, list, files, age, counters, asked>>

\* See ApiServer: a replayed key answers with the key's own job and content,
\* and one key makes one job for a principal whose requests do not overlap;
KeysNameJobs == Submissions!KeysNameJobs

\* the daily quota holds for such a principal, and overlapping requests never
\* make the count exceed what was submitted.
UsageIsFair == Submissions!UsageIsFair

\* See RateLimiter: no window and no second grants more than its limit, who
\* waits as long as a refusal says is allowed, and a principal has a slot in
\* use for each of its jobs that run.
LimitsHold == Limits!LimitsHold

\* See Gateway: what a handler answered stays true of the job it looked up;
AnswersStayTrue == Recoveries!AnswersStayTrue

\* no source outlives the run it was for, and the counters count every run.
BooksAreTrue == Recoveries!BooksAreTrue

==============================================================================
