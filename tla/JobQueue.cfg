\* Three jobs, two workers and room for one waiting and one running job: a
\* retry overfills the queue, a lease expires while its worker is alive, and a
\* job has to wait for another.
SPECIFICATION FairSpec
CONSTANTS
  JobIds = {j1, j2, j3}
  Keys = {k1}
  Workers = {w1, w2}
  Durations = {0, 1}
  maxQueueDepth = 1
  maxRunningJobs = 1
  maxRetries = 2
  None = None
INVARIANTS
  TypeOK
  ClaimsAreExact
  RetriesAreOrderly
  OneJobPerKey
PROPERTIES
  JobsFollowTheirLifecycle
  EveryJobSettles
