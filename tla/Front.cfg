\* One user who signs in, rotates the session, logs out and is spoken for by
\* the bot, two handlers under way together; three tokens let two rotations
\* of one session overlap, three instants let a session outlive its day.  Or
\* two submissions at a time of two principals.  Or a window of three ticks and
\* three requests, a second of two ticks and two requests.
\* Or two handlers about one job, or one beside two, of which each may run
\* twice, over each of the stores, with a restart in between.
SPECIFICATION MCSpec
CONSTANTS
  Subjects = {u1}
  Requests = {h1, h2}
  Processes = {p1, p2}
  Browsers = {b1}
  idleTtl = 1
  absoluteTtl = 1
  stateTtl = 1
  assertionTtl = 0
  maxTokens = 3
  maxStates = 1
  maxAssertions = 1
  maxTime = 2
  None = None
  Principals = {alice, bob}
  Keys = {key}
  Contents = {c1, c2}
  JobIds = {j1, j2, j3}
  maxJobsPerDay = 2
  maxConcurrentJobs = 2
  Workers = {w1, w2, w3}
  windowMs = 3
  second = 2
  maxRequests = 3
  burstLimit = 2
  maxConcurrent = 2
  Outcomes = {"completed", "empty", "report too large", "failed", "timed_out", "throws"}
  maxQueueDepth = 2
  maxRetries = 2
  retention = 0
  Restarts = TRUE
  OneRequest = {h1}
  OnePrincipal = {alice}
  OneJob = {j1}
  TwoJobs = {j1, j2}
SYMMETRY Symmetry
INVARIANTS
  OnePrincipalPerSubject
  SessionsEnd
  LoginsAreSingleUse
  KeysNameJobs
  UsageIsFair
  LimitsHold
  AnswersStayTrue
  BooksAreTrue
CHECK_DEADLOCK FALSE
