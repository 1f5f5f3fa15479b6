\* Two jobs and two consumers; any process may die between two commands and
\* any lease may run out.  Or two submissions of two processes and two
\* daemons, with crashes and the end of retention at any moment.  Or three
\* calls, two of them waiting together, with replies cut anywhere, over
\* connections lost with an error or without one.  The system stops when
\* every id is used.
SPECIFICATION MCSpec
CONSTANTS
  JobIds = {j1, j2}
  Keys = {k1}
  Producers = {p1}
  Consumers = {c1, c2}
  maxQueueDepth = 1
  maxRetries = 2
  Faults = {"crash", "expiry"}
  None = None
  Processes = {p1, p2}
  Daemons = {d1, d2}
  Outcomes = {"completed", "failed", "throws"}
  Expiring = TRUE
  DispatchFaults = {"crash"}
  maxCalls = 3
  maxPending = 2
  Widths = {1}
  LinkFaults = {"error", "close"}
  Rejected = Rejected
INVARIANTS
  OneConsumerPerJob
  OneRunPerJob
  CompletedIsDownloadable
  ReplyIsOwn
PROPERTIES
  JobsFollowTheirLifecycle
  EveryJobSettles
  EveryJobIsAnswered
  EveryCallReturns
CHECK_DEADLOCK FALSE
