\* One submission whose run fails.
SPECIFICATION DispatchSpec
CONSTANTS
  JobIds = {j1}
  Keys = {}
  Producers = {p1}
  Consumers = {}
  Daemons = {d1}
  Outcomes = {"completed", "failed"}
  Expiring = FALSE
  maxQueueDepth = 2
  maxRetries = 2
  Faults = {}
  None = None
INVARIANTS
  CompletedIsSuccess
CHECK_DEADLOCK FALSE
