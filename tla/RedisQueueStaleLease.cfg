\* One job whose lease key runs out while its consumer is alive.
SPECIFICATION FairSpec
CONSTANTS
  JobIds = {j1}
  Keys = {k1}
  Producers = {p1}
  Consumers = {c1}
  maxQueueDepth = 1
  maxRetries = 2
  Faults = {"expiry"}
  None = None
PROPERTIES
  StaleLeaseIsRecovered
CHECK_DEADLOCK FALSE
