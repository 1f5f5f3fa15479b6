\* The stage a caller of the product API asks for, and the one reported.
SPECIFICATION Spec
CONSTANTS
  Evidence <- MCEvidence
  Profiles <- MCProfiles
  maxStates = 1
  baselineStates = 2
  None = None
INVARIANTS
  RequestedStageIsRecorded
CHECK_DEADLOCK FALSE
