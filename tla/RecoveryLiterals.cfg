\* A lifted program of other values than those of the repository's fixture.
SPECIFICATION Spec
CONSTANTS
  Evidence <- MCEvidence
  Profiles <- MCProfiles
  maxStates = 1
  baselineStates = 2
  None = None
INVARIANTS
  ReplacementSaysTheSame
CHECK_DEADLOCK FALSE
