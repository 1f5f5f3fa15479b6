\* What a dispatched program does before and after stage L4; no requests.
SPECIFICATION CoreSpec
CONSTANTS
  Evidence = {}
  Profiles <- MCProfiles
  maxStates = 1
  baselineStates = 2
  States = {1, 2, 3, 4}
  maxRebuilt = 3
  maxSteps = 4
  maxNumber = 300
  External = {"f", "print", "tostring", "setfenv", "getfenv"}
  maxRounds = 3
  maxCalls = 9
  maxPasses = 5
  Sources <- MCSources
  Readings = {}
  accessorName = "J"
  stringTable <- MCStrings
  None = None
INVARIANTS
  NothingIsLost
CHECK_DEADLOCK FALSE
