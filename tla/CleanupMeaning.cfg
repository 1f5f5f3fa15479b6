\* What a program that sets a local in a block does before the passes and as it
\* is put out.
SPECIFICATION CleanupSpec
CONSTANTS
  maxNumber = 300
  External = {"f", "print", "tostring", "setfenv", "getfenv"}
  maxRounds = 3
  maxCalls = 9
  maxPasses = 5
  Sources <- MCAssigning
INVARIANTS
  MeaningIsKept
CHECK_DEADLOCK FALSE
