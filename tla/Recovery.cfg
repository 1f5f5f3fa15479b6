\* Every entry, every refusal and every stage; two dispatcher states tell a
\* dispatcher that lost some of its states from one that lost all or none.
\* Dispatchers of four states are read, of which functions of up to three are
\* rebuilt; runs are compared over four blocks.  Programs compute numbers up
\* to 300 at most and are followed for three rounds of a loop and nine calls.
SPECIFICATION CoreSpec
CONSTANTS
  Evidence <- MCEvidence
  Profiles <- MCProfiles
  maxStates = 2
  baselineStates = 2
  States = {1, 2, 3, 4}
  maxRebuilt = 3
  maxSteps = 4
  maxNumber = 300
  External = {"f", "print", "tostring", "setfenv", "getfenv"}
  maxRounds = 3
  maxCalls = 9
  maxPasses = 5
  Sources <- MCSources
  Readings <- MCReading
  accessorName = "J"
  stringTable <- MCStrings
  None = None
INVARIANTS
  ReplacementIsProven
  AnswerIsTrue
  AnalysesAreExact
  PartsAreKept
  TextIsTheTree
  ClosedIsClosed
PROPERTIES
  PassesKeepMeaning
CHECK_DEADLOCK FALSE
