\* Two newcomers share one helper, and the bot is restarted once.  With two
\* rooms each newcomer has one, or one has two, or returns to a second.
\* The setup: two people and a bot, a channel and the rules, two runs, and two
\* moves of people.  The command /1: two presses of one user, whose status
\* changes twice.  The package: two interactions of two users about two jobs,
\* a redirect in each fetch.
SPECIFICATION MCSpec
CONSTANTS
  Members = {m1, m2}
  helperCount = 1
  maxRooms = 2
  maxRestarts = 1
  None = None
  People = {"p1", "p2"}
  Bots = {"b"}
  Channels = {"main", "rules"}
  Found <- MCFound
  maxRuns = 2
  maxMoves = 2
  Supporters = {"s"}
  Presses = {1, 2}
  localRecovery = TRUE
  maxChanges = 2
  Users = {"u1", "u2"}
  JobIds = {"j1", "j2"}
  maxHops = 1
SYMMETRY Interchangeable
INVARIANTS
  QueueIsServed
  NotesAreTrue
  SetupIsTrue
  CommandsAreTrue
  RepliesAreTrue
PROPERTIES
  AccessIsKept
CHECK_DEADLOCK FALSE
