\* Tickets: two members, two interactions under way together (two presses of
\* one member, two people closing one ticket), a restart at any moment.
\* Invites: two of them, one for a single use, and three joins of three
\* members, two at a time.  Items: two, and presses of a member and of one of
\* the staff.  Rewards: three days; three numbers, the second one rewarded.
SPECIFICATION MCSpec
CONSTANTS
  Members = {"m1", "m2"}
  Handlers = {1, 2}
  maxChannels = 2
  maxRestarts = 1
  None = None
  Joiners = {"m1", "m2", "m3"}
  Codes = {1, 2}
  InviterOf <- MCInviterOf
  SingleUse = {2}
  Fresh = {"m3"}
  Milestones = {1}
  Joins = {1, 2}
  maxJoins = 3
  Staff = {"m2"}
  Kinds = {"application", "leave", "drop"}
  maxItems = 2
  maxRewards = 1
  rewardedCount = 2
  maxCount = 3
  maxDays = 3
  maxStarts = 1
INVARIANTS
  OpenTicketsAreServed
  TranscriptIsOwn
  InvitesAreTrue
  DealingsAreFair
PROPERTIES
  ClosedChannelGoes
CHECK_DEADLOCK FALSE
