--------------------------- MODULE VoiceOnboarding ---------------------------
(***************************************************************************)
(* VoiceService (apps/discord-bot/src/voice-service.js) with a pool of     *)
(* helper bots: every newcomer has a private voice room; entering it puts  *)
(* them in a queue, a helper that is free plays the introduction to them,  *)
(* and whoever hears it is given the verified role and the room is         *)
(* removed.  Handlers run to their next await; Discord's events and the    *)
(* rounds of reconcilePrivateChannels come in between.                     *)
(*                                                                         *)
(* Rooms are numbered in the order Discord creates them; 0 is no room.     *)
(* The radio, and the main bot's own onboarding queue, which is used only  *)
(* without helpers, are not part of this module.                           *)
(***************************************************************************)
EXTENDS Naturals, Sequences, FiniteSets

CONSTANTS
  Members,
  helperCount,   \* helpers that can log in
  maxRooms,      \* bound: how many rooms are ever created
  maxRestarts,   \* bound: how often the bot is started again
  None

ASSUME BoundsAssumption ==
  /\ helperCount \in Nat \ {0}
  /\ maxRooms \in Nat
  /\ maxRestarts \in Nat

ASSUME MembersAssumption == None \notin Members

Helpers == 1..helperCount
Rooms == 1..maxRooms
Callers == {"memberAdd", "reconcile"}   \* of createPrivateChannel

VARIABLES
  \* Discord's, which a restart of the bot leaves alone:
  inGuild, verified,   \* what it knows of each member
  voice,               \* the room each member is in
  created,             \* how many rooms there have been
  owner,               \* the member each of them was made for
  open,                \* the rooms not yet deleted
  \* the bot's:
  privateChannels,     \* member -> the room noted for them
  creating,            \* createPrivateChannel calls that await their room
  rounds,              \* of reconcilePrivateChannels
  unchecked, unvisited, \* what the round has yet to look at: rooms, members
  activeMembers,
  pendingOnboarding,
  run,                 \* what each helper is doing
  restarts,
  \* history:
  early,      \* the queue was not looked at when the helpers logged in
  doubled,    \* members for whom the bot made a room beside one they had
  crossed     \* members who left while the bot was at work on a room of theirs
discordVars == <<inGuild, verified, voice, created, owner, open>>
roundVars == <<rounds, unchecked, unvisited>>
queueVars == <<activeMembers, pendingOnboarding, run, early>>
history == <<restarts, doubled, crossed>>
vars == <<discordVars, privateChannels, creating, roundVars, queueVars, history>>

Job == [member : Members, room : Rooms]

Call == [by : Callers, member : Members]

\* A helper is not busy when it is "idle"; "absent" ones have yet to log in.
\* The members of activePlayers are those of runs at "start" and beyond.
Run == [at : {"absent", "idle", "fetch", "settle", "start", "playing",
              "postroll", "unlock", "disconnect", "delete", "cleanup"},
        member : Members \cup {None}, room : Rooms \cup {0},
        enough : BOOLEAN,    \* ONBOARDING_MIN_PLAYBACK_MS have been played
        stopped : BOOLEAN,   \* player.stop was called from outside
        away : BOOLEAN]      \* history: the member left before enough was played

Free == [at |-> "idle", member |-> None, room |-> 0,
         enough |-> FALSE, stopped |-> FALSE, away |-> FALSE]

Absent == [Free EXCEPT !.at = "absent"]

\* How far start() is: helpers log in, the first round is due, is under way; the
\* timer starts rounds; the first round failed, and start() with it.
Rounds == {"login", "due", "first", "timer", "none"}

(***************************************************************************)
(* The type invariant: what Discord and VoiceService keep of the members,  *)
(* their rooms and the helpers; nobody waits in the queue twice.           *)
(***************************************************************************)
TypeOK ==
  /\ inGuild \in [Members -> BOOLEAN]
  /\ verified \in [Members -> BOOLEAN]
  /\ voice \in [Members -> 0..maxRooms]
  /\ created \in 0..maxRooms
  /\ owner \in [1..created -> Members]
  /\ open \subseteq 1..created
  /\ privateChannels \in [Members -> 0..created]
  /\ creating \subseteq Call
  /\ rounds \in Rounds
  /\ unchecked \subseteq 1..created
  /\ unvisited \subseteq Members
  /\ activeMembers \subseteq Members
  /\ pendingOnboarding \in Seq(Job)
  /\ Len(pendingOnboarding) <= Cardinality(Members)
  /\ run \in [Helpers -> Run]
  /\ restarts \in 0..maxRestarts
  /\ early \in BOOLEAN
  /\ doubled \subseteq Members
  /\ crossed \subseteq Members

Init ==
  /\ inGuild = [m \in Members |-> FALSE]
  /\ verified = [m \in Members |-> FALSE]
  /\ voice = [m \in Members |-> 0]
  /\ created = 0
  /\ owner = <<>>
  /\ open = {}
  /\ restarts = 0
  /\ privateChannels = [m \in Members |-> 0]
  /\ creating = {}
  /\ rounds = "login"
  /\ unchecked = {}
  /\ unvisited = {}
  /\ activeMembers = {}
  /\ pendingOnboarding = <<>>
  /\ run = [h \in Helpers |-> Absent]
  /\ early = FALSE
  /\ doubled = {}
  /\ crossed = {}

shouldOnboard(m) == inGuild[m] /\ ~verified[m]

-----------------------------------------------------------------------------
(***************************************************************************)
(* The queue.  pumpHelperQueue gives the first free helper the first job,  *)
(* and so on until either runs out.                                        *)
(***************************************************************************)
PumpForgotten(jobs, runs) ==   \* defect: nothing is handed out
  [jobs |-> jobs, runs |-> runs]

pumpHelperQueue(jobs, runs) ==
  LET free == {h \in Helpers : runs[h].at = "idle"}
      Place(h) == Cardinality({g \in free : g <= h})
      served == {h \in free : Place(h) <= Len(jobs)}
  IN
  [jobs |-> SubSeq(jobs, Cardinality(served) + 1, Len(jobs)),
   runs |-> [h \in Helpers |->
               IF h \in served
               THEN [Free EXCEPT !.at = "fetch", !.member = jobs[Place(h)].member,
                                 !.room = jobs[Place(h)].room]
               ELSE runs[h]]]

Pump(jobs, runs) ==
  LET after == pumpHelperQueue(jobs, runs) IN
  /\ pendingOnboarding' = after.jobs
  /\ run' = after.runs
  /\ early' = FALSE

(***************************************************************************)
(* startHelperWorkers: the helpers join the pool, and that is all.         *)
(***************************************************************************)
startHelperWorkers ==
  /\ rounds = "login"
  /\ rounds' = "due"
  /\ run' = [h \in Helpers |-> Free]
  /\ early' = (pendingOnboarding # <<>>)
  /\ UNCHANGED <<discordVars, privateChannels, creating, unchecked, unvisited,
                 activeMembers, pendingOnboarding, history>>

(***************************************************************************)
(* activePlayers.get(m)?.stop: once the player is idle of itself it makes  *)
(* no difference.                                                          *)
(***************************************************************************)
NotStopped(h) == run[h]   \* defect: the player plays on

Stopped(h) ==
  IF run[h].at \in {"start", "playing"} THEN [run[h] EXCEPT !.stopped = TRUE]
                                        ELSE run[h]

Left(h, r) ==
  IF run[h].at \in {"start", "playing"} /\ ~run[h].enough
  THEN [r EXCEPT !.away = TRUE] ELSE r

(***************************************************************************)
(* handleVoiceStateUpdate, for m who moves from one room to another.       *)
(***************************************************************************)
MayEnter(m) == m \notin activeMembers

handleVoiceStateUpdate(m, from, to) ==
  LET expected == privateChannels[m]
      leaves == expected # 0 /\ from = expected
      enters == expected # 0 /\ to = expected
  IN
  \/ /\ enters
     /\ MayEnter(m)
     /\ activeMembers' = activeMembers \cup {m}
     /\ Pump(Append(pendingOnboarding, [member |-> m, room |-> to]), run)
  \/ /\ ~(enters /\ MayEnter(m))
     /\ run' = [h \in Helpers |->
                  IF run[h].member = m
                  THEN Left(h, IF leaves THEN Stopped(h) ELSE run[h])
                  ELSE run[h]]
     /\ UNCHANGED <<activeMembers, pendingOnboarding, early>>

Move(m, to) ==
  /\ inGuild[m]
  /\ to # voice[m]
  /\ to = 0 \/ (to \in open /\ owner[to] = m)
  /\ voice' = [voice EXCEPT ![m] = to]
  /\ handleVoiceStateUpdate(m, voice[m], to)
  /\ UNCHANGED <<inGuild, verified, created, owner, open, privateChannels,
                 creating, roundVars, history>>

-----------------------------------------------------------------------------
(***************************************************************************)
(* createPrivateChannel, to its await and from it.  Nothing keeps a second *)
(* caller from asking for a second room meanwhile.  A reconcile round goes *)
(* on when its call is over; if the call fails the round does too.         *)
(***************************************************************************)
WantsRoom(m) == shouldOnboard(m) /\ privateChannels[m] = 0

ChannelCreated(call) ==
  /\ call \in creating
  /\ created < maxRooms
  /\ created' = created + 1
  /\ owner' = Append(owner, call.member)
  /\ open' = open \cup {created + 1}
  /\ privateChannels' = [privateChannels EXCEPT ![call.member] = created + 1]
  /\ creating' = creating \ {call}
  /\ doubled' = IF privateChannels[call.member] # 0 \/ \E r \in open : owner[r] = call.member
                 THEN doubled \cup {call.member} ELSE doubled
  /\ UNCHANGED <<inGuild, verified, voice, roundVars, queueVars, restarts, crossed>>

CreationFails(call) ==
  /\ call \in creating
  /\ creating' = creating \ {call}
  /\ IF call.by = "reconcile"
     THEN /\ unvisited' = {}
          /\ rounds' = IF rounds = "first" THEN "none" ELSE rounds
     ELSE UNCHANGED <<rounds, unvisited>>
  /\ UNCHANGED <<discordVars, privateChannels, unchecked, queueVars, history>>

handleMemberAdd(m) ==
  LET call == [by |-> "memberAdd", member |-> m] IN
  /\ ~inGuild[m]
  /\ call \notin creating
  /\ inGuild' = [inGuild EXCEPT ![m] = TRUE]
  /\ creating' = IF privateChannels[m] = 0 THEN creating \cup {call} ELSE creating
  /\ UNCHANGED <<verified, voice, created, owner, open, privateChannels,
                 roundVars, queueVars, history>>

(***************************************************************************)
(* handleMemberRemove: the note goes, and the room.  Whether the member's  *)
(* own voice event is handled before it, which stops the player, or after  *)
(* it, when no room is expected any more, is Discord's choice.             *)
(***************************************************************************)
NoteKept(m) == privateChannels   \* defect: the note of who left stays

Forgotten(m) == [privateChannels EXCEPT ![m] = 0]

handleMemberRemove(m) ==
  /\ inGuild[m]
  /\ inGuild' = [inGuild EXCEPT ![m] = FALSE]
  /\ verified' = [verified EXCEPT ![m] = FALSE]
  /\ voice' = [voice EXCEPT ![m] = 0]
  /\ open' = open \ {privateChannels[m]}
  /\ privateChannels' = Forgotten(m)
  /\ crossed' = IF \/ \E call \in creating : call.member = m
                   \/ \E r \in unchecked : owner[r] = m
                THEN crossed \cup {m} ELSE crossed
  /\ \E heard \in {TRUE, FALSE} :
       run' = [h \in Helpers |->
                 IF run[h].member = m /\ voice[m] # 0
                 THEN Left(h, IF heard THEN Stopped(h) ELSE run[h])
                 ELSE run[h]]
  /\ UNCHANGED <<created, owner, creating, roundVars, activeMembers,
                 pendingOnboarding, early, restarts, doubled>>

(***************************************************************************)
(* reconcilePrivateChannels: at the start and every ten minutes.  The      *)
(* rooms there are when the round starts are looked at in turn: one whose  *)
(* member needs it is noted, one nobody needs is deleted, with whoever is  *)
(* in it, and the round waits for that.  Then the members are visited, and *)
(* the round waits for each room it asks for.                              *)
(***************************************************************************)
Useless(r) == ~shouldOnboard(owner[r])

CheckRooms(todo) ==
  LET doomed == {r \in todo : Useless(r)}
      next == CHOOSE r \in doomed : \A q \in doomed : r <= q
      seen == IF doomed = {} THEN todo ELSE {r \in todo : r < next}
      removed == IF doomed = {} THEN {} ELSE {next}
      of(m) == {r \in seen : owner[r] = m}
  IN
  /\ privateChannels' =
       [m \in Members |-> IF of(m) = {} THEN privateChannels[m]
                          ELSE CHOOSE r \in of(m) : \A q \in of(m) : q <= r]
  /\ unchecked' = todo \ (seen \cup removed)
  /\ unvisited' = IF unchecked' = {} THEN Members ELSE {}
  /\ \E gone \in {removed, {}} :   \* the deletion may fail
       /\ open' = open \ gone
       /\ voice' = [m \in Members |-> IF voice[m] \in gone THEN 0 ELSE voice[m]]
  /\ UNCHANGED <<inGuild, verified, created, owner, creating, queueVars, history>>

ReconcileCalls == {c \in creating : c.by = "reconcile"}

Idle == unchecked = {} /\ unvisited = {} /\ ReconcileCalls = {}

RoundStarts ==
  /\ rounds \in {"due", "timer"}
  /\ Idle
  /\ CheckRooms(open)
  /\ rounds' = IF rounds = "due" THEN "first" ELSE rounds

RoundGoesOn == unchecked # {} /\ CheckRooms(unchecked) /\ UNCHANGED rounds

\* start() goes on to set the timer.
FirstRoundEnds ==
  /\ rounds = "first"
  /\ Idle
  /\ rounds' = "timer"
  /\ UNCHANGED <<discordVars, privateChannels, creating, unchecked, unvisited,
                 queueVars, history>>

VisitMember(m) ==
  /\ m \in unvisited
  /\ ReconcileCalls = {}
  /\ unvisited' = unvisited \ {m}
  /\ creating' = IF WantsRoom(m)
                 THEN creating \cup {[by |-> "reconcile", member |-> m]}
                 ELSE creating
  /\ UNCHANGED <<discordVars, privateChannels, rounds, unchecked, queueVars,
                 history>>

-----------------------------------------------------------------------------
(***************************************************************************)
(* runOnboarding of helper h, await by await.  A failure, and whatever the *)
(* code throws, goes through the finally block, "cleanup".                 *)
(***************************************************************************)
InRoom(h) == voice[run[h].member] = run[h].room

\* What the player was asked, and the room, no longer matter in the end.
Now(r, to) ==
  IF to = "cleanup" THEN [Free EXCEPT !.at = to, !.member = r.member]
  ELSE [r EXCEPT !.at = to, !.stopped = @ /\ to = "playing"]

Goes(h, from, to) ==
  /\ run[h].at = from
  /\ run' = [run EXCEPT ![h] = Now(run[h], to)]
  /\ UNCHANGED <<activeMembers, pendingOnboarding, early>>

(***************************************************************************)
(* The promise of runOnboarding has settled: .finally of pumpHelperQueue.  *)
(***************************************************************************)
Settles(h) ==
  /\ activeMembers' = activeMembers \ {run[h].member}
  /\ Pump(pendingOnboarding, [run EXCEPT ![h] = Free])

Fetch(h) ==
  /\ run[h].at = "fetch"
  /\ \/ shouldOnboard(run[h].member) /\ run[h].room \in open /\ InRoom(h)
        /\ Goes(h, "fetch", "settle")
     \/ Settles(h)   \* not so, or Discord did not answer

SettleDelay(h) ==
  \/ InRoom(h) /\ Goes(h, "settle", "start")
  \/ Goes(h, "settle", "cleanup")   \* not so, or no voice connection

PlaybackStarts(h) ==
  \/ ~run[h].stopped /\ Goes(h, "start", "playing")
  \/ Goes(h, "start", "cleanup")

PlayedEnough(h) ==
  /\ run[h].at = "playing"
  /\ ~run[h].stopped
  /\ run' = [run EXCEPT ![h].enough = TRUE]
  /\ UNCHANGED <<activeMembers, pendingOnboarding, early>>

\* Idle: at the end of the audio, when its stream breaks or after a stop.
PlaybackEnds(h) ==
  \/ run[h].enough /\ Goes(h, "playing", "postroll")
  \/ Goes(h, "playing", "cleanup")   \* too early, an error, or ten minutes

PostRoll(h) ==
  IF inGuild[run[h].member] /\ InRoom(h) THEN Goes(h, "postroll", "unlock")
                                         ELSE Goes(h, "postroll", "cleanup")

RunSteps(h) ==
  /\ run[h].at \in {"fetch", "settle", "start", "playing", "postroll"}
  /\ Fetch(h) \/ SettleDelay(h) \/ PlaybackStarts(h) \/ PlaybackEnds(h) \/ PostRoll(h)
  /\ UNCHANGED <<discordVars, privateChannels, creating, roundVars, history>>

Plays(h) ==
  /\ PlayedEnough(h)
  /\ UNCHANGED <<discordVars, privateChannels, creating, roundVars, history>>

AddRole(h) ==
  /\ run[h].at = "unlock"
  /\ \/ /\ inGuild[run[h].member]
        /\ verified' = [verified EXCEPT ![run[h].member] = TRUE]
        /\ Goes(h, "unlock", "disconnect")
     \/ Goes(h, "unlock", "cleanup") /\ UNCHANGED verified
  /\ UNCHANGED <<inGuild, voice, created, owner, open, privateChannels, creating,
                 roundVars, history>>

\* The event this causes finds a player that is idle, or nothing expected.
Disconnect(h) ==
  /\ Goes(h, "disconnect", "delete")
  /\ voice' = [voice EXCEPT ![run[h].member] = 0]
  /\ UNCHANGED <<inGuild, verified, created, owner, open, privateChannels,
                 creating, roundVars, history>>

DeleteRoom(h) ==
  LET m == run[h].member
      room == run[h].room
  IN
  /\ Goes(h, "delete", "cleanup")
  /\ \/ /\ room \in open
        /\ open' = open \ {room}
        /\ voice' = [n \in Members |-> IF voice[n] = room THEN 0 ELSE voice[n]]
        /\ privateChannels' = Forgotten(m)
     \/ UNCHANGED <<open, voice, privateChannels>>   \* Discord refuses
  /\ UNCHANGED <<inGuild, verified, created, owner, creating, roundVars, history>>

CleanUp(h) ==
  /\ run[h].at = "cleanup"
  /\ Settles(h)
  /\ UNCHANGED <<discordVars, privateChannels, creating, roundVars, history>>

Step(h) ==
  RunSteps(h) \/ AddRole(h) \/ Disconnect(h) \/ DeleteRoom(h) \/ CleanUp(h)

(***************************************************************************)
(* The bot is started again: it forgets everything, Discord does not.      *)
(***************************************************************************)
Restart ==
  /\ restarts < maxRestarts
  /\ restarts' = restarts + 1
  /\ privateChannels' = [m \in Members |-> 0]
  /\ creating' = {}
  /\ rounds' = "login"
  /\ unchecked' = {}
  /\ unvisited' = {}
  /\ activeMembers' = {}
  /\ pendingOnboarding' = <<>>
  /\ run' = [h \in Helpers |-> Absent]
  /\ early' = FALSE
  /\ crossed' = {}
  /\ UNCHANGED <<discordVars, doubled>>

-----------------------------------------------------------------------------
Reconcile ==
  \/ RoundStarts \/ RoundGoesOn \/ FirstRoundEnds
  \/ \E m \in Members : VisitMember(m)

Creation(call) == ChannelCreated(call) \/ CreationFails(call)

Next ==
  \/ \E m \in Members :
       \/ \E to \in 0..maxRooms : Move(m, to)
       \/ handleMemberAdd(m) \/ handleMemberRemove(m)
  \/ \E call \in Call : Creation(call)
  \/ startHelperWorkers \/ Reconcile
  \/ \E h \in Helpers : Plays(h) \/ Step(h)
  \/ Restart

Spec == Init /\ [][Next]_vars

-----------------------------------------------------------------------------
Waiting(m) == {i \in DOMAIN pendingOnboarding : pendingOnboarding[i].member = m}

Served(m) == {h \in Helpers : run[h].member = m}

(***************************************************************************)
(* A member is active exactly while one job of theirs waits or is run, so  *)
(* nobody is played to twice at once, and nobody is left marked as active  *)
(* with nothing to end it (304, 330-337).                                  *)
(***************************************************************************)
ActiveIffServed ==
  \A m \in Members :
    Cardinality(Waiting(m)) + Cardinality(Served(m)) =
      IF m \in activeMembers THEN 1 ELSE 0

(***************************************************************************)
(* No newcomer waits while a helper is free (pumpHelperQueue), but for     *)
(* those who entered before the helpers had logged in: nothing looks at    *)
(* the queue then until the next newcomer enters a room.                   *)
(***************************************************************************)
NobodyWaitsForAFreeHelper ==
  pendingOnboarding = <<>> \/ early \/ \A h \in Helpers : run[h].at # "idle"

(***************************************************************************)
(* So the queue, the marks and the helpers' runs agree, in whatever order  *)
(* members come and go and runs end.                                       *)
(***************************************************************************)
QueueIsServed == ActiveIffServed /\ NobodyWaitsForAFreeHelper

(***************************************************************************)
(* Whoever is about to be unlocked has listened for the minimum time       *)
(* without leaving the room (301, 390, 397), unless another room had been  *)
(* noted for them meanwhile, a second one or, when they had left and come  *)
(* back during a round, the one they had before: leaving the room is then  *)
(* not noticed.                                                            *)
(***************************************************************************)
ListenedBeforeUnlocked ==
  \A h \in Helpers :
    run[h].at = "unlock" =>
      run[h].enough /\ (run[h].away => run[h].member \in doubled \cup crossed)

(***************************************************************************)
(* A newcomer for whom a room is noted has that room: createPrivateChannel *)
(* makes no other one while there is a note (240).  It fails for those who *)
(* left while the bot was making or checking a room of theirs, and those   *)
(* for whom it made two.                                                   *)
(***************************************************************************)
NotedRoomIsOpen ==
  \A m \in Members \ (crossed \cup doubled) :
    shouldOnboard(m) /\ privateChannels[m] # 0 => privateChannels[m] \in open

(***************************************************************************)
(* What is noted of a newcomer is so, the listening and the room.          *)
(***************************************************************************)
NotesAreTrue == ListenedBeforeUnlocked /\ NotedRoomIsOpen

==============================================================================
