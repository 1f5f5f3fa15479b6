--------------------------------- MODULE Bot ---------------------------------
(***************************************************************************)
(* What runs beside the community service on the side of Discord: the      *)
(* voice rooms of newcomers (VoiceOnboarding), the script that prepares    *)
(* the guild for them (GuildSetup), the command /1 (RecoverCommand) and    *)
(* the gateway package with its commands (SlashCommands).  The script is a *)
(* process of its own; the others share a client and none of its state.    *)
(***************************************************************************)
EXTENDS VoiceOnboarding

CONSTANTS
  People, Bots, Channels, Found, maxRuns, maxMoves,
  Supporters, Presses, localRecovery, maxChanges,
  Users, JobIds, maxHops

VARIABLES
  \* of GuildSetup; people, haveRole and setups are its inGuild, verified and runs
  there, panels, people, haveRole, hidden, own, unlocked, welcome, shut, at, piece,
  members, known, visits, channel, guests, gated, saved, setups, moves, unread, late,
  \* of RecoverCommand; pressed is its press
  status, role, updates, news, changes, cached, calls, cooldown, pressed, child,
  unsure, last,
  \* of SlashCommands; interaction is its press
  interaction, fetch, hops, request, jobOwner, state, made, told

Setup == INSTANCE GuildSetup WITH
  inGuild <- people, verified <- haveRole, runs <- setups

Recover == INSTANCE RecoverCommand WITH Users <- Supporters, press <- pressed

Slash == INSTANCE SlashCommands WITH press <- interaction, owner <- jobOwner

ASSUME SetupAssumption == Setup!Assumptions

ASSUME RecoverAssumption == Recover!Assumptions

ASSUME SlashAssumption == Slash!Assumptions

\* See GuildSetup: no step of the setup takes a channel away from a member or a bot
\* that sees it, though it breaks off and is run again while people come and go.
AccessIsKept == Setup!AccessIsKept

\* See GuildSetup: what was shut can be opened by the role and edited by the bot, and
\* the ids are saved only when all is there and every other channel is shut.
SetupIsTrue == Setup!SetupIsTrue

\* See RecoverCommand: the role follows the status, a recovery is paid for with a wait,
\* and one that was limited says so.
CommandsAreTrue == Recover!CommandsAreTrue

\* See SlashCommands: a fetch settles once, a press makes one job at most, and what a
\* user was told of a job stays true.
RepliesAreTrue == Slash!RepliesAreTrue

=============================================================================
