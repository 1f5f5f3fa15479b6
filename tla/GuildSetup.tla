----------------------------- MODULE GuildSetup ------------------------------
(***************************************************************************)
(* The script that prepares a guild for the bot (apps/discord-bot/src/     *)
(* setup-guild.js): it finds or makes roles, categories and channels,      *)
(* gives the members there are the verified role, and closes the members'  *)
(* channels to everyone else.  Every call of Discord may fail, which ends  *)
(* the run; it is then started again by hand.  Members come and go all the *)
(* while, and a bot with the saved ids verifies newcomers.                 *)
(*                                                                         *)
(* Administrators see everything and are left out.  Channels are those of  *)
(* the public categories, the categories themselves, and the rules; the    *)
(* command's own channel, "deobfuscate", is taken not to be one of them.   *)
(***************************************************************************)
EXTENDS Naturals, Sequences

CONSTANTS
  People,     \* who may be a member of the guild,
  Bots,       \* other bots that may be,
  Channels,   \* channels for members
  Found,      \* what there may be of the script's things before its first run
  maxRuns,    \* bound: how often the script is run
  maxMoves,   \* bound: how often somebody joins or leaves
  None

Everybody == People \cup Bots

\* The script's things in its order; the panel is a message, the others are
\* roles and channels.
Script == <<"supporter", "deobfuscate", "verified", "staff",
            "community", "hub", "giveaways", "counting", "tickets",
            "operations", "applications", "leaves", "logs", "panel",
            "startHere", "afk">>

Things == {Script[i] : i \in DOMAIN Script} \ {"panel"}

Assumptions ==
  /\ People \cap Bots = {}
  /\ Found \subseteq SUBSET Things
  /\ Channels \cap Things = {}
  /\ {maxRuns, maxMoves} \subseteq Nat

VARIABLES
  \* Discord's:
  there,      \* the things that there are
  panels,     \* panels in the hub
  inGuild, verified,
  hidden,     \* channels whose overwrites keep the bot out
  own,        \* channels in which the bot has an overwrite of its own
  unlocked,   \* channels with one for the role that opens them
  welcome,    \* channel -> bots with one
  shut,       \* channels that everyone else is denied
  \* the run's:
  at, piece,  \* what it does next, and which of its things it is at
  members,    \* who there was when it fetched the members,
  known,      \* and who of them has the role, as far as it knows
  visits,     \* people, then channels, it has yet to look at
  channel,    \* the one it works on
  guests,     \* bots it has yet to let in there
  gated,      \* channels it will shut
  saved,      \* the ids were written to the bot's environment
  \* history:
  runs, moves,
  unread,     \* runs that did not find a panel that there was
  late        \* who joined after the members were fetched

guildVars == <<there, panels, inGuild, verified, hidden>>
overwriteVars == <<own, unlocked, welcome, shut>>
runVars == <<at, piece, members, known, visits, channel, guests, gated>>
pastVars == <<runs, moves, unread, late>>
setupVars == <<guildVars, overwriteVars, runVars, saved, pastVars>>

Doors == Channels \cup {"deobfuscate", "startHere"}

Steps == {"idle", "ensure", "role", "everyone", "topic", "own", "members",
          "backfill", "channels", "unlock", "bots", "close"}

(***************************************************************************)
(* The type invariant: what Discord has, and how far the run is.           *)
(***************************************************************************)
TypeOK ==
  /\ there \subseteq Things
  /\ panels \in Nat /\ unread \in Nat
  /\ inGuild \subseteq Everybody
  /\ verified \subseteq inGuild \cap People
  /\ hidden \subseteq Channels
  /\ {own, unlocked, shut} \subseteq SUBSET Doors
  /\ welcome \in [Channels -> SUBSET Bots]
  /\ at \in Steps
  /\ piece \in DOMAIN Script
  /\ members \subseteq Everybody
  /\ known \subseteq members \cap People
  /\ visits \subseteq People \cup Channels
  /\ channel \in Channels \cup {None}
  /\ guests \subseteq Bots
  /\ gated \subseteq Channels
  /\ saved \in BOOLEAN
  /\ runs \in Nat /\ moves \in Nat
  /\ late \subseteq Everybody

NoRun ==
  /\ at = "idle" /\ piece = 1
  /\ members = {} /\ known = {} /\ visits = {}
  /\ channel = None /\ guests = {} /\ gated = {}

Init ==
  /\ there \in Found
  /\ panels = 0
  /\ inGuild \in SUBSET Everybody
  /\ verified = {}
  /\ hidden \in SUBSET Channels
  /\ own = {} /\ unlocked = {} /\ shut = {}
  /\ welcome = [c \in Channels |-> {}]
  /\ NoRun
  /\ saved = FALSE
  /\ runs = 0 /\ moves = 0 /\ unread = 0 /\ late = {}

-----------------------------------------------------------------------------
(***************************************************************************)
(* A run.  Any call may be refused, at the start for want of permissions;  *)
(* the process then ends, and what it knew is gone.                        *)
(***************************************************************************)
Start ==
  /\ at = "idle"
  /\ runs < maxRuns
  /\ at' = "ensure"
  /\ runs' = runs + 1
  /\ UNCHANGED <<guildVars, overwriteVars, piece, members, known, visits, channel,
                 guests, gated, saved, moves, unread, late>>

Fail ==
  /\ at # "idle"
  /\ at' = "idle" /\ piece' = 1
  /\ members' = {} /\ known' = {} /\ visits' = {}
  /\ channel' = None /\ guests' = {} /\ gated' = {}
  /\ UNCHANGED <<guildVars, overwriteVars, saved, pastVars>>

\* To edit a channel the bot has to see it.
MayEdit(c) == c \in own \/ c \notin hidden \cup shut

-----------------------------------------------------------------------------
(***************************************************************************)
(* The things, one after the other: what is there by its name is brought   *)
(* up to date, and the rest is made.                                       *)
(***************************************************************************)
NextPiece ==
  \/ piece < Len(Script) /\ at' = "ensure" /\ piece' = piece + 1
  \/ piece = Len(Script) /\ at' = "members" /\ UNCHANGED piece

restOfRun == <<members, known, visits, channel, guests, gated, saved>>

\* What is made for some only is made with its overwrites, at once.
Make ==
  LET thing == Script[piece] IN
  /\ at = "ensure"
  /\ thing \in Things \ there
  /\ there' = there \cup {thing}
  /\ own' = own \cup ({thing} \cap Doors)
  /\ unlocked' = unlocked \cup ({thing} \cap {"deobfuscate"})
  /\ shut' = shut \cup ({thing} \cap Doors)
  /\ NextPiece
  /\ UNCHANGED <<panels, inGuild, verified, hidden, welcome, restOfRun, pastVars>>

\* Roles are left alone; of other channels the topic, the parent or all of the
\* overwrites are set in one call.
Find ==
  /\ at = "ensure"
  /\ Script[piece] \in there \ Doors
  /\ NextPiece
  /\ UNCHANGED <<guildVars, overwriteVars, restOfRun, pastVars>>

(***************************************************************************)
(* A channel "deobfuscate" there already: the bot's overwrite first, then  *)
(* that of the role, then everyone's; then the topic.                      *)
(***************************************************************************)
EditCommandChannel ==
  /\ MayEdit("deobfuscate")
  /\ \/ /\ at = "ensure" /\ Script[piece] = "deobfuscate" /\ "deobfuscate" \in there
        /\ own' = own \cup {"deobfuscate"}
        /\ at' = "role"
        /\ UNCHANGED <<unlocked, shut, piece>>
     \/ /\ at = "role"
        /\ unlocked' = unlocked \cup {"deobfuscate"}
        /\ at' = "everyone"
        /\ UNCHANGED <<own, shut, piece>>
     \/ /\ at = "everyone"
        /\ shut' = shut \cup {"deobfuscate"}
        /\ at' = "topic"
        /\ UNCHANGED <<own, unlocked, piece>>
     \/ /\ at = "topic"
        /\ NextPiece
        /\ UNCHANGED <<own, unlocked, shut>>
  /\ UNCHANGED <<guildVars, welcome, restOfRun, pastVars>>

(***************************************************************************)
(* A category "Start Here" there already: everyone's overwrite first, and  *)
(* then the bot's, if it still sees the category.                          *)
(***************************************************************************)
EditStartHere ==
  /\ MayEdit("startHere")
  /\ \/ /\ at = "ensure" /\ Script[piece] = "startHere" /\ "startHere" \in there
        /\ shut' = shut \cup {"startHere"}
        /\ at' = "own"
        /\ UNCHANGED <<own, piece>>
     \/ /\ at = "own"
        /\ own' = own \cup {"startHere"}
        /\ NextPiece
        /\ UNCHANGED shut
  /\ UNCHANGED <<guildVars, unlocked, welcome, restOfRun, pastVars>>

(***************************************************************************)
(* The panel is looked for in the hub's last messages; when they cannot be *)
(* read, or it is not among them, another one is sent.                     *)
(***************************************************************************)
ShowPanel ==
  /\ at = "ensure" /\ Script[piece] = "panel"
  /\ \/ panels > 0 /\ UNCHANGED <<panels, unread>>
     \/ /\ panels' = panels + 1
        /\ unread' = IF panels > 0 THEN unread + 1 ELSE unread
  /\ NextPiece
  /\ UNCHANGED <<there, inGuild, verified, hidden, overwriteVars, restOfRun, runs,
                 moves, late>>

-----------------------------------------------------------------------------
(***************************************************************************)
(* The members there are, and the role for those who do not have it.  Who  *)
(* left meanwhile is still in the list, as they were: to give them the     *)
(* role fails, unless they are back.                                       *)
(***************************************************************************)
FetchMembers ==
  /\ at = "members"
  /\ at' = "backfill"
  /\ members' = inGuild
  /\ known' = verified
  /\ visits' = inGuild \cap People
  /\ late' = {}
  /\ UNCHANGED <<guildVars, overwriteVars, piece, channel, guests, gated, saved, runs,
                 moves, unread>>

LacksRole(p) == p \notin known

Backfill(p) ==
  /\ at = "backfill"
  /\ p \in visits
  /\ \/ ~LacksRole(p) /\ UNCHANGED verified
     \/ LacksRole(p) /\ p \in inGuild /\ verified' = verified \cup {p}
  /\ visits' = visits \ {p}
  /\ UNCHANGED <<there, panels, inGuild, hidden, overwriteVars, at, piece, members,
                 known, channel, guests, gated, saved, pastVars>>

Backfilled ==
  /\ at = "backfill"
  /\ visits = {}
  /\ at' = "channels"
  /\ visits' = Channels
  /\ UNCHANGED <<guildVars, overwriteVars, piece, members, known, channel, guests,
                 gated, saved, pastVars>>

-----------------------------------------------------------------------------
(***************************************************************************)
(* The channels for members, except those the bot has no access to: its    *)
(* own overwrite, that of the verified role, one for each other bot, and,  *)
(* when all channels are through, everyone's.                              *)
(***************************************************************************)
MayManageAny(c) == TRUE   \* defect: nothing is skipped

MayManage(c) == MayEdit(c)

Visit(c) ==
  /\ at = "channels"
  /\ c \in visits
  /\ visits' = visits \ {c}
  /\ IF MayManage(c)
     THEN /\ own' = own \cup {c}
          /\ channel' = c
          /\ at' = "unlock"
     ELSE UNCHANGED <<own, channel, at>>
  /\ UNCHANGED <<guildVars, unlocked, welcome, shut, piece, members, known, guests,
                 gated, saved, pastVars>>

\* The other bots of the list are let in, and the channel is noted.
LetIn(bots) ==
  /\ guests' = bots
  /\ IF bots = {}
     THEN at' = "channels" /\ channel' = None /\ gated' = gated \cup {channel}
     ELSE at' = "bots" /\ UNCHANGED <<channel, gated>>
  /\ UNCHANGED <<guildVars, own, shut, piece, members, known, visits, saved, pastVars>>

noBots == {}   \* defect: other bots are not let in

nonAdminBots == members \cap Bots

Unlock ==
  /\ at = "unlock"
  /\ unlocked' = unlocked \cup {channel}
  /\ LetIn(nonAdminBots)
  /\ UNCHANGED welcome

LetBotIn(b) ==
  /\ at = "bots"
  /\ b \in guests
  /\ welcome' = [welcome EXCEPT ![channel] = @ \cup {b}]
  /\ LetIn(guests \ {b})
  /\ UNCHANGED unlocked

Visited ==
  /\ at = "channels"
  /\ visits = {}
  /\ at' = "close"
  /\ UNCHANGED <<guildVars, overwriteVars, piece, members, known, visits, channel,
                 guests, gated, saved, pastVars>>

Close(c) ==
  /\ at = "close"
  /\ c \in gated
  /\ shut' = shut \cup {c}
  /\ gated' = gated \ {c}
  /\ UNCHANGED <<guildVars, own, unlocked, welcome, at, piece, members, known, visits,
                 channel, guests, saved, pastVars>>

(***************************************************************************)
(* Last, the AFK channel is opened to the bot and the ids are written.     *)
(***************************************************************************)
Save ==
  /\ at = "close"
  /\ gated = {}
  /\ saved' = TRUE
  /\ at' = "idle" /\ piece' = 1
  /\ members' = {} /\ known' = {}
  /\ UNCHANGED <<guildVars, overwriteVars, visits, channel, guests, gated, pastVars>>

-----------------------------------------------------------------------------
(***************************************************************************)
(* The guild meanwhile.  Who leaves loses the role, and a bot with the     *)
(* saved ids gives it to whoever it has onboarded (VoiceOnboarding).       *)
(***************************************************************************)
Join(m) ==
  /\ moves < maxMoves
  /\ m \notin inGuild
  /\ inGuild' = inGuild \cup {m}
  /\ late' = late \cup {m}
  /\ moves' = moves + 1
  /\ UNCHANGED <<there, panels, verified, hidden, overwriteVars, runVars, saved, runs,
                 unread>>

Leave(m) ==
  /\ moves < maxMoves
  /\ m \in inGuild
  /\ inGuild' = inGuild \ {m}
  /\ verified' = verified \ {m}
  /\ moves' = moves + 1
  /\ UNCHANGED <<there, panels, hidden, overwriteVars, runVars, saved, runs, unread,
                 late>>

Onboard(p) ==
  /\ saved
  /\ p \in inGuild \ verified
  /\ verified' = verified \cup {p}
  /\ known' = IF p \in members \ late THEN known \cup {p} ELSE known
  /\ UNCHANGED <<there, panels, inGuild, hidden, overwriteVars, at, piece, members,
                 visits, channel, guests, gated, saved, pastVars>>

Next ==
  \/ Start \/ Fail
  \/ Make \/ Find \/ EditCommandChannel \/ EditStartHere \/ ShowPanel
  \/ FetchMembers \/ Backfilled \/ Unlock \/ Visited \/ Save
  \/ \E p \in People : Backfill(p) \/ Onboard(p)
  \/ \E c \in Channels : Visit(c) \/ Close(c)
  \/ \E b \in Bots : LetBotIn(b)
  \/ \E m \in Everybody : Join(m) \/ Leave(m)

Spec == Init /\ [][Next]_setupVars

-----------------------------------------------------------------------------
CanSee(m, c) ==
  \/ c \notin shut
  \/ m \in verified /\ c \in unlocked
  \/ m \in Bots /\ m \in welcome[c]

(***************************************************************************)
(* However often the setup breaks off and is run again, and whoever comes  *)
(* and goes meanwhile, no step takes a channel away from a member or a bot *)
(* that sees it, unless they leave or joined after the members were        *)
(* fetched: nobody tells the script of those.                              *)
(***************************************************************************)
AccessIsKept ==
  [][\A m \in inGuild \ late, c \in Channels :
       CanSee(m, c) /\ m \in inGuild' => CanSee(m, c)']_setupVars

(***************************************************************************)
(* At every moment a channel that was shut can be opened by the role and   *)
(* edited by the bot, and one the bot was kept out of is not shut; the ids *)
(* are saved only when all is there and every other channel is shut; and   *)
(* there is one panel, but for those that were not found.                  *)
(***************************************************************************)
SetupIsTrue ==
  /\ shut \cap Channels \subseteq own \cap unlocked
  /\ shut \cap hidden = {}
  /\ saved => there = Things /\ Channels \ hidden \subseteq shut
  /\ panels <= 1 + unread

=============================================================================
