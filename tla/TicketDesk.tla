----------------------------- MODULE TicketDesk -----------------------------
(***************************************************************************)
(* The support tickets of CommunityService and CommunityStore (apps/       *)
(* discord-bot/src/community-service.js, community-store.js): a member     *)
(* opens a ticket and is given a channel of Discord's, the button in it    *)
(* archives the channel and closes the ticket, and the channel is deleted  *)
(* some time later.  A handler runs to its next await; others run between. *)
(*                                                                         *)
(* Channels are numbered in the order Discord creates them.  A ticket is   *)
(* named by the channel it was created with, and 0 is neither.  The store  *)
(* writes its file in every method that changes it, so a restart loses     *)
(* nothing of it.                                                          *)
(***************************************************************************)
EXTENDS Guild, Sequences

CONSTANTS
  maxChannels,   \* bound: how many channels are ever created
  maxRestarts    \* bound: how often the bot is started again

ASSUME BoundsAssumption == {maxChannels, maxRestarts} \subseteq Nat

VARIABLES
  \* Discord's:
  owner,       \* the member each channel was made for
  channels,    \* those that are not deleted
  button,      \* channel -> the ticket that the button in it closes
  \* the store's:
  status,      \* of each ticket
  archived,    \* ticket -> the channel whose messages its transcript has
  \* the process's:
  handler,     \* what each interaction is doing
  timers,      \* channels whose deletion is scheduled
  sweep, unswept,   \* reconcileClosedTickets: "due" or begun, what it has left
  restarts,
  \* history:
  doubled,     \* members who were given a channel beside that of their ticket
  failed,      \* tickets whose set-up failed
  refused      \* channels about which Discord refused a request

discordVars == <<owner, channels, button>>
storeVars == <<status, archived>>
sweepVars == <<sweep, unswept, restarts>>
history == <<doubled, failed, refused>>
vars == <<discordVars, storeVars, handler, timers, sweepVars, history>>

Channels == 1..maxChannels

Handler ==
  [at : {"idle", "create", "created", "send", "reply", "archive", "tidy"},
   member : Members \cup {None}, channel : 0..maxChannels, ticket : 0..maxChannels]

Idle == [at |-> "idle", member |-> None, channel |-> 0, ticket |-> 0]

(***************************************************************************)
(* The type invariant: Discord's channels, the tickets in the store, and   *)
(* what CommunityService holds of them.                                    *)
(***************************************************************************)
TypeOK ==
  /\ owner \in Seq(Members)
  /\ Len(owner) <= maxChannels
  /\ channels \subseteq 1..Len(owner)
  /\ button \in [Channels -> 0..Len(owner)]
  /\ status \in [Channels -> {"none", "open", "closed"}]
  /\ archived \in [Channels -> 0..Len(owner)]
  /\ handler \in [Handlers -> Handler]
  /\ timers \subseteq 1..Len(owner)
  /\ sweep \in {"due", "begun"}
  /\ unswept \subseteq 1..Len(owner)
  /\ restarts \in 0..maxRestarts
  /\ doubled \subseteq Members
  /\ failed \subseteq 1..Len(owner)
  /\ refused \subseteq 1..Len(owner)

Init ==
  /\ owner = <<>>
  /\ channels = {}
  /\ button = [c \in Channels |-> 0]
  /\ status = [c \in Channels |-> "none"]
  /\ archived = [c \in Channels |-> 0]
  /\ handler = [h \in Handlers |-> Idle]
  /\ timers = {}
  /\ sweep = "due"
  /\ unswept = {}
  /\ restarts = 0
  /\ doubled = {}
  /\ failed = {}
  /\ refused = {}

Goes(h, from, to) ==
  /\ handler[h].at = from
  /\ handler' = [handler EXCEPT ![h] = IF to = "idle" THEN Idle ELSE [@ EXCEPT !.at = to]]

\* A channel is deleted, with the messages in it; or Discord refuses that.
Deleted(c) ==
  \/ /\ channels' = channels \ {c}
     /\ button' = [button EXCEPT ![c] = 0]
     /\ UNCHANGED refused
  \/ /\ refused' = refused \cup {c}
     /\ UNCHANGED <<channels, button>>

-----------------------------------------------------------------------------
(***************************************************************************)
(* openTicket.  The store is asked before the channel is made and again,   *)
(* by createTicket, when it is there; the second answer may be the ticket  *)
(* of another press, and the handler then goes on with that one.           *)
(***************************************************************************)
OpenTicketsOf(m) ==
  {t \in DOMAIN owner : status[t] = "open" /\ owner[t] = m}

OpenTicket(h, m) ==
  /\ handler[h].at = "idle"
  /\ OpenTicketsOf(m) = {}
  /\ handler' = [handler EXCEPT ![h] = [Idle EXCEPT !.at = "create", !.member = m]]
  /\ UNCHANGED <<discordVars, storeVars, timers, sweepVars, history>>

ChannelCreated(h) ==
  LET c == Len(owner) + 1 IN
  /\ handler[h].at = "create"
  /\ c <= maxChannels
  /\ owner' = Append(owner, handler[h].member)
  /\ channels' = channels \cup {c}
  /\ handler' = [handler EXCEPT ![h].at = "created", ![h].channel = c]
  /\ UNCHANGED <<button, storeVars, timers, sweepVars, history>>

CreationFails(h) ==
  /\ Goes(h, "create", "idle")
  /\ UNCHANGED <<discordVars, storeVars, timers, sweepVars, history>>

ExistingIgnored(m) == {}   \* defect: createTicket does not look

Existing(m) == OpenTicketsOf(m)

CreateTicket(h) ==
  LET m == handler[h].member
      c == handler[h].channel
      ticket == IF Existing(m) = {} THEN c ELSE CHOOSE t \in Existing(m) : TRUE
  IN
  /\ handler[h].at = "created"
  /\ handler' = [handler EXCEPT ![h].at = "send", ![h].ticket = ticket]
  /\ status' = [status EXCEPT ![ticket] = "open"]
  /\ doubled' = IF ticket = c THEN doubled ELSE doubled \cup {m}
  /\ UNCHANGED <<discordVars, archived, timers, sweepVars, failed,
                 refused>>

TicketId(h) == handler[h].ticket

SendButton(h) ==
  /\ Goes(h, "send", "reply")
  /\ handler[h].channel \in channels
  /\ button' = [button EXCEPT ![handler[h].channel] = TicketId(h)]
  /\ UNCHANGED <<owner, channels, storeVars, timers, sweepVars, history>>

\* The rest of openTicket is sent to people who may not receive it.
Reply(h) ==
  /\ Goes(h, "reply", "idle")
  /\ UNCHANGED <<discordVars, storeVars, timers, sweepVars, history>>

SetupFails(h) ==
  /\ Goes(h, "send", "idle") \/ Goes(h, "reply", "idle")
  /\ Deleted(handler[h].channel)
  /\ failed' = failed \cup {handler[h].channel}
  /\ UNCHANGED <<owner, storeVars, timers, sweepVars, doubled>>

-----------------------------------------------------------------------------
(***************************************************************************)
(* closeTicket, for the owner or the staff.  The ticket is checked before  *)
(* the messages are fetched and closed when their transcript is written;   *)
(* what the store's closeTicket says is not looked at.  The channel is the *)
(* one the button is in.                                                   *)
(***************************************************************************)
CloseTicket(h, c) ==
  /\ handler[h].at = "idle"
  /\ c \in channels
  /\ button[c] # 0
  /\ status[button[c]] = "open"
  /\ handler' = [handler EXCEPT ![h] = [Idle EXCEPT !.at = "archive", !.channel = c,
                                                    !.ticket = button[c]]]
  /\ UNCHANGED <<discordVars, storeVars, timers, sweepVars, history>>

Closed(t) == status' = [status EXCEPT ![t] = "closed"]

ArchiveTicket(h) ==
  LET c == handler[h].channel
      t == handler[h].ticket
  IN
  /\ Goes(h, "archive", "tidy")
  /\ c \in channels
  /\ archived' = [archived EXCEPT ![t] = c]
  /\ Closed(t)
  /\ UNCHANGED <<discordVars, timers, sweepVars, history>>

\* defect: the ticket is closed although its transcript could not be saved
ClosedAnyway(t) == Closed(t)

NotClosed(t) == UNCHANGED status

ArchiveFails(h) ==
  /\ Goes(h, "archive", "idle")
  /\ NotClosed(handler[h].ticket)
  /\ UNCHANGED <<discordVars, archived, timers, sweepVars, history>>

(***************************************************************************)
(* What follows can fail at each await, before or after the button is      *)
(* taken away, and the timer is then not set.                              *)
(***************************************************************************)
Tidy(h) ==
  LET c == handler[h].channel IN
  /\ Goes(h, "tidy", "idle")
  /\ c \in channels
  /\ button' = [button EXCEPT ![c] = 0]
  /\ timers' = timers \cup {c}
  /\ UNCHANGED <<owner, channels, storeVars, sweepVars, history>>

TidyFails(h) ==
  LET c == handler[h].channel IN
  /\ Goes(h, "tidy", "idle")
  /\ button' \in {button, [button EXCEPT ![c] = 0]}
  /\ refused' = refused \cup {c}
  /\ UNCHANGED <<owner, channels, storeVars, timers, sweepVars, doubled, failed>>

TimerFires(c) ==
  /\ c \in timers
  /\ timers' = timers \ {c}
  /\ Deleted(c)
  /\ UNCHANGED <<owner, storeVars, handler, sweepVars, doubled, failed>>

-----------------------------------------------------------------------------
(***************************************************************************)
(* A restart forgets handlers and timers; start then deletes the channels  *)
(* of the tickets that are closed, one after the other.                    *)
(***************************************************************************)
Restart ==
  /\ restarts < maxRestarts
  /\ restarts' = restarts + 1
  /\ handler' = [h \in Handlers |-> Idle]
  /\ timers' = {}
  /\ sweep' = "due"
  /\ unswept' = {}
  /\ UNCHANGED <<discordVars, storeVars, history>>

SweepNothing == {}   \* defect: the deletion is left to the timers

SweepAll == {t \in Channels : status[t] # "none"}   \* defect: open ones too

ToSweep == {t \in Channels : status[t] = "closed"}

ReconcileClosedTickets ==
  /\ sweep = "due"
  /\ sweep' = "begun"
  /\ unswept' = ToSweep
  /\ UNCHANGED <<discordVars, storeVars, handler, timers, restarts, history>>

SweepNext ==
  \E t \in unswept :
    /\ \A u \in unswept : t <= u
    /\ unswept' = unswept \ {t}
    /\ IF t \in channels THEN Deleted(t) ELSE UNCHANGED <<channels, button, refused>>
    /\ UNCHANGED <<owner, storeVars, handler, timers, sweep, restarts, doubled, failed>>

Step(h) ==
  \/ ChannelCreated(h) \/ CreationFails(h) \/ CreateTicket(h) \/ SendButton(h)
  \/ Reply(h) \/ SetupFails(h)
  \/ ArchiveTicket(h) \/ ArchiveFails(h) \/ Tidy(h) \/ TidyFails(h)

Sweeping == ReconcileClosedTickets \/ SweepNext

Next ==
  \/ \E h \in Handlers :
       \/ Step(h)
       \/ \E m \in Members : OpenTicket(h, m)
       \/ \E c \in channels : CloseTicket(h, c)
  \/ \E c \in timers : TimerFires(c)
  \/ Sweeping
  \/ Restart

Spec == Init /\ [][Next]_vars

(***************************************************************************)
(* Discord answers every request, one way or the other; timers fire; the   *)
(* start of the bot goes on.                                               *)
(***************************************************************************)
Fairness ==
  /\ \A h \in Handlers : WF_vars(Step(h))
  /\ \A c \in Channels : WF_vars(TimerFires(c))
  /\ WF_vars(Sweeping)

FairSpec == Spec /\ Fairness

-----------------------------------------------------------------------------
(***************************************************************************)
(* However presses, failures and restarts interleave, the store never has  *)
(* two open tickets of one member (createTicket).                          *)
(***************************************************************************)
OneOpenTicketPerMember ==
  \A m \in Members : Cardinality(OpenTicketsOf(m)) <= 1

(***************************************************************************)
(* The channel of an open ticket is there, so its owner can be helped in   *)
(* it and can close it, unless its set-up failed: openTicket then deletes  *)
(* the channel and leaves the ticket.                                      *)
(***************************************************************************)
OpenTicketHasItsChannel ==
  \A t \in Channels : status[t] = "open" => t \in channels \/ t \in failed

\* An open ticket is its owner's only one, and it can be closed.
OpenTicketsAreServed == OneOpenTicketPerMember /\ OpenTicketHasItsChannel

(***************************************************************************)
(* A closed ticket's transcript is of its own channel, whoever else closes *)
(* it at the same time.  It may not be for members who pressed the button  *)
(* twice: their second channel has a button for the ticket of the first,   *)
(* and what is archived and deleted is then the second channel.            *)
(***************************************************************************)
TranscriptIsOwn ==
  \A t \in Channels :
    status[t] = "closed" => archived[t] = t \/ owner[t] \in doubled

(***************************************************************************)
(* The channel of a closed ticket is deleted in the end, whether the timer *)
(* fires or the bot is restarted first, unless Discord refused something   *)
(* about it or its owner has two.                                          *)
(***************************************************************************)
ClosedChannelGoes ==
  \A t \in Channels :
    status[t] = "closed" ~>
      t \notin channels \/ t \in refused \/ owner[t] \in doubled

=============================================================================
