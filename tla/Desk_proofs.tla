----------------------------- MODULE Desk_proofs -----------------------------
(***************************************************************************)
(* Proofs about the community service of the Discord bot, for any number   *)
(* of members, interactions, items, channels, invites, days and restarts.  *)
(* First its tickets (TicketDesk); then its items and rewards (Community), *)
(* whose invariant says what each handler may still take for granted about *)
(* its item when its turn comes, that at most one is at work on an item,   *)
(* and what a member's coins are made of; then its invites (Invites), by   *)
(* how far the snapshot is behind the uses.                                *)
(***************************************************************************)
EXTENDS Desk, FiniteSetTheorems, WellFoundedInduction, TLAPS

Making(h, c) == handler[h].at = "created" /\ handler[h].channel = c

(***************************************************************************)
(* What is done in channel c about ticket t is about the ticket of c; or c *)
(* is the second channel of a member and will never have a ticket.         *)
(***************************************************************************)
Linked(c, t) ==
  \/ c = t
  \/ /\ status[c] = "none" /\ owner[c] = owner[t] /\ owner[t] \in doubled
     /\ \A h \in Handlers : ~Making(h, c)

InOrder(call) ==
  /\ call.at = "idle" => call = Idle
  /\ call.at = "create" => call.member \in Members /\ call.channel = 0
  /\ call.at \notin {"idle", "create"} => call.channel \in DOMAIN owner
  /\ call.at \notin {"idle", "create", "created"} =>
       /\ call.ticket \in DOMAIN owner
       /\ status[call.ticket] # "none"
       /\ Linked(call.channel, call.ticket)
  /\ call.at = "tidy" => status[call.ticket] = "closed"

HandlersAreInOrder == \A h \in Handlers : InOrder(handler[h])

(***************************************************************************)
(* The channel that handler h has made and the store does not know yet.    *)
(***************************************************************************)
ChannelIsNew(h, c) ==
  /\ owner[c] = handler[h].member
  /\ c \in channels /\ button[c] = 0 /\ status[c] = "none"
  /\ c \notin timers /\ c \notin failed
  /\ \A g \in Handlers \ {h} : handler[g].channel # c

MadeAreNew ==
  \A h \in Handlers : handler[h].at = "created" => ChannelIsNew(h, handler[h].channel)

ButtonsNameTickets ==
  \A c \in Channels : button[c] # 0 =>
    /\ c \in DOMAIN owner /\ button[c] \in DOMAIN owner
    /\ status[button[c]] # "none"
    /\ Linked(c, button[c])

TicketsHaveOwners == \A t \in Channels : status[t] # "none" => t \in DOMAIN owner

OpenIsLeftAlone ==
  /\ \A c \in timers : status[c] # "open"
  /\ \A t \in unswept : status[t] = "closed"

OneOpenTicket ==
  \A t, u \in DOMAIN owner :
    status[t] = "open" /\ status[u] = "open" /\ owner[t] = owner[u] => t = u

TInv ==
  /\ TypeOK
  /\ HandlersAreInOrder
  /\ MadeAreNew
  /\ ButtonsNameTickets
  /\ TicketsHaveOwners
  /\ OpenIsLeftAlone
  /\ OneOpenTicket
  /\ OpenTicketHasItsChannel
  /\ TranscriptIsOwn

-----------------------------------------------------------------------------
(***************************************************************************)
(* A step that makes no channel and no ticket: channels go, tickets are    *)
(* closed and buttons are set in places that have nothing to lose by it.   *)
(***************************************************************************)
Free(c) == \A h \in Handlers : ~Making(h, c)

StoreNarrows ==
  /\ \A t \in Channels :
       status'[t] = status[t] \/ (status[t] = "open" /\ status'[t] = "closed")
  /\ \A t \in Channels : status'[t] = "closed" =>
       \/ status[t] = "closed" /\ archived'[t] = archived[t]
       \/ archived'[t] = t
       \/ owner[t] \in doubled
  /\ owner' = owner /\ doubled \subseteq doubled' /\ failed \subseteq failed'
  /\ \A c \in failed' \ failed : Free(c)

DiscordNarrows ==
  /\ channels' \subseteq channels
  /\ \A c \in channels \ channels' : Free(c) /\ (status[c] # "open" \/ c \in failed')
  /\ \A c \in Channels :
       \/ button'[c] \in {button[c], 0}
       \/ /\ c \in DOMAIN owner /\ button'[c] \in DOMAIN owner
          /\ status[button'[c]] # "none"
          /\ Linked(c, button'[c]) /\ Free(c)
  /\ \A c \in timers' \ timers : Free(c) /\ status[c] # "open"
  /\ \A t \in unswept' \ unswept : status[t] = "closed"

HandlersGoOn ==
  \A h \in Handlers :
    \/ handler'[h] = handler[h]
    \/ handler'[h] = Idle
    \/ /\ handler'[h].at # "created" /\ InOrder(handler[h])'
       /\ Free(handler'[h].channel)

(***************************************************************************)
(* Such a step keeps the invariant.                                        *)
(***************************************************************************)
LEMMA NarrowStep ==
  ASSUME TInv, TypeOK', StoreNarrows, DiscordNarrows, HandlersGoOn PROVE TInv'
<1>0. /\ owner' = owner /\ DOMAIN owner \subseteq Channels
      /\ doubled \subseteq doubled' /\ failed \subseteq failed'
      /\ \A t \in Channels :
           status'[t] = status[t] \/ (status[t] = "open" /\ status'[t] = "closed")
  BY BoundsAssumption DEF StoreNarrows, TInv, TypeOK, Channels
<1>1. Idle.at = "idle" /\ Idle.channel = 0 /\ 0 \notin DOMAIN owner
  BY DEF Idle, TInv, TypeOK
<1>2. \A h \in Handlers : handler'[h].at = "created" =>
        handler'[h] = handler[h]
  BY <1>1 DEF HandlersGoOn
<1>3. \A c : \A h \in Handlers : Making(h, c)' => Making(h, c)
  BY <1>2 DEF Making
<1>4. ASSUME NEW c \in DOMAIN owner, NEW t \in DOMAIN owner, Linked(c, t)
      PROVE  Linked(c, t)'
  BY <1>0, <1>3, <1>4 DEF Linked
<1>5. HandlersAreInOrder'
  <2> SUFFICES ASSUME NEW h \in Handlers PROVE InOrder(handler[h])'
    BY DEF HandlersAreInOrder
  <2>1. CASE handler'[h] = handler[h]
    <3>1. InOrder(handler[h])
      BY DEF TInv, HandlersAreInOrder
    <3>2. handler[h].at \notin {"idle", "create", "created"} =>
            /\ status'[handler[h].ticket] # "none"
            /\ Linked(handler[h].channel, handler[h].ticket)'
      <4> SUFFICES ASSUME handler[h].at \notin {"idle", "create", "created"}
                   PROVE  /\ status'[handler[h].ticket] # "none"
                          /\ Linked(handler[h].channel, handler[h].ticket)'
        OBVIOUS
      <4>1. /\ handler[h].channel \in DOMAIN owner /\ handler[h].ticket \in DOMAIN owner
            /\ status[handler[h].ticket] # "none"
            /\ Linked(handler[h].channel, handler[h].ticket)
        BY <3>1 DEF InOrder
      <4>2. PICK c \in DOMAIN owner, t \in DOMAIN owner :
              c = handler[h].channel /\ t = handler[h].ticket
        BY <4>1
      <4>3. Linked(c, t)'
        BY <1>4, <4>1, <4>2
      <4> QED BY <1>0, <2>1, <4>1, <4>2, <4>3
    <3>3. handler[h].at = "tidy" => status'[handler[h].ticket] = "closed"
      BY <1>0, <3>1 DEF InOrder
    <3> QED BY <1>0, <2>1, <3>1, <3>2, <3>3 DEF InOrder, Idle
  <2>2. CASE handler'[h] = Idle
    BY <1>1, <2>2 DEF InOrder, Idle
  <2> QED BY <2>1, <2>2 DEF HandlersGoOn
<1>6. MadeAreNew'
  <2> SUFFICES ASSUME NEW h \in Handlers, handler'[h].at = "created"
               PROVE  ChannelIsNew(h, handler[h].channel)'
    BY DEF MadeAreNew
  <2>1. handler'[h] = handler[h]
    BY <1>2
  <2>2. PICK c \in DOMAIN owner : c = handler[h].channel
    BY <2>1 DEF TInv, HandlersAreInOrder, InOrder
  <2>3. Making(h, c) /\ ChannelIsNew(h, c)
    BY <2>1, <2>2 DEF Making, TInv, MadeAreNew
  <2>4. /\ owner'[c] = handler'[h].member /\ status'[c] = "none"
        /\ c \notin failed'
    BY <1>0, <2>1, <2>3 DEF ChannelIsNew, StoreNarrows, Free
  <2>5. c \in channels' /\ button'[c] = 0 /\ c \notin timers'
    BY <1>0, <2>3 DEF ChannelIsNew, DiscordNarrows, Free
  <2>6. \A g \in Handlers \ {h} : handler'[g].channel # c
    BY <1>1, <2>3 DEF ChannelIsNew, HandlersGoOn, Free
  <2> QED BY <2>1, <2>2, <2>4, <2>5, <2>6 DEF ChannelIsNew
<1>7. ButtonsNameTickets'
  <2> SUFFICES ASSUME NEW c \in Channels, button'[c] # 0
               PROVE  /\ c \in DOMAIN owner /\ button'[c] \in DOMAIN owner
                      /\ status'[button'[c]] # "none"
                      /\ Linked(c, button[c])'
    BY <1>0 DEF ButtonsNameTickets
  <2>1. /\ c \in DOMAIN owner /\ button'[c] \in DOMAIN owner
        /\ status[button'[c]] # "none"
        /\ Linked(c, button'[c])
    BY DEF TInv, ButtonsNameTickets, DiscordNarrows
  <2>2. PICK t \in DOMAIN owner : t = button'[c]
    BY <2>1
  <2>3. Linked(c, t)'
    BY <1>4, <2>1, <2>2
  <2> QED BY <1>0, <2>1, <2>2, <2>3
<1>8. TicketsHaveOwners' /\ OneOpenTicket'
  BY <1>0 DEF TInv, TicketsHaveOwners, OneOpenTicket
<1>9. OpenIsLeftAlone'
  <2>1. timers' \subseteq Channels /\ unswept' \subseteq Channels
    BY <1>0 DEF TypeOK
  <2> QED BY <1>0, <2>1 DEF TInv, OpenIsLeftAlone, DiscordNarrows
<1>10. OpenTicketHasItsChannel'
  BY <1>0 DEF TInv, OpenTicketHasItsChannel, DiscordNarrows
<1>11. TranscriptIsOwn'
  BY <1>0 DEF TInv, TranscriptIsOwn, StoreNarrows
<1> QED BY <1>5, <1>6, <1>7, <1>8, <1>9, <1>10, <1>11 DEF TInv

(***************************************************************************)
(* Handler h alone has moved, and makes no channel.                        *)
(***************************************************************************)
LEMMA OneGoesOn ==
  ASSUME TInv, NEW h \in Handlers, NEW me \in Handler,
         handler' = [handler EXCEPT ![h] = me],
         me = Idle \/ (me.at # "created" /\ InOrder(me)' /\ Free(me.channel))
  PROVE  HandlersGoOn /\ handler' \in [Handlers -> Handler]
<1>1. handler'[h] = me /\ \A g \in Handlers \ {h} : handler'[g] = handler[g]
  BY DEF TInv, TypeOK
<1>2. handler' \in [Handlers -> Handler]
  BY DEF TInv, TypeOK
<1>3. ASSUME me # Idle PROVE InOrder(handler[h])'
  BY <1>1, <1>3 DEF InOrder, Idle
<1> QED BY <1>1, <1>2, <1>3 DEF HandlersGoOn

(***************************************************************************)
(* Where Goes leads: the handler is idle, or keeps its channel and ticket. *)
(***************************************************************************)
LEMMA IdleIsHandler == Idle \in Handler
  BY BoundsAssumption DEF Idle, Handler

(***************************************************************************)
(* A handler that becomes idle.                                            *)
(***************************************************************************)
LEMMA GoesToIdle ==
  ASSUME TInv, NEW h \in Handlers, NEW from, Goes(h, from, "idle")
  PROVE  HandlersGoOn /\ handler' \in [Handlers -> Handler]
<1>1. handler' = [handler EXCEPT ![h] = Idle]
  BY DEF Goes
<1> QED BY <1>1, OneGoesOn, IdleIsHandler

(***************************************************************************)
(* A handler that goes on with its ticket: it is the only one that knows   *)
(* its channel as new, and the link between the two stays.                 *)
(***************************************************************************)
LEMMA GoesOnWith ==
  ASSUME TInv, NEW h \in Handlers, NEW from, NEW to \in {"reply", "tidy"},
         Goes(h, from, to), from \notin {"idle", "create", "created"},
         UNCHANGED <<owner, doubled>>,
         \A t \in Channels : status'[t] = status[t] \/ t = handler[h].ticket,
         status'[handler[h].ticket] # "none",
         to = "tidy" => status'[handler[h].ticket] = "closed"
  PROVE  /\ HandlersGoOn /\ handler' \in [Handlers -> Handler]
         /\ handler[h].channel \in DOMAIN owner /\ handler[h].ticket \in DOMAIN owner
         /\ status[handler[h].ticket] # "none"
         /\ Linked(handler[h].channel, handler[h].ticket) /\ Free(handler[h].channel)
<1>0. handler[h] \in Handler
  BY DEF TInv, TypeOK
<1>1. PICK me \in Handler : me = [handler[h] EXCEPT !.at = to]
  BY <1>0 DEF Handler
<1>2. /\ me.at = to
      /\ me.channel = handler[h].channel /\ me.ticket = handler[h].ticket
      /\ handler[h].at = from /\ handler' = [handler EXCEPT ![h] = me]
  BY <1>0, <1>1 DEF Handler, Goes
<1>3. PICK c \in DOMAIN owner, t \in DOMAIN owner :
        c = handler[h].channel /\ t = handler[h].ticket
  BY <1>2 DEF TInv, HandlersAreInOrder, InOrder
<1>4. status[t] # "none" /\ Linked(c, t)
  BY <1>2, <1>3 DEF TInv, HandlersAreInOrder, InOrder
<1>5. Free(c)
  <2> SUFFICES ASSUME NEW g \in Handlers, Making(g, c) PROVE FALSE
    BY DEF Free
  <2>1. handler[g].at = "created" /\ handler[g].channel = c /\ g # h
    BY <1>2 DEF Making
  <2>2. ChannelIsNew(g, handler[g].channel)
    BY <2>1 DEF TInv, MadeAreNew
  <2> QED BY <1>3, <2>1, <2>2 DEF ChannelIsNew
<1>6. \A g \in Handlers : ~Making(g, c)'
  <2>1. handler \in [Handlers -> Handler]
    BY DEF TInv, TypeOK
  <2> QED BY <1>2, <1>5, <2>1 DEF Free, Making
<1>7. Linked(c, t)'
  <2>1. DOMAIN owner \subseteq Channels
    BY BoundsAssumption DEF TInv, TypeOK, Channels
  <2>2. c # t => status[c] = "none" /\ status'[c] = status[c]
    BY <1>3, <1>4, <2>1 DEF Linked
  <2> QED BY <1>3, <1>4, <1>6, <2>2 DEF Linked
<1>8. InOrder(me)'
  <2>1. c \in DOMAIN owner' /\ t \in DOMAIN owner' /\ status'[t] # "none"
    BY <1>3
  <2> QED BY <1>2, <1>3, <1>7, <2>1 DEF InOrder
<1>9. me.at # "created" /\ Free(me.channel)
  BY <1>2, <1>3, <1>5
<1> QED BY <1>2, <1>3, <1>4, <1>5, <1>8, <1>9, OneGoesOn

-----------------------------------------------------------------------------
(***************************************************************************)
(* The steps that only move a handler.                                     *)
(***************************************************************************)
LEMMA NothingElse ==
  ASSUME TInv, HandlersGoOn, handler' \in [Handlers -> Handler],
         UNCHANGED <<discordVars, storeVars, timers, sweepVars, history>>
  PROVE  TInv'
<1>1. UNCHANGED <<owner, channels, button, status, archived, timers, sweep, unswept,
                  restarts, doubled, failed, refused>>
  BY DEF discordVars, storeVars, sweepVars, history
<1>2. TypeOK'
  BY <1>1 DEF TInv, TypeOK
<1>3. StoreNarrows /\ DiscordNarrows
  BY <1>1 DEF StoreNarrows, DiscordNarrows
<1> QED BY <1>2, <1>3, NarrowStep

(***************************************************************************)
(* openTicket begins: the handler has no channel yet.                      *)
(***************************************************************************)
LEMMA OpenTicketKeeps ==
  ASSUME TInv, NEW h \in Handlers, NEW m \in Members, OpenTicket(h, m) PROVE TInv'
<1>1. PICK me \in Handler : me = [Idle EXCEPT !.at = "create", !.member = m]
  BY IdleIsHandler DEF Handler
<1>2. /\ me.at = "create" /\ me.member = m /\ me.channel = 0
      /\ handler' = [handler EXCEPT ![h] = me]
  BY <1>1 DEF OpenTicket, Idle
<1>3. InOrder(me)'
  BY <1>2 DEF InOrder
<1>4. Free(0)
  <2>1. \A g \in Handlers : handler[g].at = "created" => handler[g].channel \in 1 .. Len(owner)
    BY DEF TInv, TypeOK, HandlersAreInOrder, InOrder
  <2> QED BY <2>1 DEF Free, Making
<1> QED BY <1>1, <1>2, <1>3, <1>4, OneGoesOn, NothingElse DEF OpenTicket

(***************************************************************************)
(* closeTicket begins: the button names a ticket that goes with its        *)
(* channel.                                                                *)
(***************************************************************************)
LEMMA CloseTicketKeeps ==
  ASSUME TInv, NEW h \in Handlers, NEW c \in channels, CloseTicket(h, c) PROVE TInv'
<1>1. /\ c \in Channels /\ button[c] # 0 /\ status[button[c]] = "open"
      /\ handler' = [handler EXCEPT ![h] = [Idle EXCEPT !.at = "archive", !.channel = c,
                                                        !.ticket = button[c]]]
      /\ UNCHANGED <<discordVars, storeVars, timers, sweepVars, history>>
  <2>1. channels \subseteq Channels
    BY BoundsAssumption DEF TInv, TypeOK, Channels
  <2> QED BY <2>1 DEF CloseTicket
<1>2. PICK t \in DOMAIN owner : t = button[c]
  BY <1>1 DEF TInv, ButtonsNameTickets
<1>3. c \in DOMAIN owner /\ Linked(c, t) /\ DOMAIN owner \subseteq 0 .. maxChannels
  BY <1>1, <1>2, BoundsAssumption DEF TInv, ButtonsNameTickets, TypeOK
<1>4. PICK me \in Handler : me = [Idle EXCEPT !.at = "archive", !.channel = c, !.ticket = t]
  BY <1>3, IdleIsHandler DEF Handler
<1>8. /\ me.at = "archive" /\ me.channel = c /\ me.ticket = t
      /\ handler' = [handler EXCEPT ![h] = me]
  BY <1>1, <1>2, <1>4 DEF Idle
<1>5. Free(c)
  <2> SUFFICES ASSUME NEW g \in Handlers, Making(g, c) PROVE FALSE
    BY DEF Free
  <2>1. ChannelIsNew(g, c)
    BY DEF Making, TInv, MadeAreNew
  <2> QED BY <1>1, <2>1 DEF ChannelIsNew
<1>6. InOrder(me)'
  <2>1. UNCHANGED <<owner, status, doubled>>
    BY <1>1 DEF discordVars, storeVars, history
  <2>2. \A g \in Handlers : ~Making(g, c)'
    <3>1. handler \in [Handlers -> Handler]
      BY DEF TInv, TypeOK
    <3> QED BY <1>8, <1>5, <3>1 DEF Free, Making
  <2>3. Linked(c, t)'
    BY <1>3, <2>1, <2>2 DEF Linked
  <2>4. c \in DOMAIN owner' /\ t \in DOMAIN owner' /\ status'[t] # "none"
    BY <1>1, <1>2, <1>3, <2>1
  <2> QED BY <1>8, <2>3, <2>4 DEF InOrder
<1>7. me.at # "created" /\ Free(me.channel)
  BY <1>8, <1>5
<1> QED BY <1>1, <1>8, <1>6, <1>7, OneGoesOn, NothingElse

(***************************************************************************)
(* A handler that has a ticket has a channel of its own for it.            *)
(***************************************************************************)
LEMMA AtWork ==
  ASSUME TInv, NEW h \in Handlers, handler[h].at \notin {"idle", "create", "created"}
  PROVE  /\ handler[h].channel \in DOMAIN owner /\ handler[h].ticket \in DOMAIN owner
         /\ DOMAIN owner \subseteq Channels
         /\ status[handler[h].ticket] \in {"open", "closed"}
         /\ handler[h].at = "tidy" => status[handler[h].ticket] = "closed"
         /\ Linked(handler[h].channel, handler[h].ticket) /\ Free(handler[h].channel)
<1>1. DOMAIN owner \subseteq Channels
  BY BoundsAssumption DEF TInv, TypeOK, Channels
<1>2. InOrder(handler[h])
  BY DEF TInv, HandlersAreInOrder
<1>3. status[handler[h].ticket] \in {"open", "closed"}
  BY <1>1, <1>2 DEF InOrder, TInv, TypeOK
<1>4. Free(handler[h].channel)
  <2> SUFFICES ASSUME NEW g \in Handlers, Making(g, handler[h].channel) PROVE FALSE
    BY DEF Free
  <2>1. ChannelIsNew(g, handler[g].channel) /\ g # h
    BY DEF Making, TInv, MadeAreNew
  <2> QED BY <2>1 DEF ChannelIsNew, Making
<1> QED BY <1>1, <1>2, <1>3, <1>4 DEF InOrder

(***************************************************************************)
(* A deletion of channel c, which no handler has just made.                *)
(***************************************************************************)
LEMMA DeletedNarrows ==
  ASSUME TInv, NEW c \in DOMAIN owner, Deleted(c), Free(c), UNCHANGED owner,
         status[c] # "open" \/ c \in failed',
         timers' \subseteq timers, unswept' \subseteq unswept
  PROVE  /\ DiscordNarrows
         /\ channels' \subseteq channels /\ refused' \subseteq 1 .. Len(owner)
         /\ button' \in [Channels -> 0 .. Len(owner)]
<1>1. DOMAIN owner = 1 .. Len(owner) /\ DOMAIN owner \subseteq Channels /\ Len(owner) \in Nat
  BY BoundsAssumption DEF TInv, TypeOK, Channels
<1>2. /\ button \in [Channels -> 0 .. Len(owner)] /\ refused \subseteq 1 .. Len(owner)
  BY DEF TInv, TypeOK
<1>3. button' = button \/ button' = [button EXCEPT ![c] = 0]
  BY DEF Deleted
<1>4. button' \in [Channels -> 0 .. Len(owner)]
  BY <1>1, <1>2, <1>3
<1>5. \A d \in Channels : button'[d] \in {button[d], 0}
  BY <1>1, <1>2, <1>3
<1>6. channels' \subseteq channels /\ channels \ channels' \subseteq {c}
  BY DEF Deleted
<1>7. refused' \subseteq 1 .. Len(owner)
  BY <1>1, <1>2 DEF Deleted
<1> QED BY <1>4, <1>5, <1>6, <1>7 DEF DiscordNarrows

-----------------------------------------------------------------------------
(***************************************************************************)
(* The steps that leave the store alone.                                   *)
(***************************************************************************)
LEMMA SameStore ==
  ASSUME UNCHANGED <<owner, storeVars, doubled>>, failed \subseteq failed',
         \A c \in failed' \ failed : Free(c)
  PROVE  StoreNarrows
BY DEF StoreNarrows, storeVars

(***************************************************************************)
(* A set-up that fails deletes the channel, and the ticket is remembered   *)
(* as one whose set-up failed.                                             *)
(***************************************************************************)
LEMMA SetupFailsKeeps ==
  ASSUME TInv, NEW h \in Handlers, SetupFails(h) PROVE TInv'
<1> DEFINE c == handler[h].channel
<1>1. handler[h].at \notin {"idle", "create", "created"}
  BY DEF SetupFails, Goes
<1>2. c \in DOMAIN owner /\ Free(c)
  BY <1>1, AtWork
<1>3. HandlersGoOn /\ handler' \in [Handlers -> Handler]
  BY GoesToIdle DEF SetupFails
<1>4. Deleted(c) /\ failed' = failed \cup {c}
      /\ UNCHANGED <<owner, storeVars, timers, sweepVars, doubled>>
  BY DEF SetupFails
<1> HIDE DEF c
<1>5. UNCHANGED <<owner, status, archived, timers, sweep, unswept, restarts, doubled>>
  BY <1>4 DEF storeVars, sweepVars
<1>6. /\ DiscordNarrows
      /\ channels' \subseteq channels /\ refused' \subseteq 1 .. Len(owner)
      /\ button' \in [Channels -> 0 .. Len(owner)]
  BY <1>2, <1>4, <1>5, DeletedNarrows
<1>7. TypeOK'
  <2>1. c \in 1 .. Len(owner) /\ failed' = failed \cup {c}
    BY <1>2, <1>4 DEF TInv, TypeOK
  <2>2. failed' \subseteq 1 .. Len(owner)
    BY <2>1 DEF TInv, TypeOK
  <2> QED BY <1>3, <1>5, <1>6, <2>2 DEF TInv, TypeOK
<1>8. StoreNarrows
  BY <1>2, <1>4, SameStore
<1> QED BY <1>3, <1>6, <1>7, <1>8, NarrowStep

(***************************************************************************)
(* The button names the ticket that the handler was given.                 *)
(***************************************************************************)
LEMMA SendButtonKeeps ==
  ASSUME TInv, NEW h \in Handlers, SendButton(h) PROVE TInv'
<1> DEFINE c == handler[h].channel
           t == handler[h].ticket
<1>1. /\ c \in DOMAIN owner /\ t \in DOMAIN owner /\ DOMAIN owner \subseteq Channels
      /\ status[t] \in {"open", "closed"}
      /\ Linked(c, t) /\ Free(c)
  BY AtWork DEF SendButton, Goes
<1>2. button' = [button EXCEPT ![c] = t]
      /\ UNCHANGED <<owner, channels, storeVars, timers, sweepVars, history>>
  BY DEF SendButton, TicketId
<1>3. UNCHANGED <<owner, channels, status, archived, timers, sweep, unswept, restarts,
                  doubled, failed, refused>>
  BY <1>2 DEF storeVars, sweepVars, history
<1>4. HandlersGoOn /\ handler' \in [Handlers -> Handler]
  <2>1. Goes(h, "send", "reply")
    BY DEF SendButton
  <2> QED BY <1>1, <1>3, <2>1, GoesOnWith
<1> HIDE DEF c, t
<1>5. button' \in [Channels -> 0 .. Len(owner)]
  BY <1>1, <1>2 DEF TInv, TypeOK
<1>6. TypeOK'
  BY <1>3, <1>4, <1>5 DEF TInv, TypeOK
<1>7. \A d \in Channels :
        \/ button'[d] = button[d]
        \/ d = c /\ button'[d] = t
  BY <1>2 DEF TInv, TypeOK
<1>8. DiscordNarrows
  BY <1>1, <1>3, <1>7 DEF DiscordNarrows
<1>9. StoreNarrows
  BY <1>3, SameStore DEF storeVars
<1> QED BY <1>4, <1>6, <1>8, <1>9, NarrowStep

(***************************************************************************)
(* A transcript that is not saved closes nothing.                          *)
(***************************************************************************)
LEMMA ArchiveFailsKeeps ==
  ASSUME TInv, NEW h \in Handlers, ArchiveFails(h) PROVE TInv'
<1>1. HandlersGoOn /\ handler' \in [Handlers -> Handler]
  BY GoesToIdle DEF ArchiveFails
<1>2. UNCHANGED <<discordVars, storeVars, timers, sweepVars, history>>
  BY DEF ArchiveFails, NotClosed, storeVars
<1> QED BY <1>1, <1>2, NothingElse

(***************************************************************************)
(* What follows a closed ticket, done or failed: its channel has no open   *)
(* ticket.                                                                 *)
(***************************************************************************)
LEMMA TidyKeeps ==
  ASSUME TInv, NEW h \in Handlers, Tidy(h) \/ TidyFails(h) PROVE TInv'
<1> DEFINE c == handler[h].channel
<1>1. /\ c \in DOMAIN owner /\ DOMAIN owner \subseteq Channels
      /\ Free(c) /\ status[c] # "open"
  <2>1. handler[h].at = "tidy"
    BY DEF Tidy, TidyFails, Goes
  <2>2. status[handler[h].ticket] = "closed" /\ Linked(c, handler[h].ticket)
    BY <2>1, AtWork
  <2>3. status[c] # "open"
    BY <2>2 DEF Linked
  <2> QED BY <2>1, <2>3, AtWork
<1>2. HandlersGoOn /\ handler' \in [Handlers -> Handler]
  BY GoesToIdle DEF Tidy, TidyFails
<1>3. /\ button' = button \/ button' = [button EXCEPT ![c] = 0]
      /\ timers \subseteq timers' /\ timers' \subseteq timers \cup {c}
      /\ refused' \subseteq refused \cup {c}
      /\ UNCHANGED <<owner, channels, status, archived, sweep, unswept, restarts,
                     doubled, failed>>
  BY DEF Tidy, TidyFails, storeVars, sweepVars, history
<1> HIDE DEF c
<1>4. button' \in [Channels -> 0 .. Len(owner)]
  BY <1>1, <1>3, BoundsAssumption DEF TInv, TypeOK
<1>5. TypeOK'
  BY <1>1, <1>2, <1>3, <1>4 DEF TInv, TypeOK
<1>6. \A d \in Channels : button'[d] \in {button[d], 0}
  BY <1>1, <1>3 DEF TInv, TypeOK
<1>7. DiscordNarrows
  BY <1>1, <1>3, <1>6 DEF DiscordNarrows
<1>8. StoreNarrows
  BY <1>3, SameStore DEF storeVars
<1> QED BY <1>2, <1>5, <1>7, <1>8, NarrowStep

(***************************************************************************)
(* A timer deletes the channel of no open ticket.                          *)
(***************************************************************************)
LEMMA TimerFiresKeeps ==
  ASSUME TInv, NEW c \in timers, TimerFires(c) PROVE TInv'
<1>1. c \in DOMAIN owner /\ DOMAIN owner \subseteq Channels
  BY BoundsAssumption DEF TInv, TypeOK, Channels
<1>2. Free(c)
  BY DEF Free, Making, TInv, MadeAreNew, ChannelIsNew
<1>3. status[c] # "open"
  BY DEF TInv, OpenIsLeftAlone
<1>4. Deleted(c) /\ timers' = timers \ {c}
      /\ UNCHANGED <<owner, status, archived, handler, sweep, unswept, restarts,
                     doubled, failed>>
  BY DEF TimerFires, storeVars, sweepVars
<1>5. /\ DiscordNarrows
      /\ channels' \subseteq channels /\ refused' \subseteq 1 .. Len(owner)
      /\ button' \in [Channels -> 0 .. Len(owner)]
  BY <1>1, <1>2, <1>3, <1>4, DeletedNarrows
<1>6. TypeOK'
  BY <1>4, <1>5 DEF TInv, TypeOK
<1>7. StoreNarrows /\ HandlersGoOn
  BY <1>4, SameStore DEF storeVars, HandlersGoOn
<1> QED BY <1>5, <1>6, <1>7, NarrowStep

(***************************************************************************)
(* A restart forgets handlers and timers only.                             *)
(***************************************************************************)
LEMMA RestartKeeps == ASSUME TInv, Restart PROVE TInv'
<1>1. UNCHANGED <<owner, channels, button, status, archived, doubled, failed, refused>>
  BY DEF Restart, discordVars, storeVars, history
<1>2. /\ timers' = {} /\ unswept' = {} /\ sweep' = "due"
      /\ restarts' = restarts + 1 /\ restarts < maxRestarts
      /\ handler' = [h \in Handlers |-> Idle]
  BY DEF Restart
<1>3. HandlersGoOn /\ handler' \in [Handlers -> Handler]
  BY <1>2, IdleIsHandler DEF HandlersGoOn
<1>4. restarts' \in 0 .. maxRestarts
  BY <1>2, BoundsAssumption DEF TInv, TypeOK
<1>5. TypeOK'
  BY <1>1, <1>2, <1>3, <1>4 DEF TInv, TypeOK
<1>6. StoreNarrows /\ DiscordNarrows
  BY <1>1, <1>2, SameStore DEF storeVars, DiscordNarrows
<1> QED BY <1>3, <1>5, <1>6, NarrowStep

(***************************************************************************)
(* start deletes the channels of closed tickets.                           *)
(***************************************************************************)
LEMMA SweepingKeeps == ASSUME TInv, Sweeping PROVE TInv'
<1>1. DOMAIN owner \subseteq Channels /\ DOMAIN owner = 1 .. Len(owner)
  BY BoundsAssumption DEF TInv, TypeOK, Channels
<1>2. CASE ReconcileClosedTickets
  <2>1. /\ UNCHANGED <<owner, channels, button, status, archived, handler, timers,
                       restarts, doubled, failed, refused>>
        /\ sweep' = "begun" /\ unswept' = ToSweep
    BY <1>2 DEF ReconcileClosedTickets, discordVars, storeVars, history
  <2>2. unswept' \subseteq 1 .. Len(owner) /\ \A t \in unswept' : status[t] = "closed"
    BY <1>1, <2>1 DEF TInv, TicketsHaveOwners, ToSweep
  <2>3. TypeOK'
    BY <2>1, <2>2 DEF TInv, TypeOK
  <2>4. StoreNarrows /\ HandlersGoOn
    BY <2>1, SameStore DEF storeVars, HandlersGoOn
  <2>5. DiscordNarrows
    BY <2>1, <2>2 DEF DiscordNarrows
  <2> QED BY <2>3, <2>4, <2>5, NarrowStep
<1>3. CASE SweepNext
  <2>1. PICK t \in unswept :
          /\ unswept' = unswept \ {t}
          /\ Deleted(t) \/ UNCHANGED <<channels, button, refused>>
    BY <1>3 DEF SweepNext
  <2>2. UNCHANGED <<owner, status, archived, handler, timers, sweep, restarts,
                    doubled, failed>>
    BY <1>3 DEF SweepNext, storeVars
  <2>3. t \in DOMAIN owner /\ status[t] = "closed"
    BY <1>1 DEF TInv, TypeOK, OpenIsLeftAlone
  <2>4. Free(t)
    BY <2>3 DEF Free, Making, TInv, MadeAreNew, ChannelIsNew
  <2>5. /\ DiscordNarrows
        /\ channels' \subseteq channels /\ refused' \subseteq 1 .. Len(owner)
        /\ button' \in [Channels -> 0 .. Len(owner)]
    <3>1. CASE Deleted(t)
      BY <2>1, <2>2, <2>3, <2>4, <3>1, DeletedNarrows
    <3>2. CASE UNCHANGED <<channels, button, refused>>
      BY <2>1, <2>2, <3>2 DEF DiscordNarrows, TInv, TypeOK
    <3> QED BY <2>1, <3>1, <3>2
  <2>6. TypeOK'
    BY <2>1, <2>2, <2>5 DEF TInv, TypeOK
  <2>7. StoreNarrows /\ HandlersGoOn
    BY <2>2, SameStore DEF storeVars, HandlersGoOn
  <2> QED BY <2>5, <2>6, <2>7, NarrowStep
<1> QED BY <1>2, <1>3 DEF Sweeping

-----------------------------------------------------------------------------
(***************************************************************************)
(* archiveTicket.                                                          *)
(***************************************************************************)
LEMMA ArchiveTicketKeeps ==
  ASSUME TInv, NEW h \in Handlers, ArchiveTicket(h) PROVE TInv'
<1> DEFINE c == handler[h].channel
           t == handler[h].ticket
<1>1. /\ c \in DOMAIN owner /\ t \in DOMAIN owner /\ DOMAIN owner \subseteq Channels
      /\ status[t] \in {"open", "closed"}
      /\ Linked(c, t) /\ Free(c)
  BY AtWork DEF ArchiveTicket, Goes
<1>2. /\ archived' = [archived EXCEPT ![t] = c]
      /\ status' = [status EXCEPT ![t] = "closed"]
      /\ UNCHANGED <<owner, channels, button, timers, sweep, unswept, restarts,
                     doubled, failed, refused>>
  BY DEF ArchiveTicket, Closed, discordVars, sweepVars, history
<1>3. /\ status'[t] = "closed" /\ \A u \in Channels \ {t} : status'[u] = status[u]
      /\ archived'[t] = c /\ \A u \in Channels \ {t} : archived'[u] = archived[u]
  BY <1>1, <1>2 DEF TInv, TypeOK
<1>4. HandlersGoOn /\ handler' \in [Handlers -> Handler]
  <2>1. Goes(h, "archive", "tidy")
    BY DEF ArchiveTicket
  <2> QED BY <1>1, <1>2, <1>3, <2>1, GoesOnWith
<1> HIDE DEF c, t
<1>5. /\ status' \in [Channels -> {"none", "open", "closed"}]
      /\ archived' \in [Channels -> 0 .. Len(owner)]
  BY <1>1, <1>2 DEF TInv, TypeOK
<1>6. TypeOK'
  BY <1>2, <1>4, <1>5 DEF TInv, TypeOK
<1>7. archived'[t] = t \/ owner[t] \in doubled
  BY <1>1, <1>3 DEF Linked
<1>8. StoreNarrows
  BY <1>1, <1>2, <1>3, <1>7 DEF StoreNarrows
<1>9. DiscordNarrows
  BY <1>2 DEF DiscordNarrows
<1> QED BY <1>4, <1>6, <1>8, <1>9, NarrowStep

-----------------------------------------------------------------------------
(***************************************************************************)
(* A new channel has no ticket and nobody knows it yet.                    *)
(***************************************************************************)
LEMMA ChannelCreatedKeeps ==
  ASSUME TInv, NEW h \in Handlers, ChannelCreated(h) PROVE TInv'
<1>0. PICK n \in Nat : n = Len(owner) + 1
  BY DEF TInv, TypeOK
<1>1. /\ handler[h].at = "create" /\ n <= maxChannels
      /\ owner' = Append(owner, handler[h].member)
      /\ channels' = channels \cup {n}
      /\ handler' = [handler EXCEPT ![h].at = "created", ![h].channel = n]
      /\ UNCHANGED <<button, status, archived, timers, sweep, unswept, restarts,
                     doubled, failed, refused>>
  BY <1>0 DEF ChannelCreated, storeVars, sweepVars, history
<1>2. handler[h].member \in Members /\ handler[h] \in Handler
  BY <1>1 DEF TInv, TypeOK, HandlersAreInOrder, InOrder
<1>3. PICK me \in Handler : me = [handler[h] EXCEPT !.at = "created", !.channel = n]
  <2>1. n \in 0 .. maxChannels /\ handler[h] \in Handler
    BY <1>0, <1>1, <1>2, BoundsAssumption
  <2> QED BY <2>1 DEF Handler
<1>4. /\ me.at = "created" /\ me.channel = n /\ me.member = handler[h].member
      /\ handler' = [handler EXCEPT ![h] = me]
      /\ handler'[h] = me /\ \A g \in Handlers \ {h} : handler'[g] = handler[g]
  BY <1>1, <1>2, <1>3 DEF TInv, TypeOK, Handler
<1>5. /\ owner' \in Seq(Members) /\ Len(owner') = n /\ owner'[n] = handler[h].member
      /\ DOMAIN owner' = DOMAIN owner \cup {n} /\ n \notin DOMAIN owner
      /\ \A c \in DOMAIN owner : owner'[c] = owner[c]
      /\ DOMAIN owner = 1 .. Len(owner) /\ Len(owner) \in Nat
  BY <1>0, <1>1, <1>2 DEF TInv, TypeOK
<1>6. n \in Channels /\ DOMAIN owner \subseteq Channels
  BY <1>0, <1>1, <1>5, BoundsAssumption DEF TInv, TypeOK, Channels
<1>7. /\ button[n] = 0 /\ status[n] = "none"
      /\ n \notin timers /\ n \notin failed /\ n \notin unswept
  BY <1>5, <1>6 DEF TInv, TypeOK, ButtonsNameTickets, TicketsHaveOwners
<1>8. \A g \in Handlers : handler[g].channel # n
  <2> SUFFICES ASSUME NEW g \in Handlers PROVE handler[g].channel # n
    OBVIOUS
  <2>1. handler[g].channel = 0 \/ handler[g].channel \in DOMAIN owner
    BY DEF TInv, HandlersAreInOrder, InOrder, Idle
  <2> QED BY <1>0, <1>5, <2>1
<1>9. ASSUME NEW c \in DOMAIN owner, NEW t \in DOMAIN owner, Linked(c, t)
      PROVE  Linked(c, t)'
  <2>1. \A g \in Handlers : Making(g, c)' => Making(g, c)
    BY <1>4, <1>5 DEF Making
  <2> QED BY <1>1, <1>5, <1>9, <2>1 DEF Linked
<1>10. TypeOK'
  <2>1. \A S : S \subseteq 1 .. Len(owner) => S \subseteq 1 .. n
    BY <1>0, <1>5
  <2>2. channels' \subseteq 1 .. n
    BY <1>0, <1>1, <2>1 DEF TInv, TypeOK
  <2>3. handler' \in [Handlers -> Handler]
    BY <1>3, <1>4 DEF TInv, TypeOK
  <2>4. button' \in [Channels -> 0 .. n] /\ archived' \in [Channels -> 0 .. n]
    BY <1>0, <1>1, <1>5 DEF TInv, TypeOK
  <2> QED BY <1>1, <1>5, <2>1, <2>2, <2>3, <2>4 DEF TInv, TypeOK
<1>11. HandlersAreInOrder'
  <2> SUFFICES ASSUME NEW g \in Handlers PROVE InOrder(handler[g])'
    BY DEF HandlersAreInOrder
  <2>1. CASE g = h
    BY <1>4, <1>5, <2>1 DEF InOrder
  <2>2. CASE g # h
    <3>1. InOrder(handler[g]) /\ handler'[g] = handler[g]
      BY <1>4, <2>2 DEF TInv, HandlersAreInOrder
    <3>2. handler[g].at \notin {"idle", "create", "created"} =>
            Linked(handler[g].channel, handler[g].ticket)'
      <4> SUFFICES ASSUME handler[g].at \notin {"idle", "create", "created"}
                   PROVE  Linked(handler[g].channel, handler[g].ticket)'
        OBVIOUS
      <4>1. PICK c \in DOMAIN owner, t \in DOMAIN owner :
              c = handler[g].channel /\ t = handler[g].ticket
        BY <3>1 DEF InOrder
      <4>2. Linked(c, t)'
        BY <1>9, <3>1, <4>1 DEF InOrder
      <4> QED BY <3>1, <4>1, <4>2
    <3> QED BY <1>1, <1>5, <3>1, <3>2 DEF InOrder, Idle
  <2> QED BY <2>1, <2>2
<1>12. MadeAreNew'
  <2> SUFFICES ASSUME NEW g \in Handlers, handler'[g].at = "created"
               PROVE  ChannelIsNew(g, handler[g].channel)'
    BY DEF MadeAreNew
  <2>1. CASE g = h
    BY <1>1, <1>4, <1>5, <1>7, <1>8, <2>1 DEF ChannelIsNew
  <2>2. CASE g # h
    <3>1. handler'[g] = handler[g] /\ ChannelIsNew(g, handler[g].channel)
      BY <1>4, <2>2 DEF TInv, MadeAreNew
    <3>2. handler[g].channel \in DOMAIN owner
      BY <2>2, <3>1 DEF TInv, HandlersAreInOrder, InOrder
    <3>3. PICK c \in DOMAIN owner : c = handler[g].channel BY <3>2
    <3>4. ChannelIsNew(g, c)' BY <1>1, <1>4, <1>5, <2>2, <3>1, <3>3 DEF ChannelIsNew
    <3> QED BY <3>1, <3>3, <3>4
  <2> QED BY <2>1, <2>2
<1>13. ButtonsNameTickets'
  <2> SUFFICES ASSUME NEW c \in Channels, button[c] # 0
               PROVE  /\ c \in DOMAIN owner' /\ button[c] \in DOMAIN owner'
                      /\ status[button[c]] # "none"
                      /\ Linked(c, button[c])'
    BY <1>1 DEF ButtonsNameTickets
  <2>1. /\ c \in DOMAIN owner /\ status[button[c]] # "none"
        /\ button[c] \in DOMAIN owner /\ Linked(c, button[c])
    BY DEF TInv, ButtonsNameTickets
  <2>2. PICK t \in DOMAIN owner : t = button[c]
    BY <2>1
  <2>3. Linked(c, t)'
    BY <1>9, <2>1, <2>2
  <2> QED BY <1>1, <1>5, <2>1, <2>2, <2>3
<1>14. TicketsHaveOwners' /\ OneOpenTicket'
  BY <1>1, <1>5, <1>7 DEF TInv, TicketsHaveOwners, OneOpenTicket
<1>15. OpenIsLeftAlone' /\ OpenTicketHasItsChannel'
  BY <1>1 DEF TInv, OpenIsLeftAlone, OpenTicketHasItsChannel
<1>16. TranscriptIsOwn'
  BY <1>1, <1>5 DEF TInv, TranscriptIsOwn, TicketsHaveOwners
<1> QED BY <1>10, <1>11, <1>12, <1>13, <1>14, <1>15, <1>16 DEF TInv

(***************************************************************************)
(* createTicket, whichever answer the store gives: status is as it was     *)
(* everywhere else, and what was linked stays linked.                      *)
(***************************************************************************)
LEMMA CreateTicketKeeps ==
  ASSUME TInv, NEW h \in Handlers, CreateTicket(h) PROVE TInv'
<1>1. PICK c \in DOMAIN owner : c = handler[h].channel /\ handler[h].at = "created"
  BY DEF CreateTicket, TInv, HandlersAreInOrder, InOrder
<1>2. ChannelIsNew(h, c) /\ DOMAIN owner \subseteq Channels /\ owner[c] \in Members
  BY <1>1, BoundsAssumption DEF TInv, TypeOK, MadeAreNew, Channels
<1>3. PICK m \in Members : m = handler[h].member /\ m = owner[c]
  BY <1>2 DEF ChannelIsNew
<1>4. PICK t : t = IF Existing(m) = {} THEN c ELSE CHOOSE u \in Existing(m) : TRUE
  OBVIOUS
<1>5. \/ t = c /\ OpenTicketsOf(m) = {}
      \/ t # c /\ t \in OpenTicketsOf(m)
  <2>1. c \notin OpenTicketsOf(m)
    BY <1>2 DEF ChannelIsNew, OpenTicketsOf
  <2> QED BY <1>4, <2>1 DEF Existing
<1>6. t \in DOMAIN owner /\ owner[t] = m
  BY <1>3, <1>5 DEF OpenTicketsOf
<1>7. /\ handler' = [handler EXCEPT ![h].at = "send", ![h].ticket = t]
      /\ status' = [status EXCEPT ![t] = "open"]
      /\ doubled' = IF t = c THEN doubled ELSE doubled \cup {m}
      /\ UNCHANGED <<owner, channels, button, archived, timers, sweep, unswept,
                     restarts, failed, refused>>
  BY <1>1, <1>3, <1>4 DEF CreateTicket, discordVars, sweepVars
<1>8. handler[h] \in Handler /\ DOMAIN owner \subseteq 0 .. maxChannels
  BY BoundsAssumption DEF TInv, TypeOK
<1>9. PICK me \in Handler : me = [handler[h] EXCEPT !.at = "send", !.ticket = t]
  BY <1>6, <1>8 DEF Handler
<1>10. /\ me.at = "send" /\ me.ticket = t /\ me.channel = c
       /\ handler'[h] = me /\ \A g \in Handlers \ {h} : handler'[g] = handler[g]
       /\ handler' \in [Handlers -> Handler]
  BY <1>1, <1>7, <1>8, <1>9 DEF TInv, TypeOK, Handler
<1>11. /\ status'[t] = "open" /\ \A u \in Channels \ {t} : status'[u] = status[u]
       /\ status' \in [Channels -> {"none", "open", "closed"}]
  BY <1>2, <1>6, <1>7 DEF TInv, TypeOK
<1>12. t # c => status[t] = "open" /\ m \in doubled'
  BY <1>5, <1>7 DEF OpenTicketsOf
<1>13. \A u \in Channels : status[u] # "none" => status'[u] = status[u]
  BY <1>2, <1>11, <1>12 DEF ChannelIsNew
<1>14. doubled \subseteq doubled'
  BY <1>7
<1>15. \A d : \A g \in Handlers : Making(g, d)' => g # h /\ d # c /\ Making(g, d)
  BY <1>2, <1>10 DEF Making, ChannelIsNew
<1>16. ASSUME NEW d \in DOMAIN owner, NEW u \in DOMAIN owner, Linked(d, u)
       PROVE  Linked(d, u)'
  <2>1. d # u => status[d] = "none" /\ d # c
    BY <1>1, <1>16 DEF Linked, Making
  <2>2. d # u => status'[d] = "none"
    BY <1>2, <1>11, <1>12, <2>1
  <2> QED BY <1>7, <1>14, <1>15, <1>16, <2>2 DEF Linked
<1>17. Linked(c, t)'
  <2>1. t # c => status'[c] = "none"
    BY <1>2, <1>11 DEF ChannelIsNew
  <2> QED BY <1>3, <1>6, <1>7, <1>12, <1>15, <2>1 DEF Linked
<1>18. TypeOK'
  <2>1. doubled' \subseteq Members
    BY <1>7 DEF TInv, TypeOK
  <2> QED BY <1>7, <1>10, <1>11, <2>1 DEF TInv, TypeOK
<1>19. HandlersAreInOrder'
  <2> SUFFICES ASSUME NEW g \in Handlers PROVE InOrder(handler[g])'
    BY DEF HandlersAreInOrder
  <2>1. CASE g = h
    <3>1. c \in DOMAIN owner' /\ t \in DOMAIN owner' /\ status'[t] # "none"
      BY <1>6, <1>7, <1>11
    <3>2. InOrder(me)'
      BY <1>10, <1>17, <3>1 DEF InOrder
    <3> QED BY <1>10, <2>1, <3>2 DEF InOrder
  <2>2. CASE g # h
    <3>1. InOrder(handler[g]) /\ handler'[g] = handler[g]
      BY <1>10, <2>2 DEF TInv, HandlersAreInOrder
    <3>2. handler[g].at \notin {"idle", "create", "created"} =>
            /\ status'[handler[g].ticket] = status[handler[g].ticket]
            /\ Linked(handler[g].channel, handler[g].ticket)'
      <4> SUFFICES ASSUME handler[g].at \notin {"idle", "create", "created"}
                   PROVE  /\ status'[handler[g].ticket] = status[handler[g].ticket]
                          /\ Linked(handler[g].channel, handler[g].ticket)'
        OBVIOUS
      <4>1. PICK d \in DOMAIN owner, u \in DOMAIN owner :
              d = handler[g].channel /\ u = handler[g].ticket
        BY <3>1 DEF InOrder
      <4>2. Linked(d, u)' /\ status[u] # "none"
        BY <1>16, <3>1, <4>1 DEF InOrder
      <4>3. status'[u] = status[u]
        BY <1>2, <1>13, <4>2
      <4> QED BY <3>1, <4>1, <4>2, <4>3
    <3>3. handler[g].at = "tidy" => status'[handler[g].ticket] = "closed"
      BY <3>1, <3>2 DEF InOrder
    <3> QED BY <1>7, <3>1, <3>2, <3>3 DEF InOrder, Idle
  <2> QED BY <2>1, <2>2
<1>20. MadeAreNew'
  <2> SUFFICES ASSUME NEW g \in Handlers, handler'[g].at = "created"
               PROVE  ChannelIsNew(g, handler[g].channel)'
    BY DEF MadeAreNew
  <2>1. g # h /\ handler'[g] = handler[g]
    BY <1>10
  <2>2. PICK d \in DOMAIN owner : d = handler[g].channel
    BY <2>1 DEF TInv, HandlersAreInOrder, InOrder
  <2>3. ChannelIsNew(g, d) /\ d # c
    BY <1>2, <2>1, <2>2 DEF TInv, MadeAreNew, ChannelIsNew
  <2>4. status'[d] = "none"
    BY <1>2, <1>11, <1>12, <2>2, <2>3 DEF ChannelIsNew
  <2>5. \A f \in Handlers \ {g} : handler'[f].channel # d
    BY <1>10, <2>3 DEF ChannelIsNew
  <2>6. /\ owner'[d] = handler'[g].member
        /\ d \in channels' /\ button'[d] = 0 /\ d \notin timers' /\ d \notin failed'
    BY <1>7, <2>1, <2>3 DEF ChannelIsNew
  <2>7. d = handler'[g].channel
    BY <2>1, <2>2
  <2> QED BY <2>4, <2>5, <2>6, <2>7 DEF ChannelIsNew
<1>21. ButtonsNameTickets'
  <2> SUFFICES ASSUME NEW d \in Channels, button[d] # 0
               PROVE  /\ d \in DOMAIN owner /\ button[d] \in DOMAIN owner
                      /\ status'[button[d]] # "none"
                      /\ Linked(d, button[d])'
    BY <1>7 DEF ButtonsNameTickets
  <2>1. /\ d \in DOMAIN owner /\ status[button[d]] # "none"
        /\ button[d] \in DOMAIN owner /\ Linked(d, button[d])
    BY DEF TInv, ButtonsNameTickets
  <2>2. PICK u \in DOMAIN owner : u = button[d]
    BY <2>1
  <2>3. Linked(d, u)' /\ status'[u] # "none"
    BY <1>2, <1>13, <1>16, <2>1, <2>2
  <2> QED BY <1>7, <2>1, <2>2, <2>3
<1>22. TicketsHaveOwners'
  BY <1>6, <1>7, <1>11 DEF TInv, TicketsHaveOwners
<1>23. OneOpenTicket'
  <2> SUFFICES ASSUME NEW u \in DOMAIN owner, NEW v \in DOMAIN owner,
                      status'[u] = "open", status'[v] = "open", owner[u] = owner[v]
               PROVE  u = v
    BY <1>7 DEF OneOpenTicket
  <2>1. CASE t = c
    <3>1. \A w \in DOMAIN owner : w # c /\ status'[w] = "open" => owner[w] # m
      BY <1>2, <1>5, <1>11, <2>1 DEF OpenTicketsOf
    <3>2. u = c <=> v = c
      BY <1>3, <3>1
    <3> QED BY <1>2, <1>11, <2>1, <3>2 DEF TInv, OneOpenTicket
  <2>2. CASE t # c
    BY <1>2, <1>11, <1>12, <2>2 DEF TInv, OneOpenTicket
  <2> QED BY <2>1, <2>2
<1>24. OpenIsLeftAlone'
  <2>1. timers \subseteq Channels /\ unswept \subseteq Channels
    BY <1>2, BoundsAssumption DEF TInv, TypeOK, Channels
  <2>2. t \notin timers /\ t \notin unswept
    BY <1>2, <1>5, <1>12 DEF TInv, OpenIsLeftAlone, ChannelIsNew
  <2> QED BY <1>7, <1>11, <2>1, <2>2 DEF TInv, OpenIsLeftAlone
<1>25. OpenTicketHasItsChannel'
  <2>1. t \in channels \/ t \in failed
    BY <1>2, <1>5, <1>6, <1>12 DEF TInv, OpenTicketHasItsChannel, ChannelIsNew
  <2> QED BY <1>7, <1>11, <2>1 DEF TInv, OpenTicketHasItsChannel
<1>26. TranscriptIsOwn'
  BY <1>7, <1>11, <1>14 DEF TInv, TranscriptIsOwn
<1> QED BY <1>18, <1>19, <1>20, <1>21, <1>22, <1>23, <1>24, <1>25, <1>26 DEF TInv

-----------------------------------------------------------------------------
(***************************************************************************)
(* At first there are no channels.                                         *)
(***************************************************************************)
LEMMA TicketInitial == Init => TInv
<1> SUFFICES ASSUME Init PROVE TInv
  OBVIOUS
<1>1. owner = <<>> /\ DOMAIN owner = {} /\ Len(owner) = 0
  BY DEF Init
<1>2. TypeOK
  BY <1>1, IdleIsHandler, BoundsAssumption DEF Init, TypeOK
<1>3. HandlersAreInOrder /\ MadeAreNew
  BY DEF Init, HandlersAreInOrder, InOrder, MadeAreNew, Idle
<1>4. /\ ButtonsNameTickets /\ TicketsHaveOwners /\ OpenIsLeftAlone
      /\ OpenTicketHasItsChannel /\ TranscriptIsOwn
  BY DEF Init, ButtonsNameTickets, TicketsHaveOwners, OpenIsLeftAlone,
         OpenTicketHasItsChannel, TranscriptIsOwn
<1>5. OneOpenTicket
  BY <1>1 DEF OneOpenTicket
<1> QED BY <1>2, <1>3, <1>4, <1>5 DEF TInv

(***************************************************************************)
(* Every step keeps the invariant.                                         *)
(***************************************************************************)
LEMMA TicketStep == TInv /\ [Next]_vars => TInv'
<1> SUFFICES ASSUME TInv, [Next]_vars PROVE TInv'
  OBVIOUS
<1>1. CASE UNCHANGED vars
  <2>1. handler' = handler /\ UNCHANGED <<discordVars, storeVars, timers, sweepVars, history>>
    BY <1>1 DEF vars
  <2>2. HandlersGoOn /\ handler' \in [Handlers -> Handler]
    BY <2>1 DEF HandlersGoOn, TInv, TypeOK
  <2> QED BY <2>1, <2>2, NothingElse
<1>2. ASSUME NEW h \in Handlers, Step(h) PROVE TInv'
  <2>1. CASE CreationFails(h) \/ Reply(h)
    <3>1. HandlersGoOn /\ handler' \in [Handlers -> Handler]
      BY <2>1, GoesToIdle DEF CreationFails, Reply
    <3>2. UNCHANGED <<discordVars, storeVars, timers, sweepVars, history>>
      BY <2>1 DEF CreationFails, Reply
    <3> QED BY <3>1, <3>2, NothingElse
  <2> QED BY <1>2, <2>1, ChannelCreatedKeeps, CreateTicketKeeps, SendButtonKeeps,
             SetupFailsKeeps, ArchiveTicketKeeps, ArchiveFailsKeeps, TidyKeeps DEF Step
<1> QED BY <1>1, <1>2, OpenTicketKeeps, CloseTicketKeeps, TimerFiresKeeps, SweepingKeeps,
           RestartKeeps DEF Next

(***************************************************************************)
(* The invariant holds in every behaviour.                                 *)
(***************************************************************************)
LEMMA TicketInvariance == Spec => []TInv
BY TicketInitial, TicketStep, PTL DEF Spec

(***************************************************************************)
(* However presses, failures and restarts interleave, a member has at most *)
(* one open ticket, and it has its channel unless its set-up failed.       *)
(***************************************************************************)
THEOREM TicketsServed == Spec => []OpenTicketsAreServed
<1>1. TInv => OpenTicketsAreServed
  <2> SUFFICES ASSUME TInv, NEW m \in Members
               PROVE  Cardinality(OpenTicketsOf(m)) <= 1
    BY DEF TInv, OpenTicketsAreServed, OneOpenTicketPerMember
  <2>1. CASE OpenTicketsOf(m) = {}
    BY <2>1, FS_EmptySet
  <2>2. ASSUME NEW t \in OpenTicketsOf(m) PROVE Cardinality(OpenTicketsOf(m)) <= 1
    <3>1. OpenTicketsOf(m) = {t}
      BY DEF OpenTicketsOf, TInv, OneOpenTicket
    <3> QED BY <3>1, FS_Singleton
  <2> QED BY <2>1, <2>2
<1> QED BY <1>1, TicketInvariance, PTL

(***************************************************************************)
(* The transcript that closes a ticket is of the ticket's own channel,     *)
(* unless its owner was given a second one beside it.                      *)
(***************************************************************************)
THEOREM Transcripts == Spec => []TranscriptIsOwn
<1>1. TInv => TranscriptIsOwn
  BY DEF TInv
<1> QED BY <1>1, TicketInvariance, PTL

-----------------------------------------------------------------------------
ItemRecord ==
  [kind : Kinds, user : Members, winner : Members \cup {None},
   status : Undecided \cup {"approved", "rejected", "claimed"}]

Work == {"role", "update", "tell"}

Doing == {"post"} \cup Work

PressRecord ==
  [at : {"idle", "pressed", "react", "answer"} \cup Doing,
   item : Nat, user : Members \cup {None},
   choice : {None, "approved", "rejected", "claimed", "rewarded", "accepted", "refused"}]

CommunityTypeOK ==
  /\ item \in Seq(ItemRecord) /\ Len(item) <= maxItems
  /\ stats \in [Kinds -> Nat]
  /\ coins \in [Members -> Nat]
  /\ lastDailyAt \in [Members -> Nat]
  /\ lastXpAt \in [Members -> Nat]
  /\ messages \in [Members -> Nat]
  /\ buttons \subseteq Items
  /\ staffRole \subseteq Members
  /\ press \in [Handlers -> PressRecord]
  /\ day \in Nat \ {0}
  /\ told \in [1 .. maxItems -> Seq({"approved", "rejected"})]
  /\ givenUp \subseteq Items
  /\ counted \in [Members -> Nat]
  /\ lost \in [Members -> Nat]

(***************************************************************************)
(* What a handler may take for granted about the item it works on.         *)
(***************************************************************************)
Does(g, i) == press[g].at \in Doing /\ press[g].item = i

Posting(i) == \E h \in Handlers : press[h].at = "post" /\ press[h].item = i

Choices(i) == IF item[i].kind = "drop" THEN {"claimed"} ELSE {"approved", "rejected"}

RoleIsSettled(i) ==
  item[i].kind = "application" /\ item[i].status = "approved" =>
    i \in givenUp \/ item[i].user \in staffRole

PressIsInOrder(p) ==
  /\ p.at = "idle" => p = Quiet
  /\ p.at \in {"react", "answer"} => p.item = 0 /\ p.user \in Members
  /\ p.at \in {"pressed"} \cup Doing => p.item \in Items
  /\ p.at = "post" => Open(p.item) /\ p.item \notin buttons
  /\ p.at = "pressed" => p.choice \in Choices(p.item) /\ p.user \in Members /\ ~Posting(p.item)
  /\ p.at \in Work =>
       /\ ~Open(p.item) /\ item[p.item].status = p.choice /\ told[p.item] = <<>>
       /\ p.choice \in Choices(p.item)
  /\ p.at = "role" => item[p.item].kind = "application" /\ p.choice = "approved"
  /\ p.at \in {"update", "tell"} => RoleIsSettled(p.item)
  /\ p.at = "tell" => p.item \notin buttons /\ item[p.item].kind # "drop"

PressesAreInOrder == \A h \in Handlers : PressIsInOrder(press[h])

OneAtWork ==
  \A g, h \in Handlers : press[g].at \in Doing /\ Does(h, press[g].item) => g = h

ItemIsInOrder(i) ==
  /\ told[i] \in {<<>>, <<item[i].status>>}
  /\ Open(i) => told[i] = <<>> /\ item[i].winner = None
  /\ InHand(i) \/ i \in givenUp \/ (i \in buttons <=> Open(i))
  /\ InHand(i) \/ RoleIsSettled(i)

ItemsAreInOrder == \A i \in Items : ItemIsInOrder(i)

NotMadeNotTold == \A i \in 1 .. maxItems : i \notin Items => told[i] = <<>>

(***************************************************************************)
(* What the status page counts, and who has the role.                      *)
(***************************************************************************)
DecidedOf(k) == {i \in Items : item[i].kind = k /\ ~Open(i)}

StatsAreTrue == \A k \in Kinds : stats[k] = Cardinality(DecidedOf(k))

RolesAreTrue ==
  \A m \in staffRole :
    \E i \in Items : item[i].kind = "application" /\ item[i].user = m
                     /\ item[i].status = "approved"

(***************************************************************************)
(* What a member has been paid for.                                        *)
(***************************************************************************)
Wins(m) == {i \in Items : item[i].kind = "drop" /\ item[i].winner = m}

Balance(m, days) ==
  coins[m] = Daily * days + CountCoins * (counted[m] - lost[m] - Unpaid(m))
             + DropCoins * Cardinality(Wins(m))

PaidByTheDay ==
  \A m \in Members :
    /\ lastDailyAt[m] <= day /\ \E days \in 0 .. lastDailyAt[m] : Balance(m, days)
    /\ messages[m] <= lastXpAt[m] /\ lastXpAt[m] <= day

CInv ==
  /\ CommunityTypeOK
  /\ PressesAreInOrder
  /\ OneAtWork
  /\ ItemsAreInOrder
  /\ NotMadeNotTold
  /\ StatsAreTrue
  /\ RolesAreTrue
  /\ PaidByTheDay

-----------------------------------------------------------------------------
(***************************************************************************)
(* Handler h does something about item i, and nothing else.                *)
(***************************************************************************)
Same(i) ==
  item'[i] = item[i] /\ told'[i] = told[i] /\ (i \in buttons' <=> i \in buttons)

Mine(h, i) == \A g \in Handlers \ {h} : ~Does(g, i)

ItemStep(h, i) ==
  /\ DOMAIN item' = DOMAIN item
  /\ \A g \in Handlers \ {h} : press'[g] = press[g]
  /\ press[h].item \in {0, i} /\ press'[h].item \in {0, i} /\ press'[h].at # "post"
  /\ \A j \in Items \ {i} : Same(j)
  /\ item'[i].kind = item[i].kind
  /\ staffRole \subseteq staffRole' /\ givenUp \subseteq givenUp'
  /\ Same(i) \/ Mine(h, i)
  /\ press'[h].at \notin Doing \/ Mine(h, i)

(***************************************************************************)
(* Such a step disturbs no other handler and no other item, and whoever    *)
(* else presses a button of item i is not surprised by it either.          *)
(***************************************************************************)
LEMMA ItemStepKeeps ==
  ASSUME CInv, NEW h \in Handlers, NEW i \in Items, ItemStep(h, i),
         PressIsInOrder(press[h])', ItemIsInOrder(i)',
         told' \in [1 .. maxItems -> Seq({"approved", "rejected"})],
         \A j \in 1 .. maxItems : j \notin Items => told'[j] = told[j]
  PROVE  PressesAreInOrder' /\ OneAtWork' /\ ItemsAreInOrder' /\ NotMadeNotTold'
<1>0. /\ \A g \in Handlers \ {h} : press'[g] = press[g]
      /\ Items' = Items /\ Items \subseteq Nat \ {0}
      /\ staffRole \subseteq staffRole' /\ givenUp \subseteq givenUp'
      /\ \A j \in Items : item'[j].kind = item[j].kind
  <2>1. Items \subseteq Nat \ {0}
    BY DEF Items, CInv, CommunityTypeOK
  <2> QED BY <2>1 DEF ItemStep, Same, Items
<1>1. \A j \in Items : Posting(j)' => Posting(j)
  BY <1>0 DEF ItemStep, Posting
<1>2. PressesAreInOrder'
  <2> SUFFICES ASSUME NEW g \in Handlers \ {h} PROVE PressIsInOrder(press[g])'
    BY DEF PressesAreInOrder
  <2>1. press'[g] = press[g] /\ PressIsInOrder(press[g])
    BY <1>0 DEF CInv, PressesAreInOrder
  <2>2. CASE press[g].at \in {"idle", "react", "answer"}
    BY <2>1, <2>2 DEF PressIsInOrder, Doing, Work, Quiet
  <2>3. CASE press[g].at = "pressed"
    <3>1. PICK j \in Items : j = press[g].item
      BY <2>1, <2>3 DEF PressIsInOrder
    <3>2. press[g].choice \in Choices(j) /\ press[g].user \in Members /\ ~Posting(j)
      BY <2>1, <2>3, <3>1 DEF PressIsInOrder
    <3>3. press[g].choice \in Choices(j)' /\ ~Posting(j)'
      BY <1>0, <1>1, <3>1, <3>2 DEF Choices
    <3> QED BY <1>0, <2>1, <2>3, <3>1, <3>2, <3>3 DEF PressIsInOrder, Doing, Work
  <2>4. CASE press[g].at \in Doing
    <3>1. PICK j \in Items : j = press[g].item
      BY <2>1, <2>4 DEF PressIsInOrder
    <3>2. Same(j)
      BY <2>4, <3>1 DEF ItemStep, Mine, Does
    <3>3. /\ press[g].at = "post" => Open(j) /\ j \notin buttons
          /\ press[g].at \in Work =>
               /\ ~Open(j) /\ item[j].status = press[g].choice /\ told[j] = <<>>
               /\ press[g].choice \in Choices(j)
          /\ press[g].at = "role" => item[j].kind = "application" /\ press[g].choice = "approved"
          /\ press[g].at \in {"update", "tell"} => RoleIsSettled(j)
          /\ press[g].at = "tell" => j \notin buttons /\ item[j].kind # "drop"
      BY <2>1, <3>1 DEF PressIsInOrder
    <3>4. Open(j)' <=> Open(j)
      BY <3>2 DEF Same, Open
    <3>5. RoleIsSettled(j) => RoleIsSettled(j)'
      BY <1>0, <3>2 DEF Same, RoleIsSettled
    <3>6. /\ item'[j] = item[j] /\ told'[j] = told[j] /\ (j \in buttons' <=> j \in buttons)
          /\ Choices(j)' = Choices(j)
      BY <3>2 DEF Same, Choices
    <3> QED BY <1>0, <2>1, <2>4, <3>1, <3>3, <3>4, <3>5, <3>6 DEF PressIsInOrder, Doing, Work
  <2>5. press[g].at \in {"idle", "pressed", "react", "answer"} \cup Doing
    BY DEF CInv, CommunityTypeOK, PressRecord
  <2> QED BY <2>2, <2>3, <2>4, <2>5
<1>3. OneAtWork'
  <2> SUFFICES ASSUME NEW f \in Handlers, NEW g \in Handlers, f # g,
                      press'[f].at \in Doing, press'[g].at \in Doing,
                      press'[f].item = press'[g].item
               PROVE  FALSE
    BY DEF OneAtWork, Does
  <2>1. \A e \in Handlers \ {h} : press'[h].at \in Doing /\ press'[e].at \in Doing =>
          press'[e].item # press'[h].item
    <3> SUFFICES ASSUME NEW e \in Handlers \ {h}, press'[h].at \in Doing, press'[e].at \in Doing,
                        press'[e].item = press'[h].item
                 PROVE  FALSE
      OBVIOUS
    <3>1. press'[e] = press[e] /\ Mine(h, i)
      BY <1>0 DEF ItemStep
    <3>2. press[e].item # i
      BY <3>1 DEF Mine, Does
    <3>3. press'[h].item \in Items
      BY <1>0 DEF PressIsInOrder
    <3> QED BY <1>0, <3>1, <3>2, <3>3 DEF ItemStep
  <2>2. f # h /\ g # h
    BY <2>1
  <2> QED BY <1>0, <2>2 DEF CInv, OneAtWork, Does
<1>4. ItemsAreInOrder'
  <2> SUFFICES ASSUME NEW j \in Items, j # i PROVE ItemIsInOrder(j)'
    BY <1>0 DEF ItemsAreInOrder
  <2>1. Same(j) /\ ItemIsInOrder(j)
    BY DEF ItemStep, CInv, ItemsAreInOrder
  <2>2. Open(j)' <=> Open(j)
    BY <2>1 DEF Same, Open
  <2>3. RoleIsSettled(j) => RoleIsSettled(j)'
    BY <1>0, <2>1 DEF Same, RoleIsSettled
  <2>4. InHand(j) => InHand(j)'
    BY <1>0 DEF ItemStep, InHand
  <2>5. item'[j] = item[j] /\ told'[j] = told[j] /\ (j \in buttons' <=> j \in buttons)
    BY <2>1 DEF Same
  <2> QED BY <1>0, <2>1, <2>2, <2>3, <2>4, <2>5 DEF ItemIsInOrder
<1>5. NotMadeNotTold'
  BY <1>0 DEF CInv, NotMadeNotTold
<1> QED BY <1>2, <1>3, <1>4, <1>5

-----------------------------------------------------------------------------
(***************************************************************************)
(* Where Moves leads.                                                      *)
(***************************************************************************)
LEMMA QuietIsRecord == Quiet \in PressRecord
  BY DEF Quiet, PressRecord

(***************************************************************************)
(* The handler is quiet afterwards, or goes on with its item, its member   *)
(* and its choice.                                                         *)
(***************************************************************************)
LEMMA MovesTo ==
  ASSUME CInv, NEW h \in Handlers, NEW from, NEW to \in {"idle", "answer"} \cup Work,
         Moves(h, from, to)
  PROVE  /\ press' \in [Handlers -> PressRecord]
         /\ press[h].at = from /\ \A g \in Handlers \ {h} : press'[g] = press[g]
         /\ to = "idle" => press'[h] = Quiet
         /\ to # "idle" =>
              /\ press'[h].at = to /\ press'[h].item = press[h].item
              /\ press'[h].user = press[h].user /\ press'[h].choice = press[h].choice
<1>0. press \in [Handlers -> PressRecord] /\ press[h] \in PressRecord
  BY DEF CInv, CommunityTypeOK
<1>1. CASE to = "idle"
  BY <1>0, <1>1, QuietIsRecord DEF Moves
<1>2. CASE to # "idle"
  <2>1. PICK me \in PressRecord : me = [press[h] EXCEPT !.at = to]
    BY <1>0 DEF PressRecord, Doing, Work
  <2>2. /\ me.at = to /\ me.item = press[h].item
        /\ me.user = press[h].user /\ me.choice = press[h].choice
        /\ press' = [press EXCEPT ![h] = me]
    BY <1>0, <1>2, <2>1 DEF Moves, PressRecord
  <2> QED BY <1>0, <1>2, <2>2 DEF Moves
<1> QED BY <1>1, <1>2

(***************************************************************************)
(* The item that a handler works on.                                       *)
(***************************************************************************)
LEMMA WorksOn ==
  ASSUME CInv, NEW h \in Handlers, press[h].at \in {"pressed"} \cup Doing
  PROVE  \E i \in Items : i = press[h].item /\ i \in 1 .. maxItems /\ i \in Nat \ {0}
<1>1. press[h].item \in Items
  BY DEF CInv, PressesAreInOrder, PressIsInOrder
<1>2. Items \subseteq 1 .. maxItems /\ Items \subseteq Nat \ {0}
  BY CommunityAssumption DEF CInv, CommunityTypeOK, Items
<1> QED BY <1>1, <1>2

(***************************************************************************)
(* A handler at work on an item is the only one.                           *)
(***************************************************************************)
LEMMA DoesAlone ==
  ASSUME CInv, NEW h \in Handlers, press[h].at \in Doing
  PROVE  Mine(h, press[h].item)
  BY DEF CInv, OneAtWork, Mine, Does

(***************************************************************************)
(* What changes neither what was decided nor who was paid.                 *)
(***************************************************************************)
LEMMA NothingDecided ==
  ASSUME CInv, UNCHANGED <<item, stats, staffRole>>
  PROVE  StatsAreTrue' /\ RolesAreTrue'
<1>1. \A k : DecidedOf(k)' = DecidedOf(k)
  BY DEF DecidedOf, Items, Open
<1> QED BY <1>1 DEF CInv, StatsAreTrue, RolesAreTrue, Items

PaysNothing == UNCHANGED <<coins, lastDailyAt, lastXpAt, messages, day, counted, lost>>

ReactsNothing ==
  \A h \in Handlers :
    press[h].at = "react" \/ press'[h].at = "react" => press'[h] = press[h]

(***************************************************************************)
(* Where no handler begins or ends a reaction, nobody is owed more or      *)
(* less.                                                                   *)
(***************************************************************************)
LEMMA UnpaidStays ==
  ASSUME ReactsNothing
  PROVE  \A m : Unpaid(m)' = Unpaid(m)
<1> SUFFICES ASSUME NEW m PROVE Unpaid(m)' = Unpaid(m)
  OBVIOUS
<1>1. PICK r : r = [Quiet EXCEPT !.at = "react", !.user = m, !.choice = "rewarded"]
  OBVIOUS
<1>2. r.at = "react"
  BY <1>1 DEF Quiet
<1>3. {h \in Handlers : press'[h] = r} = {h \in Handlers : press[h] = r}
  BY <1>2 DEF ReactsNothing
<1> QED BY <1>1, <1>3 DEF Unpaid

(***************************************************************************)
(* So a step that pays nothing leaves everybody paid.                      *)
(***************************************************************************)
LEMMA NothingPaid ==
  ASSUME CInv, PaysNothing, ReactsNothing, \A m \in Members : Wins(m)' = Wins(m)
  PROVE  PaidByTheDay'
<1>1. \A m : Unpaid(m)' = Unpaid(m)
  BY UnpaidStays
<1>2. \A days : \A m \in Members : Balance(m, days) => Balance(m, days)'
  BY <1>1 DEF PaysNothing, Balance
<1> QED BY <1>2 DEF CInv, PaidByTheDay, PaysNothing

(***************************************************************************)
(* A step of one handler about one item that decides nothing.              *)
(***************************************************************************)
LEMMA SmallStep ==
  ASSUME CInv, NEW h \in Handlers, NEW i \in Items, ItemStep(h, i),
         PressIsInOrder(press[h])', ItemIsInOrder(i)',
         press' \in [Handlers -> PressRecord],
         told' \in [1 .. maxItems -> Seq({"approved", "rejected"})],
         \A j \in 1 .. maxItems : j \notin Items => told'[j] = told[j],
         UNCHANGED <<item, stats>>, PaysNothing, press[h].at # "react", press'[h].at # "react",
         buttons' \subseteq Items, givenUp' \subseteq Items,
         staffRole' \subseteq Members, RolesAreTrue'
  PROVE  CInv'
<1>1. PressesAreInOrder' /\ OneAtWork' /\ ItemsAreInOrder' /\ NotMadeNotTold'
  BY ItemStepKeeps
<1>2. CommunityTypeOK'
  BY DEF CInv, CommunityTypeOK, PaysNothing, Items
<1>3. StatsAreTrue'
  <2>1. \A k : DecidedOf(k)' = DecidedOf(k)
    BY DEF DecidedOf, Items, Open
  <2> QED BY <2>1 DEF CInv, StatsAreTrue
<1>4. PaidByTheDay'
  <2>1. ReactsNothing
    BY DEF ReactsNothing, ItemStep
  <2>2. \A m \in Members : Wins(m)' = Wins(m)
    BY DEF Wins, Items
  <2> QED BY <2>1, <2>2, NothingPaid
<1> QED BY <1>1, <1>2, <1>3, <1>4 DEF CInv

(***************************************************************************)
(* A handler that is quiet has nothing to keep in order.                   *)
(***************************************************************************)
LEMMA QuietIsInOrder ==
  ASSUME NEW h \in Handlers, press'[h] = Quiet
  PROVE  /\ PressIsInOrder(press[h])'
         /\ press'[h].at = "idle" /\ press'[h].item = 0 /\ press'[h].at \notin Doing
  BY DEF PressIsInOrder, Quiet, Doing, Work

-----------------------------------------------------------------------------
(***************************************************************************)
(* The steps of a handler.                                                 *)
(***************************************************************************)
LEMMA PostedKeeps == ASSUME CInv, NEW h \in Handlers, Posted(h) PROVE CInv'
<1>1. /\ press' \in [Handlers -> PressRecord] /\ press[h].at = "post"
      /\ press'[h] = Quiet /\ \A g \in Handlers \ {h} : press'[g] = press[g]
  BY MovesTo DEF Posted
<1>2. PICK i \in Items : i = press[h].item /\ i \in 1 .. maxItems /\ i \in Nat \ {0}
  BY <1>1, WorksOn DEF Doing
<1>3. buttons' = buttons \cup {i}
      /\ UNCHANGED <<storedVars, staffRole, day, starts, told, givenUp, counted, lost>>
  BY <1>2 DEF Posted, pastVars
<1>4. UNCHANGED <<item, stats, staffRole, told, givenUp>> /\ PaysNothing
  BY <1>3 DEF storedVars, PaysNothing
<1>5. Mine(h, i)
  BY <1>1, <1>2, DoesAlone DEF Doing
<1>6. ItemStep(h, i)
  BY <1>1, <1>2, <1>3, <1>4, <1>5, QuietIsInOrder DEF ItemStep, Same
<1>7. Open(i) /\ told[i] = <<>> /\ item[i].winner = None
  BY <1>1, <1>2 DEF CInv, PressesAreInOrder, PressIsInOrder, ItemsAreInOrder, ItemIsInOrder
<1>8. Open(i)' /\ RoleIsSettled(i)'
  BY <1>4, <1>7 DEF Open, RoleIsSettled, Undecided
<1>9. ItemIsInOrder(i)'
  BY <1>3, <1>4, <1>7, <1>8 DEF ItemIsInOrder
<1>10. RolesAreTrue'
  BY <1>4, NothingDecided
<1> QED BY <1>1, <1>3, <1>4, <1>6, <1>9, <1>10, QuietIsInOrder, SmallStep
        DEF CInv, CommunityTypeOK

(***************************************************************************)
(* A handler whose work on its item is given up.                           *)
(***************************************************************************)
LEMMA GivesUpKeeps ==
  ASSUME CInv, NEW h \in Handlers, NEW from \in Doing, Moves(h, from, "idle"), GivesUp(h)
  PROVE  CInv'
<1>1. /\ press' \in [Handlers -> PressRecord] /\ press[h].at = from
      /\ press'[h] = Quiet /\ \A g \in Handlers \ {h} : press'[g] = press[g]
  BY MovesTo
<1>2. PICK i \in Items : i = press[h].item /\ i \in 1 .. maxItems /\ i \in Nat \ {0}
  BY <1>1, WorksOn
<1>3. givenUp' = givenUp \cup {i} /\ UNCHANGED <<storedVars, sentVars, day, told, counted, lost>>
  BY <1>2 DEF GivesUp
<1>4. UNCHANGED <<item, stats, staffRole, buttons, told>> /\ PaysNothing
  BY <1>3 DEF storedVars, sentVars, PaysNothing
<1>5. Same(i)
  BY <1>4 DEF Same
<1>6. ItemStep(h, i)
  BY <1>1, <1>2, <1>3, <1>4, <1>5, QuietIsInOrder DEF ItemStep, Same
<1>7. ItemIsInOrder(i)
  BY DEF CInv, ItemsAreInOrder
<1>8. (Open(i)' <=> Open(i)) /\ RoleIsSettled(i)' /\ i \in givenUp'
  BY <1>3, <1>4 DEF Open, RoleIsSettled
<1>9. ItemIsInOrder(i)'
  BY <1>4, <1>7, <1>8 DEF ItemIsInOrder
<1>10. RolesAreTrue'
  BY <1>4, NothingDecided
<1>11. press[h].at # "react"
  BY <1>1 DEF Doing, Work
<1> QED BY <1>1, <1>3, <1>4, <1>6, <1>9, <1>10, <1>11, QuietIsInOrder, SmallStep
        DEF CInv, CommunityTypeOK

(***************************************************************************)
(* A press of a button: the message had it, so nobody is posting the item. *)
(***************************************************************************)
LEMMA PressKeeps ==
  ASSUME CInv, NEW h \in Handlers, NEW i \in buttons, NEW m \in Members,
         NEW choice \in {"claimed", "approved", "rejected"}, Press(h, i, m, choice)
  PROVE  CInv'
<1>0. i \in Items /\ i \in Nat
  BY DEF CInv, CommunityTypeOK, Items
<1>1. PICK me \in PressRecord :
        me = [at |-> "pressed", item |-> i, user |-> m, choice |-> choice]
  BY <1>0 DEF PressRecord
<1>2. /\ me.at = "pressed" /\ me.item = i /\ me.user = m /\ me.choice = choice
      /\ press[h] = Quiet /\ choice \in Choices(i)
      /\ press' = [press EXCEPT ![h] = me]
      /\ UNCHANGED <<storedVars, sentVars, day, starts, pastVars>>
  BY <1>1 DEF Press, Choices
<1>3. /\ press' \in [Handlers -> PressRecord] /\ press'[h] = me
      /\ \A g \in Handlers \ {h} : press'[g] = press[g]
  BY <1>1, <1>2 DEF CInv, CommunityTypeOK
<1>4. /\ UNCHANGED <<item, stats, staffRole, buttons, told, givenUp>> /\ PaysNothing
      /\ press[h].at = "idle" /\ press[h].item = 0
  BY <1>2 DEF storedVars, sentVars, pastVars, PaysNothing, Quiet
<1>5. Same(i)
  BY <1>4 DEF Same
<1>6. ItemStep(h, i)
  BY <1>0, <1>2, <1>3, <1>4, <1>5 DEF ItemStep, Same, Doing, Work
<1>7. ~Posting(i)'
  <2>1. \A g \in Handlers : ~(press[g].at = "post" /\ press[g].item = i)
    BY DEF CInv, PressesAreInOrder, PressIsInOrder
  <2> QED BY <1>2, <1>3, <2>1 DEF Posting
<1>8. PressIsInOrder(press[h])'
  <2>1. choice \in Choices(i)'
    BY <1>2, <1>4 DEF Choices
  <2> QED BY <1>0, <1>2, <1>3, <1>4, <1>7, <2>1 DEF PressIsInOrder, Items, Work, Doing
<1>9. ItemIsInOrder(i)'
  <2>1. ItemIsInOrder(i)
    BY <1>0 DEF CInv, ItemsAreInOrder
  <2>2. (Open(i)' <=> Open(i)) /\ (RoleIsSettled(i)' <=> RoleIsSettled(i))
    BY <1>4 DEF Open, RoleIsSettled
  <2>3. InHand(i) => InHand(i)'
    <3>1. i # 0
      BY DEF CInv, CommunityTypeOK, Items
    <3>2. \A g \in Handlers : press[g].item = i => press'[g] = press[g]
      BY <1>3, <1>4, <3>1
    <3> QED BY <3>2 DEF InHand
  <2> QED BY <1>4, <2>1, <2>2, <2>3 DEF ItemIsInOrder
<1>10. RolesAreTrue'
  BY <1>4, NothingDecided
<1> QED BY <1>0, <1>2, <1>3, <1>4, <1>6, <1>8, <1>9, <1>10, SmallStep
        DEF CInv, CommunityTypeOK

(***************************************************************************)
(* A press that decides nothing.                                           *)
(***************************************************************************)
LEMMA RefusedKeeps == ASSUME CInv, NEW h \in Handlers, Refused(h) PROVE CInv'
<1>1. /\ press' \in [Handlers -> PressRecord] /\ press[h].at = "pressed"
      /\ press'[h] = Quiet /\ \A g \in Handlers \ {h} : press'[g] = press[g]
  BY MovesTo DEF Refused
<1>2. PICK i \in Items : i = press[h].item /\ i \in 1 .. maxItems /\ i \in Nat \ {0}
  BY <1>1, WorksOn
<1>4. UNCHANGED <<item, stats, staffRole, buttons, told, givenUp>> /\ PaysNothing
  BY DEF Refused, storedVars, sentVars, pastVars, PaysNothing
<1>5. Same(i)
  BY <1>4 DEF Same
<1>6. ItemStep(h, i)
  BY <1>1, <1>2, <1>4, <1>5, QuietIsInOrder DEF ItemStep, Same
<1>9. ItemIsInOrder(i)'
  <2>1. ItemIsInOrder(i)
    BY DEF CInv, ItemsAreInOrder
  <2>2. (Open(i)' <=> Open(i)) /\ (RoleIsSettled(i)' <=> RoleIsSettled(i))
    BY <1>4 DEF Open, RoleIsSettled
  <2>3. InHand(i) => InHand(i)'
    BY <1>1 DEF InHand
  <2> QED BY <1>4, <2>1, <2>2, <2>3 DEF ItemIsInOrder
<1>10. RolesAreTrue'
  BY <1>4, NothingDecided
<1> QED BY <1>1, <1>4, <1>6, <1>9, <1>10, QuietIsInOrder, SmallStep
        DEF CInv, CommunityTypeOK

(***************************************************************************)
(* The role: given to the author of the approved application, or the item  *)
(* is given up.                                                            *)
(***************************************************************************)
LEMMA RoleAddedKeeps == ASSUME CInv, NEW h \in Handlers, RoleAdded(h) PROVE CInv'
<1>1. /\ press' \in [Handlers -> PressRecord] /\ press[h].at = "role"
      /\ \A g \in Handlers \ {h} : press'[g] = press[g]
      /\ press'[h].at = "update" /\ press'[h].item = press[h].item
      /\ press'[h].choice = press[h].choice
  BY MovesTo DEF RoleAdded, Work
<1>2. PICK i \in Items : i = press[h].item /\ i \in 1 .. maxItems /\ i \in Nat \ {0}
  BY <1>1, WorksOn DEF Doing, Work
<1>3. /\ staffRole' \in {staffRole, staffRole \cup {item[i].user}}
      /\ givenUp' = IF staffRole' = staffRole THEN givenUp \cup {i} ELSE givenUp
      /\ UNCHANGED <<storedVars, buttons, day, starts, told, counted, lost>>
  BY <1>2 DEF RoleAdded
<1>4. UNCHANGED <<item, stats, buttons, told>> /\ PaysNothing
  BY <1>3 DEF storedVars, PaysNothing
<1>5. Same(i) /\ Mine(h, i)
  BY <1>1, <1>2, <1>4, DoesAlone DEF Same, Doing, Work
<1>6. /\ staffRole \subseteq staffRole'
      /\ givenUp \subseteq givenUp'
      /\ givenUp' \subseteq givenUp \cup {i}
      /\ (i \in givenUp' \/ item[i].user \in staffRole')
  BY <1>3
<1>7. ItemStep(h, i)
  BY <1>1, <1>2, <1>4, <1>5, <1>6 DEF ItemStep, Same
<1>8. /\ ~Open(i) /\ item[i].status = press[h].choice /\ told[i] = <<>>
      /\ item[i].kind = "application" /\ press[h].choice = "approved"
      /\ ItemIsInOrder(i)
  BY <1>1, <1>2 DEF CInv, PressesAreInOrder, PressIsInOrder, Work, ItemsAreInOrder
<1>9. RoleIsSettled(i)' /\ ~Open(i)'
  BY <1>4, <1>6, <1>8 DEF RoleIsSettled, Open
<1>10. PressIsInOrder(press[h])'
  BY <1>1, <1>2, <1>4, <1>8, <1>9 DEF PressIsInOrder, Items, Work, Doing, Choices
<1>11. ItemIsInOrder(i)'
  BY <1>1, <1>2, <1>4, <1>8, <1>9 DEF ItemIsInOrder, InHand
<1>12. RolesAreTrue'
  BY <1>3, <1>4, <1>8 DEF CInv, RolesAreTrue, Items
<1>13. staffRole' \subseteq Members
  <2>1. item[i] \in ItemRecord
    BY DEF Items, CInv, CommunityTypeOK
  <2>2. item[i].user \in Members
    BY <2>1 DEF ItemRecord
  <2> QED BY <1>3, <2>2 DEF CInv, CommunityTypeOK
<1> QED BY <1>1, <1>4, <1>6, <1>7, <1>10, <1>11, <1>12, <1>13, SmallStep
        DEF CInv, CommunityTypeOK

(***************************************************************************)
(* The buttons go; a drop is then done with, the author of another item is *)
(* told next.                                                              *)
(***************************************************************************)
LEMMA UpdatedKeeps == ASSUME CInv, NEW h \in Handlers, Updated(h) PROVE CInv'
<1>1. PICK i \in Items : i = press[h].item /\ i \in 1 .. maxItems /\ i \in Nat \ {0}
  BY WorksOn DEF Updated, Doing, Work
<1>2. /\ press' \in [Handlers -> PressRecord] /\ press[h].at = "update"
      /\ \A g \in Handlers \ {h} : press'[g] = press[g]
      /\ item[i].kind = "drop" => press'[h] = Quiet
      /\ item[i].kind # "drop" =>
           press'[h].at = "tell" /\ press'[h].item = i /\ press'[h].choice = press[h].choice
  <2>1. CASE item[i].kind = "drop"
    <3>1. Moves(h, "update", "idle")
      BY <1>1, <2>1 DEF Updated
    <3> QED BY <2>1, <3>1, MovesTo
  <2>2. CASE item[i].kind # "drop"
    <3>1. Moves(h, "update", "tell")
      BY <1>1, <2>2 DEF Updated
    <3> QED BY <1>1, <2>2, <3>1, MovesTo DEF Work
  <2> QED BY <2>1, <2>2
<1>3. buttons' = buttons \ {i}
      /\ UNCHANGED <<storedVars, staffRole, day, starts, told, givenUp, counted, lost>>
  BY <1>1 DEF Updated, pastVars
<1>4. UNCHANGED <<item, stats, staffRole, told, givenUp>> /\ PaysNothing
  BY <1>3 DEF storedVars, PaysNothing
<1>5. Mine(h, i)
  BY <1>1, <1>2, DoesAlone DEF Doing, Work
<1>6. ItemStep(h, i)
  BY <1>1, <1>2, <1>3, <1>4, <1>5, QuietIsInOrder DEF ItemStep, Same
<1>7. /\ ~Open(i) /\ item[i].status = press[h].choice /\ told[i] = <<>>
      /\ press[h].choice \in Choices(i)
      /\ RoleIsSettled(i) /\ ItemIsInOrder(i)
  BY <1>1, <1>2 DEF CInv, PressesAreInOrder, PressIsInOrder, Work, ItemsAreInOrder
<1>8. RoleIsSettled(i)' /\ ~Open(i)'
  BY <1>4, <1>7 DEF RoleIsSettled, Open
<1>9. PressIsInOrder(press[h])'
  <2>1. CASE item[i].kind = "drop"
    BY <1>2, <2>1, QuietIsInOrder
  <2>2. CASE item[i].kind # "drop"
    BY <1>1, <1>2, <1>3, <1>4, <1>7, <1>8, <2>2
       DEF PressIsInOrder, Items, Work, Doing, Choices
  <2> QED BY <2>1, <2>2
<1>10. ItemIsInOrder(i)'
  BY <1>3, <1>4, <1>7, <1>8 DEF ItemIsInOrder
<1>11. RolesAreTrue'
  BY <1>4, NothingDecided
<1>12. press'[h].at # "react"
  BY <1>2, QuietIsInOrder
<1> QED BY <1>2, <1>3, <1>4, <1>6, <1>9, <1>10, <1>11, <1>12, SmallStep
        DEF CInv, CommunityTypeOK

(***************************************************************************)
(* The author is told what was decided, and had been told nothing before.  *)
(***************************************************************************)
LEMMA ToldKeeps == ASSUME CInv, NEW h \in Handlers, Told(h) PROVE CInv'
<1>1. /\ press' \in [Handlers -> PressRecord] /\ press[h].at = "tell"
      /\ press'[h] = Quiet /\ \A g \in Handlers \ {h} : press'[g] = press[g]
  BY MovesTo DEF Told
<1>2. PICK i \in Items : i = press[h].item /\ i \in 1 .. maxItems /\ i \in Nat \ {0}
  BY <1>1, WorksOn DEF Doing, Work
<1>3. /\ ~Open(i) /\ item[i].status = press[h].choice /\ told[i] = <<>>
      /\ i \notin buttons /\ item[i].kind # "drop" /\ press[h].choice \in Choices(i)
      /\ RoleIsSettled(i) /\ ItemIsInOrder(i)
  BY <1>1, <1>2 DEF CInv, PressesAreInOrder, PressIsInOrder, Work, ItemsAreInOrder
<1>4. told' = [told EXCEPT ![i] = <<item[i].status>>]
  <2>1. Append(<<>>, press[h].choice) = <<press[h].choice>>
    OBVIOUS
  <2> QED BY <1>2, <1>3, <2>1 DEF Told
<1>5. UNCHANGED <<item, stats, staffRole, buttons, givenUp>> /\ PaysNothing
  BY DEF Told, storedVars, sentVars, PaysNothing
<1>6. /\ told'[i] = <<item[i].status>> /\ \A j \in 1 .. maxItems : j # i => told'[j] = told[j]
      /\ Items \subseteq 1 .. maxItems
  BY <1>2, <1>4, CommunityAssumption DEF CInv, CommunityTypeOK, Items
<1>7. Mine(h, i)
  BY <1>1, <1>2, DoesAlone DEF Doing, Work
<1>8. ItemStep(h, i)
  BY <1>1, <1>2, <1>5, <1>6, <1>7, QuietIsInOrder DEF ItemStep, Same
<1>9. RoleIsSettled(i)' /\ ~Open(i)'
  BY <1>3, <1>5 DEF RoleIsSettled, Open
<1>10. ItemIsInOrder(i)'
  BY <1>3, <1>5, <1>6, <1>9 DEF ItemIsInOrder
<1>11. RolesAreTrue'
  BY <1>5, NothingDecided
<1>12. told' \in [1 .. maxItems -> Seq({"approved", "rejected"})]
  <2>1. item[i].status \in {"approved", "rejected"}
    BY <1>3 DEF Choices
  <2>2. <<item[i].status>> \in Seq({"approved", "rejected"})
    BY <2>1
  <2> QED BY <1>4, <2>2 DEF CInv, CommunityTypeOK
<1> QED BY <1>1, <1>2, <1>5, <1>6, <1>8, <1>10, <1>11, <1>12, QuietIsInOrder, SmallStep
        DEF CInv, CommunityTypeOK

(***************************************************************************)
(* A step after the decision fails.                                        *)
(***************************************************************************)
LEMMA DecisionFailsKeeps == ASSUME CInv, NEW h \in Handlers, DecisionFails(h) PROVE CInv'
<1>1. PICK from \in {"role", "update", "tell"} : Moves(h, from, "idle")
  BY DEF DecisionFails
<1> QED BY <1>1, GivesUpKeeps DEF DecisionFails, Doing, Work

-----------------------------------------------------------------------------
(***************************************************************************)
(* Sets of items, and of handlers, can be counted.                         *)
(***************************************************************************)
LEMMA ItemsCount ==
  ASSUME CInv
  PROVE  \A S \in SUBSET Items : IsFiniteSet(S) /\ Cardinality(S) \in Nat
<1>1. Items = 1 .. Len(item) /\ Len(item) \in Nat
  BY DEF Items, CInv, CommunityTypeOK
<1>2. IsFiniteSet(Items)
  BY <1>1, FS_Interval
<1> QED BY <1>2, FS_Subset, FS_CardinalityType

UnpaidSet(m) ==
  {h \in Handlers : press[h] = [Quiet EXCEPT !.at = "react", !.user = m,
                                            !.choice = "rewarded"]}

(***************************************************************************)
(* The rewarded numbers whose coins are still to come, now and next.       *)
(***************************************************************************)
LEMMA UnpaidCounts ==
  \A m : /\ IsFiniteSet(UnpaidSet(m)) /\ IsFiniteSet(UnpaidSet(m)')
        /\ Unpaid(m) = Cardinality(UnpaidSet(m)) /\ Unpaid(m)' = Cardinality(UnpaidSet(m)')
        /\ Unpaid(m) \in Nat /\ Unpaid(m)' \in Nat
<1>1. \A m : UnpaidSet(m) \subseteq Handlers /\ UnpaidSet(m)' \subseteq Handlers
  BY DEF UnpaidSet
<1>2. \A S \in SUBSET Handlers : IsFiniteSet(S) /\ Cardinality(S) \in Nat
  BY GuildAssumption, FS_Subset, FS_CardinalityType
<1>3. \A m : Unpaid(m) = Cardinality(UnpaidSet(m)) /\ Unpaid(m)' = Cardinality(UnpaidSet(m)')
  BY DEF Unpaid, UnpaidSet
<1> QED BY <1>1, <1>2, <1>3

(***************************************************************************)
(* A decision: the item was open, nobody else was at work on it, and the   *)
(* numbers on the status page count it.                                    *)
(***************************************************************************)
LEMMA DecisionCounts ==
  ASSUME CInv, NEW i \in Items, NEW m \in Members, NEW choice \in Choices(i),
         Open(i), ~Posting(i), Decided(i, m, choice),
         UNCHANGED <<buttons, staffRole, told, givenUp>>
  PROVE  /\ item' \in Seq(ItemRecord) /\ Len(item') = Len(item) /\ DOMAIN item' = Items
         /\ \A j \in Items : j # i => item'[j] = item[j]
         /\ item'[i].kind = item[i].kind /\ item'[i].status = choice /\ item'[i].winner = m
         /\ ~Open(i)' /\ \A g \in Handlers : ~Does(g, i)
         /\ stats' \in [Kinds -> Nat] /\ StatsAreTrue' /\ RolesAreTrue'
<1>1. item[i] \in ItemRecord /\ item \in Seq(ItemRecord)
  BY DEF Items, CInv, CommunityTypeOK
<1>2. PICK rec \in ItemRecord : rec = [item[i] EXCEPT !.status = choice, !.winner = m]
  BY <1>1 DEF ItemRecord, Choices
<1>3. /\ rec.kind = item[i].kind /\ rec.user = item[i].user
      /\ rec.status = choice /\ rec.winner = m
      /\ item' = [item EXCEPT ![i] = rec]
  BY <1>1, <1>2 DEF Decided, ItemRecord
<1>4. /\ item' \in Seq(ItemRecord) /\ Len(item') = Len(item) /\ DOMAIN item' = Items
      /\ item'[i] = rec /\ \A j \in Items : j # i => item'[j] = item[j]
  BY <1>1, <1>3 DEF Items
<1>5. choice \notin Undecided
  BY DEF Choices, Undecided
<1>6. ~Open(i)'
  BY <1>3, <1>4, <1>5 DEF Open
<1>7. \A g \in Handlers : ~Does(g, i)
  <2> SUFFICES ASSUME NEW g \in Handlers, Does(g, i) PROVE FALSE
    OBVIOUS
  <2>1. press[g].at \in Work
    BY DEF Does, Doing, Posting
  <2> QED BY <2>1 DEF Does, CInv, PressesAreInOrder, PressIsInOrder
<1>8. item[i].kind \in Kinds
  BY <1>1 DEF ItemRecord
<1>9. stats' = [stats EXCEPT ![item[i].kind] = @ + 1] /\ stats \in [Kinds -> Nat]
  BY DEF Decided, CInv, CommunityTypeOK
<1>10. stats' \in [Kinds -> Nat]
  BY <1>8, <1>9
<1>11. StatsAreTrue'
  <2> SUFFICES ASSUME NEW k \in Kinds PROVE stats'[k] = Cardinality(DecidedOf(k)')
    BY DEF StatsAreTrue
  <2>1. \A j \in Items : j # i => (Open(j)' <=> Open(j))
    BY <1>4 DEF Open
  <2>2. stats[k] = Cardinality(DecidedOf(k)) /\ IsFiniteSet(DecidedOf(k))
    BY ItemsCount DEF CInv, StatsAreTrue, DecidedOf
  <2>3. CASE k = item[i].kind
    <3>1. DecidedOf(k)' = DecidedOf(k) \cup {i} /\ i \notin DecidedOf(k)
      BY <1>3, <1>4, <1>6, <2>1, <2>3 DEF DecidedOf, Items
    <3>2. stats'[k] = stats[k] + 1
      BY <1>9, <2>3
    <3> QED BY <2>2, <3>1, <3>2, FS_AddElement
  <2>4. CASE k # item[i].kind
    <3>1. DecidedOf(k)' = DecidedOf(k)
      BY <1>3, <1>4, <2>1, <2>4 DEF DecidedOf, Items
    <3>2. stats'[k] = stats[k]
      BY <1>9, <2>4
    <3> QED BY <2>2, <3>1, <3>2
  <2> QED BY <2>3, <2>4
<1>12. RolesAreTrue'
  <2> SUFFICES ASSUME NEW n \in staffRole
               PROVE  \E j \in Items : item'[j].kind = "application" /\ item'[j].user = n
                                       /\ item'[j].status = "approved"
    BY <1>4 DEF RolesAreTrue, Items
  <2>1. PICK j \in Items : item[j].kind = "application" /\ item[j].user = n
                           /\ item[j].status = "approved"
    BY DEF CInv, RolesAreTrue
  <2>2. j # i
    BY <2>1 DEF Open, Undecided
  <2> QED BY <1>4, <2>1, <2>2
<1> QED BY <1>3, <1>4, <1>6, <1>7, <1>10, <1>11, <1>12

(***************************************************************************)
(* The handler that decides goes on with the item.                         *)
(***************************************************************************)
LEMMA DecisionStands ==
  ASSUME CInv, NEW h \in Handlers, NEW i \in Items, NEW m \in Members, NEW choice,
         press[h].at = "pressed", i = press[h].item, choice = press[h].choice,
         m = press[h].user, Open(i), Decided(i, m, choice),
         UNCHANGED <<buttons, staffRole, told, givenUp, day, lastDailyAt, lastXpAt, messages,
                     counted, lost>>,
         NEW to \in {"role", "update"}, Moves(h, "pressed", to),
         to = "role" <=> (item[i].kind = "application" /\ choice = "approved"),
         coins' \in [Members -> Nat], PaidByTheDay'
  PROVE  CInv'
<1>1. /\ press' \in [Handlers -> PressRecord]
      /\ \A g \in Handlers \ {h} : press'[g] = press[g]
      /\ press'[h].at = to /\ press'[h].item = i /\ press'[h].choice = choice
  BY MovesTo DEF Work
<1>2. choice \in Choices(i) /\ ~Posting(i)
  BY DEF CInv, PressesAreInOrder, PressIsInOrder
<1>3. /\ item' \in Seq(ItemRecord) /\ Len(item') = Len(item) /\ DOMAIN item' = Items
      /\ \A j \in Items : j # i => item'[j] = item[j]
      /\ item'[i].kind = item[i].kind /\ item'[i].status = choice
      /\ ~Open(i)' /\ \A g \in Handlers : ~Does(g, i)
      /\ stats' \in [Kinds -> Nat] /\ StatsAreTrue' /\ RolesAreTrue'
  BY <1>2, DecisionCounts
<1>4. told[i] = <<>>
  BY DEF CInv, ItemsAreInOrder, ItemIsInOrder
<1>5. ItemStep(h, i)
  BY <1>1, <1>3 DEF ItemStep, Same, Mine, Items
<1>6. choice \in Choices(i)'
  BY <1>2, <1>3 DEF Choices
<1>7. to = "update" => RoleIsSettled(i)'
  BY <1>3 DEF RoleIsSettled
<1>8. PressIsInOrder(press[h])'
  BY <1>1, <1>3, <1>4, <1>6, <1>7 DEF PressIsInOrder, Items, Work, Doing
<1>9. ItemIsInOrder(i)'
  <2>1. InHand(i)'
    BY <1>1 DEF InHand
  <2> QED BY <1>3, <1>4, <2>1 DEF ItemIsInOrder
<1>10. told' \in [1 .. maxItems -> Seq({"approved", "rejected"})]
  BY DEF CInv, CommunityTypeOK
<1>11. PressesAreInOrder' /\ OneAtWork' /\ ItemsAreInOrder' /\ NotMadeNotTold'
  BY <1>5, <1>8, <1>9, <1>10, ItemStepKeeps
<1>12. CommunityTypeOK'
  BY <1>1, <1>3 DEF CInv, CommunityTypeOK, Items
<1> QED BY <1>3, <1>11, <1>12 DEF CInv

(***************************************************************************)
(* review: the staff decide an application or a leave, and nobody is paid. *)
(***************************************************************************)
LEMMA ReviewKeeps == ASSUME CInv, NEW h \in Handlers, Review(h) PROVE CInv'
<1>1. PICK i \in Items : i = press[h].item
  BY WorksOn DEF Review
<1>2. PICK m \in Members : m = press[h].user
  BY DEF Review, CInv, PressesAreInOrder, PressIsInOrder
<1>3. PICK choice : choice = press[h].choice
  OBVIOUS
<1>4. PICK to \in {"role", "update"} :
        to = IF item[i].kind = "application" /\ choice = "approved" THEN "role" ELSE "update"
  OBVIOUS
<1>5. /\ press[h].at = "pressed" /\ item[i].kind # "drop" /\ Open(i)
      /\ Moves(h, "pressed", to) /\ Decided(i, m, choice)
      /\ UNCHANGED <<coins, lastDailyAt, lastXpAt, messages, counting, sentVars,
                     day, starts, pastVars>>
  BY <1>1, <1>2, <1>3, <1>4 DEF Review, MayDecide
<1>6. UNCHANGED <<buttons, staffRole, told, givenUp, day, lastDailyAt, lastXpAt, messages,
                  counted, lost, coins>>
  BY <1>5 DEF sentVars, pastVars
<1>7. PaidByTheDay'
  <2>1. choice \in Choices(i) /\ ~Posting(i)
    BY <1>1, <1>3, <1>5 DEF CInv, PressesAreInOrder, PressIsInOrder
  <2>2. /\ DOMAIN item' = Items /\ item'[i].kind = item[i].kind
        /\ \A j \in Items : j # i => item'[j] = item[j]
    BY <1>5, <1>6, <2>1, DecisionCounts
  <2>3. \A n \in Members : Wins(n)' = Wins(n)
    BY <1>5, <2>2 DEF Wins, Items
  <2>4. ReactsNothing
    BY <1>4, <1>5, MovesTo DEF ReactsNothing, Work
  <2> QED BY <1>6, <2>3, <2>4, NothingPaid DEF PaysNothing
<1> QED BY <1>1, <1>2, <1>3, <1>4, <1>5, <1>6, <1>7, DecisionStands DEF CInv, CommunityTypeOK

(***************************************************************************)
(* claimDrop: the first who presses wins, and is paid for one drop more.   *)
(***************************************************************************)
LEMMA ClaimDropKeeps == ASSUME CInv, NEW h \in Handlers, ClaimDrop(h) PROVE CInv'
<1>1. PICK i \in Items : i = press[h].item
  BY WorksOn DEF ClaimDrop, Moves
<1>2. PICK m \in Members : m = press[h].user
  BY DEF ClaimDrop, Moves, CInv, PressesAreInOrder, PressIsInOrder
<1>3. /\ press[h].at = "pressed" /\ item[i].kind = "drop" /\ Open(i)
      /\ Moves(h, "pressed", "update") /\ Decided(i, m, "claimed")
      /\ coins' = [coins EXCEPT ![m] = @ + DropCoins]
      /\ UNCHANGED <<lastDailyAt, lastXpAt, messages, counting, sentVars,
                     day, starts, pastVars>>
  BY <1>1, <1>2 DEF ClaimDrop, MayDecide, Moves
<1>4. UNCHANGED <<buttons, staffRole, told, givenUp, day, lastDailyAt, lastXpAt, messages,
                  counted, lost>>
  BY <1>3 DEF sentVars, pastVars
<1>5. "claimed" = press[h].choice /\ "claimed" \in Choices(i) /\ ~Posting(i)
  BY <1>1, <1>3 DEF CInv, PressesAreInOrder, PressIsInOrder, Choices
<1>6. /\ DOMAIN item' = Items /\ item'[i].kind = item[i].kind /\ item'[i].winner = m
      /\ \A j \in Items : j # i => item'[j] = item[j]
  BY <1>3, <1>4, <1>5, DecisionCounts
<1>7. coins \in [Members -> Nat]
  BY DEF CInv, CommunityTypeOK
<1>8. coins' \in [Members -> Nat]
  BY <1>3, <1>7 DEF DropCoins
<1>9. PaidByTheDay'
  <2> SUFFICES ASSUME NEW n \in Members
               PROVE  \E days \in 0 .. lastDailyAt[n] : Balance(n, days)'
    BY <1>4 DEF CInv, PaidByTheDay
  <2>1. PICK days \in 0 .. lastDailyAt[n] : Balance(n, days)
    BY DEF CInv, PaidByTheDay
  <2>2. Unpaid(n)' = Unpaid(n)
    <3>1. ReactsNothing
      BY <1>3, MovesTo DEF ReactsNothing, Work
    <3> QED BY <3>1, UnpaidStays
  <2>3. item[i].winner = None
    BY <1>3 DEF CInv, ItemsAreInOrder, ItemIsInOrder
  <2>4. IsFiniteSet(Wins(n)) /\ Cardinality(Wins(n)) \in Nat
    BY ItemsCount DEF Wins
  <2>5. lastDailyAt[n] \in Nat /\ coins[n] \in Nat /\ counted[n] \in Nat /\ lost[n] \in Nat
    BY DEF CInv, CommunityTypeOK
  <2>6. Unpaid(n) \in Nat /\ days \in Nat
    BY <2>5, UnpaidCounts
  <2>7. CASE n = m
    <3>1. Wins(n)' = Wins(n) \cup {i} /\ i \notin Wins(n)
      BY <1>3, <1>6, <2>3, <2>7, GuildAssumption DEF Wins, Items
    <3>2. Cardinality(Wins(n)') = Cardinality(Wins(n)) + 1
      BY <2>4, <3>1, FS_AddElement
    <3>3. coins'[n] = coins[n] + DropCoins
      BY <1>3, <1>7, <2>7
    <3> QED BY <1>4, <2>1, <2>2, <2>4, <2>5, <2>6, <3>2, <3>3
            DEF Balance, Daily, CountCoins, DropCoins
  <2>8. CASE n # m
    <3>1. Wins(n)' = Wins(n)
      BY <1>6, <2>3, <2>8, GuildAssumption DEF Wins, Items
    <3>2. coins'[n] = coins[n]
      BY <1>3, <1>7, <2>8
    <3> QED BY <1>4, <2>1, <2>2, <3>1, <3>2 DEF Balance
  <2> QED BY <2>7, <2>8
<1> QED BY <1>1, <1>2, <1>3, <1>4, <1>5, <1>8, <1>9, DecisionStands

-----------------------------------------------------------------------------
(***************************************************************************)
(* A new item is open, and its handler alone knows it.                     *)
(***************************************************************************)
LEMMA SubmitKeeps ==
  ASSUME CInv, NEW h \in Handlers, NEW m \in Members, NEW k \in Kinds, Submit(h, m, k)
  PROVE  CInv'
<1>0. PICK n \in Nat : n = Len(item) + 1
  BY DEF CInv, CommunityTypeOK
<1>1. PICK rec \in ItemRecord :
        rec = [kind |-> k, user |-> m, winner |-> None,
               status |-> IF k = "drop" THEN "open" ELSE "pending"]
  <2>1. PICK first \in Undecided : first = IF k = "drop" THEN "open" ELSE "pending"
    BY DEF Undecided
  <2> QED BY <2>1 DEF ItemRecord
<1>2. PICK me \in PressRecord : me = [Quiet EXCEPT !.at = "post", !.item = n]
  BY QuietIsRecord DEF PressRecord, Doing
<1>3. /\ rec.kind = k /\ rec.winner = None /\ rec.status \in Undecided
      /\ me.at = "post" /\ me.item = n
      /\ n <= maxItems /\ item' = Append(item, rec) /\ press[h] = Quiet
      /\ press' = [press EXCEPT ![h] = me]
      /\ UNCHANGED <<stats, coins, lastDailyAt, lastXpAt, messages, buttons, staffRole,
                     day, told, givenUp, counted, lost>>
  BY <1>0, <1>1, <1>2 DEF Submit, Undecided, sentVars, pastVars, Quiet
<1>4. /\ press' \in [Handlers -> PressRecord] /\ press'[h] = me
      /\ \A g \in Handlers \ {h} : press'[g] = press[g]
      /\ press[h].at = "idle" /\ press[h].item = 0
  BY <1>3 DEF CInv, CommunityTypeOK, Quiet
<1>5. /\ item' \in Seq(ItemRecord) /\ Len(item') = n /\ item'[n] = rec
      /\ Items' = Items \cup {n} /\ n \notin Items
      /\ \A j \in Items : item'[j] = item[j]
      /\ Items = 1 .. Len(item) /\ Len(item) \in Nat /\ n \in 1 .. maxItems /\ n # 0
  BY <1>0, <1>3, CommunityAssumption DEF CInv, CommunityTypeOK, Items
<1>6. CommunityTypeOK'
  BY <1>3, <1>4, <1>5 DEF CInv, CommunityTypeOK
<1>7. \A j \in Items : /\ (Open(j)' <=> Open(j)) /\ Choices(j)' = Choices(j)
                       /\ (RoleIsSettled(j)' <=> RoleIsSettled(j))
                       /\ (Posting(j)' => Posting(j))
                       /\ (InHand(j) => InHand(j)')
  <2> SUFFICES ASSUME NEW j \in Items
               PROVE  /\ (Open(j)' <=> Open(j)) /\ Choices(j)' = Choices(j)
                      /\ (RoleIsSettled(j)' <=> RoleIsSettled(j))
                      /\ (Posting(j)' => Posting(j))
                      /\ (InHand(j) => InHand(j)')
    OBVIOUS
  <2>1. j # n /\ j # 0
    BY <1>5
  <2>2. Posting(j)' => Posting(j)
    BY <1>3, <1>4, <2>1 DEF Posting
  <2>3. InHand(j) => InHand(j)'
    BY <1>4, <2>1 DEF InHand
  <2> QED BY <1>3, <1>5, <2>2, <2>3 DEF Open, Choices, RoleIsSettled
<1>8. /\ Open(n)' /\ n \notin buttons /\ told[n] = <<>>
  BY <1>3, <1>5 DEF Open, CInv, CommunityTypeOK, NotMadeNotTold
<1>9. PressesAreInOrder'
  <2> SUFFICES ASSUME NEW g \in Handlers PROVE PressIsInOrder(press[g])'
    BY DEF PressesAreInOrder
  <2>1. CASE g = h
    BY <1>3, <1>4, <1>5, <1>8, <2>1 DEF PressIsInOrder, Doing, Work
  <2>2. CASE g # h
    <3>1. press'[g] = press[g] /\ PressIsInOrder(press[g])
      BY <1>4, <2>2 DEF CInv, PressesAreInOrder
    <3>2. CASE press[g].at \in {"idle", "react", "answer"}
      BY <3>1, <3>2 DEF PressIsInOrder, Doing, Work, Quiet
    <3>3. CASE press[g].at \in {"pressed"} \cup Doing
      <4>1. PICK j \in Items : j = press[g].item
        BY <3>1, <3>3 DEF PressIsInOrder
      <4>2. /\ (Open(j)' <=> Open(j)) /\ Choices(j)' = Choices(j)
            /\ (RoleIsSettled(j)' <=> RoleIsSettled(j))
            /\ (Posting(j)' => Posting(j))
            /\ item'[j] = item[j] /\ j \in Items'
        BY <1>5, <1>7
      <4>3. /\ press[g].at = "post" => Open(j) /\ j \notin buttons
            /\ press[g].at = "pressed" =>
                 press[g].choice \in Choices(j) /\ press[g].user \in Members /\ ~Posting(j)
            /\ press[g].at \in Work =>
                 /\ ~Open(j) /\ item[j].status = press[g].choice /\ told[j] = <<>>
                 /\ press[g].choice \in Choices(j)
            /\ press[g].at = "role" =>
                 item[j].kind = "application" /\ press[g].choice = "approved"
            /\ press[g].at \in {"update", "tell"} => RoleIsSettled(j)
            /\ press[g].at = "tell" => j \notin buttons /\ item[j].kind # "drop"
        BY <3>1, <4>1 DEF PressIsInOrder
      <4>4. told' = told /\ buttons' = buttons /\ press'[g] = press[g]
        BY <1>3, <3>1
      <4> QED BY <3>3, <4>1, <4>2, <4>3, <4>4 DEF PressIsInOrder, Doing, Work
    <3>4. press[g].at \in {"idle", "pressed", "react", "answer"} \cup Doing
      BY DEF CInv, CommunityTypeOK, PressRecord
    <3> QED BY <3>2, <3>3, <3>4
  <2> QED BY <2>1, <2>2
<1>10. OneAtWork'
  <2>1. \A g \in Handlers : press[g].at \in Doing => press[g].item # n
    BY <1>5 DEF CInv, PressesAreInOrder, PressIsInOrder
  <2> QED BY <1>3, <1>4, <2>1 DEF CInv, OneAtWork, Does
<1>11. ItemsAreInOrder'
  <2> SUFFICES ASSUME NEW j \in Items' PROVE ItemIsInOrder(j)'
    BY DEF ItemsAreInOrder
  <2>1. CASE j = n
    <3>1. InHand(n)'
      BY <1>3, <1>4 DEF InHand
    <3> QED BY <1>3, <1>5, <1>8, <2>1, <3>1 DEF ItemIsInOrder
  <2>2. CASE j \in Items
    <3>1. ItemIsInOrder(j) /\ item'[j] = item[j]
      BY <1>5, <2>2 DEF CInv, ItemsAreInOrder
    <3> QED BY <1>3, <1>7, <2>2, <3>1 DEF ItemIsInOrder
  <2> QED BY <1>5, <2>1, <2>2
<1>12. NotMadeNotTold'
  BY <1>3, <1>5 DEF CInv, NotMadeNotTold
<1>13. StatsAreTrue'
  <2>1. \A l : DecidedOf(l)' = DecidedOf(l)
    BY <1>5, <1>7, <1>8 DEF DecidedOf
  <2> QED BY <1>3, <2>1 DEF CInv, StatsAreTrue
<1>14. RolesAreTrue'
  BY <1>3, <1>5 DEF CInv, RolesAreTrue
<1>15. PaidByTheDay'
  <2>1. ReactsNothing
    BY <1>3, <1>4 DEF ReactsNothing
  <2>2. \A w \in Members : Wins(w)' = Wins(w)
    BY <1>3, <1>5, GuildAssumption DEF Wins
  <2> QED BY <1>3, <2>1, <2>2, NothingPaid DEF PaysNothing
<1> QED BY <1>6, <1>9, <1>10, <1>11, <1>12, <1>13, <1>14, <1>15 DEF CInv

(***************************************************************************)
(* A restart forgets what handlers had in hand, and nothing else.          *)
(***************************************************************************)
LEMMA StartsAgainKeeps == ASSUME CInv, StartsAgain PROVE CInv'
<1>1. /\ press' = [h \in Handlers |-> Quiet] /\ givenUp' = givenUp \cup Forgotten
      /\ lost' = [m \in Members |-> lost[m] + Unpaid(m)]
      /\ UNCHANGED <<item, stats, coins, lastDailyAt, lastXpAt, messages, buttons,
                     staffRole, day, told, counted>>
  BY DEF StartsAgain, storedVars, sentVars
<1>2. press' \in [Handlers -> PressRecord] /\ \A h \in Handlers : press'[h] = Quiet
  BY <1>1, QuietIsRecord
<1>3. \A i \in Items : InHand(i) => i \in Forgotten
  <2> SUFFICES ASSUME NEW i \in Items, NEW h \in Handlers,
                      press[h].item = i, press[h].at # "pressed"
               PROVE  i \in Forgotten
    BY DEF InHand
  <2>1. i # 0
    BY DEF Items, CInv, CommunityTypeOK
  <2>2. press[h].at # "idle"
    BY <2>1 DEF CInv, PressesAreInOrder, PressIsInOrder, Quiet
  <2> QED BY <2>1, <2>2 DEF Forgotten
<1>4. Forgotten \subseteq Items
  <2> SUFFICES ASSUME NEW h \in Handlers, press[h].at \notin {"idle", "pressed"},
                      press[h].item # 0
               PROVE  press[h].item \in Items
    BY DEF Forgotten
  <2>1. press[h].at \in {"idle", "pressed", "react", "answer"} \cup Doing
    BY DEF CInv, CommunityTypeOK, PressRecord
  <2> QED BY <2>1 DEF CInv, PressesAreInOrder, PressIsInOrder
<1>5. lost' \in [Members -> Nat]
  <2>1. \A m \in Members : lost[m] + Unpaid(m) \in Nat
    BY UnpaidCounts DEF CInv, CommunityTypeOK
  <2> QED BY <1>1, <2>1
<1>6. CommunityTypeOK'
  BY <1>1, <1>2, <1>4, <1>5 DEF CInv, CommunityTypeOK, Items
<1>7. PressesAreInOrder' /\ OneAtWork'
  BY <1>2, QuietIsInOrder DEF PressesAreInOrder, OneAtWork
<1>8. ItemsAreInOrder'
  <2> SUFFICES ASSUME NEW i \in Items PROVE ItemIsInOrder(i)'
    BY <1>1 DEF ItemsAreInOrder, Items
  <2>1. ItemIsInOrder(i) /\ (Open(i)' <=> Open(i))
    BY <1>1 DEF CInv, ItemsAreInOrder, Open
  <2>2. RoleIsSettled(i) => RoleIsSettled(i)'
    BY <1>1 DEF RoleIsSettled
  <2>3. InHand(i) => i \in givenUp' /\ RoleIsSettled(i)'
    BY <1>1, <1>3 DEF RoleIsSettled
  <2> QED BY <1>1, <2>1, <2>2, <2>3 DEF ItemIsInOrder
<1>9. NotMadeNotTold' /\ StatsAreTrue' /\ RolesAreTrue'
  BY <1>1, NothingDecided DEF CInv, NotMadeNotTold, Items
<1>10. PaidByTheDay'
  <2> SUFFICES ASSUME NEW m \in Members
               PROVE  \E days \in 0 .. lastDailyAt[m] : Balance(m, days)'
    BY <1>1 DEF CInv, PaidByTheDay
  <2>1. PICK days \in 0 .. lastDailyAt[m] : Balance(m, days)
    BY DEF CInv, PaidByTheDay
  <2>2. Unpaid(m)' = 0
    <3>1. UnpaidSet(m)' = {}
      <4>1. PICK r : r = [Quiet EXCEPT !.at = "react", !.user = m, !.choice = "rewarded"]
        OBVIOUS
      <4>2. r # Quiet
        BY <4>1 DEF Quiet
      <4> QED BY <1>2, <4>1, <4>2 DEF UnpaidSet
    <3>2. Unpaid(m)' = Cardinality(UnpaidSet(m)')
      BY DEF Unpaid, UnpaidSet
    <3> QED BY <3>1, <3>2, FS_EmptySet
  <2>3. Wins(m)' = Wins(m)
    BY <1>1 DEF Wins, Items
  <2>4. lost'[m] = lost[m] + Unpaid(m) /\ lost[m] \in Nat /\ counted[m] \in Nat
    BY <1>1 DEF CInv, CommunityTypeOK
  <2>5. counted'[m] - lost'[m] - Unpaid(m)' = counted[m] - lost[m] - Unpaid(m)
    BY <1>1, <2>2, <2>4, UnpaidCounts
  <2> QED BY <1>1, <2>1, <2>3, <2>5 DEF Balance
<1> QED BY <1>6, <1>7, <1>8, <1>9, <1>10 DEF CInv

-----------------------------------------------------------------------------
(***************************************************************************)
(* The steps that are about no item.                                       *)
(***************************************************************************)
Elsewhere == {"idle", "react", "answer"}

(***************************************************************************)
(* Handlers of counted messages have no item, and what they do leaves the  *)
(* items in order.                                                         *)
(***************************************************************************)
LEMMA ItemsLeftAlone ==
  ASSUME CInv, UNCHANGED <<item, stats, buttons, staffRole, told, givenUp>>,
         \A h \in Handlers :
           \/ press'[h] = press[h]
           \/ /\ press[h].at \in Elsewhere /\ press'[h].at \in Elsewhere
              /\ PressIsInOrder(press[h])'
  PROVE  /\ PressesAreInOrder' /\ OneAtWork' /\ ItemsAreInOrder' /\ NotMadeNotTold'
         /\ StatsAreTrue' /\ RolesAreTrue'
<1>1. \A h \in Handlers : \/ press'[h] = press[h]
                         \/ /\ press[h].at \notin {"pressed"} \cup Doing
                            /\ press'[h].at \notin {"pressed"} \cup Doing
                            /\ press[h].item = 0 /\ press'[h].item = 0
                            /\ PressIsInOrder(press[h])'
  <2> SUFFICES ASSUME NEW h \in Handlers, press[h].at \in Elsewhere, press'[h].at \in Elsewhere,
                      PressIsInOrder(press[h])'
               PROVE  press[h].item = 0 /\ press'[h].item = 0
    BY DEF Elsewhere, Doing, Work
  <2>1. PressIsInOrder(press[h])
    BY DEF CInv, PressesAreInOrder
  <2>2. press[h].item = 0
    BY <2>1 DEF PressIsInOrder, Elsewhere, Quiet
  <2>3. press'[h].item = 0
    BY DEF PressIsInOrder, Elsewhere, Quiet
  <2> QED BY <2>2, <2>3
<1>2. \A i \in Items : /\ (Open(i)' <=> Open(i)) /\ Choices(i)' = Choices(i)
                       /\ (RoleIsSettled(i)' <=> RoleIsSettled(i))
                       /\ (Posting(i)' => Posting(i))
                       /\ (InHand(i) => InHand(i)')
  <2> SUFFICES ASSUME NEW i \in Items
               PROVE  /\ (Open(i)' <=> Open(i)) /\ Choices(i)' = Choices(i)
                      /\ (RoleIsSettled(i)' <=> RoleIsSettled(i))
                      /\ (Posting(i)' => Posting(i))
                      /\ (InHand(i) => InHand(i)')
    OBVIOUS
  <2>1. i # 0
    BY DEF Items, CInv, CommunityTypeOK
  <2>2. Posting(i)' => Posting(i)
    BY <1>1 DEF Posting, Doing
  <2>3. InHand(i) => InHand(i)'
    BY <1>1, <2>1 DEF InHand
  <2> QED BY <2>2, <2>3 DEF Open, Choices, RoleIsSettled
<1>3. PressesAreInOrder'
  <2> SUFFICES ASSUME NEW h \in Handlers, press'[h] = press[h] PROVE PressIsInOrder(press[h])'
    BY <1>1 DEF PressesAreInOrder
  <2>1. PressIsInOrder(press[h])
    BY DEF CInv, PressesAreInOrder
  <2>2. CASE press[h].at \in Elsewhere
    BY <2>1, <2>2 DEF PressIsInOrder, Elsewhere, Doing, Work, Quiet
  <2>3. CASE press[h].at \in {"pressed"} \cup Doing
    <3>1. PICK i \in Items : i = press[h].item
      BY <2>1, <2>3 DEF PressIsInOrder
    <3>2. /\ (Open(i)' <=> Open(i)) /\ Choices(i)' = Choices(i)
          /\ (RoleIsSettled(i)' <=> RoleIsSettled(i))
          /\ (Posting(i)' => Posting(i))
      BY <1>2
    <3>3. /\ press[h].at = "post" => Open(i) /\ i \notin buttons
          /\ press[h].at = "pressed" =>
               press[h].choice \in Choices(i) /\ press[h].user \in Members /\ ~Posting(i)
          /\ press[h].at \in Work =>
               /\ ~Open(i) /\ item[i].status = press[h].choice /\ told[i] = <<>>
               /\ press[h].choice \in Choices(i)
          /\ press[h].at = "role" =>
               item[i].kind = "application" /\ press[h].choice = "approved"
          /\ press[h].at \in {"update", "tell"} => RoleIsSettled(i)
          /\ press[h].at = "tell" => i \notin buttons /\ item[i].kind # "drop"
      BY <2>1, <3>1 DEF PressIsInOrder
    <3> QED BY <2>3, <3>1, <3>2, <3>3 DEF PressIsInOrder, Doing, Work, Items
  <2>4. press[h].at \in {"pressed"} \cup Elsewhere \cup Doing
    BY DEF CInv, CommunityTypeOK, PressRecord, Elsewhere
  <2> QED BY <2>2, <2>3, <2>4
<1>4. OneAtWork'
  BY <1>1 DEF CInv, OneAtWork, Does
<1>5. ItemsAreInOrder'
  <2> SUFFICES ASSUME NEW i \in Items PROVE ItemIsInOrder(i)'
    BY DEF ItemsAreInOrder, Items
  <2>1. ItemIsInOrder(i)
    BY DEF CInv, ItemsAreInOrder
  <2> QED BY <1>2, <2>1 DEF ItemIsInOrder
<1>6. NotMadeNotTold' /\ StatsAreTrue' /\ RolesAreTrue'
  BY NothingDecided DEF CInv, NotMadeNotTold, Items
<1> QED BY <1>3, <1>4, <1>5, <1>6

(***************************************************************************)
(* The same for a step of one handler.                                     *)
(***************************************************************************)
LEMMA GoesElsewhere ==
  ASSUME CInv, NEW h \in Handlers, NEW to \in {"idle", "answer"},
         NEW from \in {"react", "answer"},
         Moves(h, from, to)
  PROVE  /\ press' \in [Handlers -> PressRecord]
         /\ \A g \in Handlers :
              \/ press'[g] = press[g]
              \/ /\ press[g].at \in Elsewhere /\ press'[g].at \in Elsewhere
                 /\ PressIsInOrder(press[g])'
<1>1. /\ press' \in [Handlers -> PressRecord]
      /\ press[h].at = from /\ \A g \in Handlers \ {h} : press'[g] = press[g]
      /\ to = "idle" => press'[h] = Quiet
      /\ to # "idle" =>
           /\ press'[h].at = to /\ press'[h].item = press[h].item
           /\ press'[h].user = press[h].user /\ press'[h].choice = press[h].choice
  BY MovesTo
<1>2. CASE to = "idle"
  BY <1>1, <1>2, QuietIsInOrder DEF Elsewhere
<1>3. CASE to = "answer"
  <2>1. press[h].at # "idle" => press[h].item = 0 /\ press[h].user \in Members
    BY <1>1 DEF CInv, PressesAreInOrder, PressIsInOrder, Elsewhere
  <2>2. PressIsInOrder(press[h])'
    BY <1>1, <1>3, <2>1 DEF PressIsInOrder, Doing, Work
  <2> QED BY <1>1, <1>3, <2>2 DEF Elsewhere
<1> QED BY <1>2, <1>3

(***************************************************************************)
(* A reward for a message: at most one in a day.                           *)
(***************************************************************************)
LEMMA XpOnceADay ==
  ASSUME CInv, NEW m \in Members, AwardMessageXp(m), day' = day
  PROVE  /\ lastXpAt' \in [Members -> Nat] /\ messages' \in [Members -> Nat]
         /\ \A n \in Members : messages'[n] <= lastXpAt'[n] /\ lastXpAt'[n] <= day
<1>1. /\ lastXpAt \in [Members -> Nat] /\ messages \in [Members -> Nat] /\ day \in Nat \ {0}
      /\ \A n \in Members : messages[n] <= lastXpAt[n] /\ lastXpAt[n] <= day
  BY DEF CInv, CommunityTypeOK, PaidByTheDay
<1>2. CASE Ready(lastXpAt[m])
  <2>1. lastXpAt' = [lastXpAt EXCEPT ![m] = day] /\ messages' = [messages EXCEPT ![m] = @ + 1]
    BY <1>2 DEF AwardMessageXp
  <2>2. messages[m] + 1 <= day
    BY <1>1, <1>2 DEF Ready
  <2> QED BY <1>1, <2>1, <2>2
<1>3. CASE ~Ready(lastXpAt[m])
  BY <1>1, <1>3 DEF AwardMessageXp
<1> QED BY <1>2, <1>3

(***************************************************************************)
(* The arithmetic of a balance: coins move by what was counted and is no   *)
(* longer due.                                                             *)
(***************************************************************************)
LEMMA Amounts ==
  \A days, counts, newCounts, forgot, due, newDue, won, had, has \in Nat :
    /\ had = 150 * days + 50 * (counts - forgot - due) + 250 * won
    /\ has - had = 50 * ((newCounts - counts) - (newDue - due))
    => has = 150 * days + 50 * (newCounts - forgot - newDue) + 250 * won
OBVIOUS

(***************************************************************************)
(* The members' money moves by what is counted, paid or won.               *)
(***************************************************************************)
LEMMA StillPaid ==
  ASSUME CInv, UNCHANGED <<item, lastDailyAt, lost, day>>,
         \A n \in Members : messages'[n] <= lastXpAt'[n] /\ lastXpAt'[n] <= day,
         coins' \in [Members -> Nat], counted' \in [Members -> Nat],
         \A n \in Members : Unpaid(n)' \in Nat,
         \A n \in Members :
           coins'[n] - coins[n] =
             CountCoins * ((counted'[n] - counted[n]) - (Unpaid(n)' - Unpaid(n)))
  PROVE  PaidByTheDay'
<1> SUFFICES ASSUME NEW n \in Members
             PROVE  \E days \in 0 .. lastDailyAt[n] : Balance(n, days)'
  BY DEF CInv, PaidByTheDay
<1>1. PICK days \in 0 .. lastDailyAt[n] : Balance(n, days)
  BY DEF CInv, PaidByTheDay
<1>2. Wins(n)' = Wins(n)
  BY DEF Wins, Items
<1>3. /\ coins[n] \in Nat /\ coins'[n] \in Nat /\ counted[n] \in Nat /\ counted'[n] \in Nat
      /\ lost[n] \in Nat /\ lastDailyAt[n] \in Nat
  BY DEF CInv, CommunityTypeOK
<1>4. Unpaid(n) \in Nat /\ days \in Nat /\ Cardinality(Wins(n)) \in Nat
  BY <1>3, UnpaidCounts, ItemsCount DEF Wins
<1>5. PICK a \in Nat, b \in Nat, c \in Nat :
          /\ a = Unpaid(n)
          /\ b = Unpaid(n)'
          /\ c = Cardinality(Wins(n))
  BY <1>4
<1>6. coins[n] = 150 * days + 50 * (counted[n] - lost[n] - a) + 250 * c
  BY <1>1, <1>5 DEF Balance, Daily, CountCoins, DropCoins
<1>7. coins'[n] - coins[n] = 50 * ((counted'[n] - counted[n]) - (b - a))
  BY <1>5 DEF CountCoins
<1>8. coins'[n] = 150 * days + 50 * (counted'[n] - lost[n] - b) + 250 * c
  BY <1>3, <1>4, <1>6, <1>7, Amounts
<1> QED BY <1>2, <1>5, <1>8 DEF Balance, Daily, CountCoins, DropCoins

-----------------------------------------------------------------------------
(***************************************************************************)
(* claimDaily: a day is paid that was not paid before, so there is one     *)
(* more to account for.                                                    *)
(***************************************************************************)
LEMMA ClaimDailyKeeps == ASSUME CInv, NEW m \in Members, ClaimDaily(m) PROVE CInv'
<1>1. /\ Ready(lastDailyAt[m])
      /\ lastDailyAt' = [lastDailyAt EXCEPT ![m] = day]
      /\ coins' = [coins EXCEPT ![m] = @ + Daily]
      /\ UNCHANGED <<item, stats, lastXpAt, messages, buttons, staffRole, press, day,
                     told, givenUp, counted, lost>>
  BY DEF ClaimDaily, sentVars, runVars, pastVars
<1>2. /\ PressesAreInOrder' /\ OneAtWork' /\ ItemsAreInOrder' /\ NotMadeNotTold'
      /\ StatsAreTrue' /\ RolesAreTrue'
  BY <1>1, ItemsLeftAlone
<1>3. /\ lastDailyAt \in [Members -> Nat] /\ coins \in [Members -> Nat] /\ day \in Nat \ {0}
  BY DEF CInv, CommunityTypeOK
<1>4. lastDailyAt' \in [Members -> Nat] /\ coins' \in [Members -> Nat]
  BY <1>1, <1>3 DEF Daily
<1>5. CommunityTypeOK'
  BY <1>1, <1>4 DEF CInv, CommunityTypeOK, Items
<1>6. PaidByTheDay'
  <2> SUFFICES ASSUME NEW n \in Members
               PROVE  /\ lastDailyAt'[n] <= day
                      /\ \E days \in 0 .. lastDailyAt'[n] : Balance(n, days)'
    BY <1>1 DEF CInv, PaidByTheDay
  <2>1. PICK days \in 0 .. lastDailyAt[n] : Balance(n, days)
    BY DEF CInv, PaidByTheDay
  <2>2. Unpaid(n)' = Unpaid(n) /\ Wins(n)' = Wins(n)
    BY <1>1 DEF Unpaid, Wins, Items
  <2>3. lastDailyAt[n] <= day
    BY DEF CInv, PaidByTheDay
  <2>4. CASE n = m
    <3>1. days + 1 \in 0 .. day
      BY <1>1, <1>3, <2>1, <2>4 DEF Ready
    <3>2. coins'[n] = coins[n] + Daily /\ lastDailyAt'[n] = day
      BY <1>1, <1>3, <2>4
    <3>3. PICK c \in Nat, u \in Nat : c = Cardinality(Wins(n)) /\ u = Unpaid(n)
      BY UnpaidCounts, ItemsCount DEF Wins
    <3>4. coins[n] = 150 * days + 50 * (counted[n] - lost[n] - u) + 250 * c
      BY <2>1, <3>3 DEF Balance, Daily, CountCoins, DropCoins
    <3>5. counted[n] \in Nat /\ lost[n] \in Nat /\ coins[n] \in Nat /\ days \in Nat
      BY <1>3 DEF CInv, CommunityTypeOK
    <3>6. coins[n] + 150 = 150 * (days + 1) + 50 * (counted[n] - lost[n] - u) + 250 * c
      BY <3>3, <3>4, <3>5
    <3>7. Balance(n, days + 1)'
      BY <1>1, <2>2, <3>2, <3>3, <3>6 DEF Balance, Daily, CountCoins, DropCoins
    <3> QED BY <1>3, <3>1, <3>2, <3>7
  <2>5. CASE n # m
    <3>1. lastDailyAt'[n] = lastDailyAt[n] /\ coins'[n] = coins[n]
      BY <1>1, <1>3, <2>5
    <3> QED BY <1>1, <2>1, <2>2, <2>3, <3>1 DEF Balance
  <2> QED BY <2>4, <2>5
<1> QED BY <1>2, <1>5, <1>6 DEF CInv

(***************************************************************************)
(* A message is rewarded or not; no coins move.                            *)
(***************************************************************************)
LEMMA MessageKeeps == ASSUME CInv, NEW m \in Members, Message(m) PROVE CInv'
<1>1. UNCHANGED <<item, stats, coins, lastDailyAt, buttons, staffRole, press, day,
                  told, givenUp, counted, lost>>
  BY DEF Message, sentVars, runVars, pastVars
<1>2. /\ PressesAreInOrder' /\ OneAtWork' /\ ItemsAreInOrder' /\ NotMadeNotTold'
      /\ StatsAreTrue' /\ RolesAreTrue'
  BY <1>1, ItemsLeftAlone
<1>3. /\ lastXpAt' \in [Members -> Nat] /\ messages' \in [Members -> Nat]
      /\ \A n \in Members : messages'[n] <= lastXpAt'[n] /\ lastXpAt'[n] <= day
  BY <1>1, XpOnceADay DEF Message
<1>4. CommunityTypeOK'
  BY <1>1, <1>3 DEF CInv, CommunityTypeOK, Items
<1>5. PaidByTheDay'
  <2>1. \A days : \A n \in Members : Balance(n, days) => Balance(n, days)'
    BY <1>1 DEF Balance, Unpaid, Wins, Items
  <2> QED BY <1>1, <1>3, <2>1 DEF CInv, PaidByTheDay
<1> QED BY <1>2, <1>4, <1>5 DEF CInv

(***************************************************************************)
(* A day passes.                                                           *)
(***************************************************************************)
LEMMA NextDayKeeps == ASSUME CInv, NextDay PROVE CInv'
<1>1. /\ day' = day + 1
      /\ UNCHANGED <<item, stats, coins, lastDailyAt, lastXpAt, messages, buttons, staffRole,
                     press, told, givenUp, counted, lost>>
  BY DEF NextDay, storedVars, sentVars, pastVars
<1>2. /\ PressesAreInOrder' /\ OneAtWork' /\ ItemsAreInOrder' /\ NotMadeNotTold'
      /\ StatsAreTrue' /\ RolesAreTrue'
  BY <1>1, ItemsLeftAlone
<1>3. CommunityTypeOK'
  BY <1>1 DEF CInv, CommunityTypeOK, Items
<1>4. PaidByTheDay'
  <2>1. \A days : \A n \in Members : Balance(n, days) => Balance(n, days)'
    BY <1>1 DEF Balance, Unpaid, Wins, Items
  <2>2. \A n \in Members : lastDailyAt[n] <= day' /\ lastXpAt[n] <= day'
    BY <1>1 DEF CInv, PaidByTheDay, CommunityTypeOK
  <2> QED BY <1>1, <2>1, <2>2 DEF CInv, PaidByTheDay
<1> QED BY <1>2, <1>3, <1>4 DEF CInv

-----------------------------------------------------------------------------
(***************************************************************************)
(* Numbers: a rewarded one is due until its coins are paid.                *)
(***************************************************************************)
DuePress(m) == [Quiet EXCEPT !.at = "react", !.user = m, !.choice = "rewarded"]

(***************************************************************************)
(* A quiet handler begins a reaction.                                      *)
(***************************************************************************)
LEMMA UnpaidGrows ==
  ASSUME NEW h \in Handlers, press[h] = Quiet, \A g \in Handlers \ {h} : press'[g] = press[g],
         NEW n
  PROVE  Unpaid(n)' = IF press'[h] = DuePress(n) THEN Unpaid(n) + 1 ELSE Unpaid(n)
<1>1. PICK r : r = DuePress(n)
  OBVIOUS
<1>2. r # Quiet
  BY <1>1 DEF DuePress, Quiet
<1>3. UnpaidSet(n) = {g \in Handlers : press[g] = r}
      /\ UnpaidSet(n)' = {g \in Handlers : press'[g] = r}
  BY <1>1 DEF UnpaidSet, DuePress
<1>4. h \notin UnpaidSet(n)
  BY <1>2, <1>3
<1>5. CASE press'[h] = r
  <2>1. UnpaidSet(n)' = UnpaidSet(n) \cup {h}
    BY <1>3, <1>5
  <2>2. Cardinality(UnpaidSet(n) \cup {h}) = Cardinality(UnpaidSet(n)) + 1
    BY <1>4, UnpaidCounts, FS_AddElement
  <2> QED BY <1>1, <1>5, <2>1, <2>2, UnpaidCounts
<1>6. CASE press'[h] # r
  <2>1. UnpaidSet(n)' = UnpaidSet(n)
    BY <1>2, <1>3, <1>6
  <2> QED BY <1>1, <1>6, <2>1, UnpaidCounts
<1> QED BY <1>5, <1>6

(***************************************************************************)
(* A handler ends its reaction.                                            *)
(***************************************************************************)
LEMMA UnpaidShrinks ==
  ASSUME NEW h \in Handlers, press'[h].at # "react",
         \A g \in Handlers \ {h} : press'[g] = press[g], NEW n
  PROVE  Unpaid(n)' = IF press[h] = DuePress(n) THEN Unpaid(n) - 1 ELSE Unpaid(n)
<1>1. PICK r : r = DuePress(n)
  OBVIOUS
<1>2. r.at = "react"
  BY <1>1 DEF DuePress, Quiet
<1>3. UnpaidSet(n) = {g \in Handlers : press[g] = r}
      /\ UnpaidSet(n)' = {g \in Handlers : press'[g] = r}
  BY <1>1 DEF UnpaidSet, DuePress
<1>4. h \notin UnpaidSet(n)'
  BY <1>2, <1>3
<1>5. CASE press[h] = r
  <2>1. UnpaidSet(n)' = UnpaidSet(n) \ {h} /\ h \in UnpaidSet(n)
    BY <1>3, <1>4, <1>5
  <2>2. Cardinality(UnpaidSet(n) \ {h}) = Cardinality(UnpaidSet(n)) - 1
    BY <2>1, UnpaidCounts, FS_RemoveElement
  <2> QED BY <1>1, <1>5, <2>1, <2>2, UnpaidCounts
<1>6. CASE press[h] # r
  <2>1. UnpaidSet(n)' = UnpaidSet(n)
    BY <1>3, <1>4, <1>6
  <2> QED BY <1>1, <1>6, <2>1, UnpaidCounts
<1> QED BY <1>5, <1>6

(***************************************************************************)
(* Presses for different members are different.                            *)
(***************************************************************************)
LEMMA DueIsTheirs ==
  \A m, n : DuePress(m) = DuePress(n) => m = n
<1> SUFFICES ASSUME NEW m, NEW n, DuePress(m) = DuePress(n) PROVE m = n
  OBVIOUS
<1>1. DuePress(m).user = m /\ DuePress(n).user = n
  BY DEF DuePress, Quiet
<1> QED BY <1>1

(***************************************************************************)
(* The command that counts pays in the same step.                          *)
(***************************************************************************)
LEMMA SlashCountKeeps ==
  ASSUME CInv, NEW m \in Members, NEW value, SubmitSlashCount(m, value) PROVE CInv'
<1>1. /\ counted' = IF Rewarded(m, value) THEN [counted EXCEPT ![m] = @ + 1] ELSE counted
      /\ coins' = IF Rewarded(m, value) THEN Paid(m) ELSE coins
      /\ UNCHANGED <<item, stats, lastDailyAt, lastXpAt, messages, buttons, staffRole, press,
                     day, told, givenUp, lost>>
  BY DEF SubmitSlashCount, SubmitCount, sentVars, runVars
<1>2. /\ PressesAreInOrder' /\ OneAtWork' /\ ItemsAreInOrder' /\ NotMadeNotTold'
      /\ StatsAreTrue' /\ RolesAreTrue'
  BY <1>1, ItemsLeftAlone
<1>3. counted \in [Members -> Nat] /\ coins \in [Members -> Nat]
  BY DEF CInv, CommunityTypeOK
<1>4. counted' \in [Members -> Nat] /\ coins' \in [Members -> Nat]
  BY <1>1, <1>3 DEF Paid, CountCoins
<1>5. CommunityTypeOK'
  BY <1>1, <1>4 DEF CInv, CommunityTypeOK, Items
<1>6. \A n \in Members : Unpaid(n)' = Unpaid(n) /\ Unpaid(n) \in Nat
  BY <1>1, UnpaidCounts DEF Unpaid
<1>7. \A n \in Members : coins'[n] - coins[n] = CountCoins * (counted'[n] - counted[n])
  BY <1>1, <1>3 DEF Paid, CountCoins
<1>8. PaidByTheDay'
  <2>1. \A n \in Members :
          coins'[n] - coins[n] =
            CountCoins * ((counted'[n] - counted[n]) - (Unpaid(n)' - Unpaid(n)))
    BY <1>3, <1>4, <1>6, <1>7 DEF CountCoins
  <2>2. \A n \in Members : messages'[n] <= lastXpAt'[n] /\ lastXpAt'[n] <= day
    BY <1>1 DEF CInv, PaidByTheDay
  <2> QED BY <1>1, <1>4, <1>6, <2>1, <2>2, StillPaid
<1> QED BY <1>2, <1>5, <1>8 DEF CInv

(***************************************************************************)
(* A message that counts is paid later: until then its coins are due.      *)
(***************************************************************************)
LEMMA CountMessageKeeps ==
  ASSUME CInv, NEW h \in Handlers, NEW m \in Members, NEW value, CountMessage(h, m, value)
  PROVE  CInv'
<1>1. PICK choice \in {"rewarded", "accepted", "refused"} :
        choice = IF Rewarded(m, value) THEN "rewarded"
                 ELSE IF Accepted(m, value) THEN "accepted" ELSE "refused"
  OBVIOUS
<1>2. PICK me \in PressRecord :
        me = [Quiet EXCEPT !.at = "react", !.user = m, !.choice = choice]
  BY QuietIsRecord DEF PressRecord
<1>3. /\ me.at = "react" /\ me.item = 0 /\ me.user = m /\ me.choice = choice
      /\ press[h] = Quiet /\ press' = [press EXCEPT ![h] = me]
      /\ counted' = IF Rewarded(m, value) THEN [counted EXCEPT ![m] = @ + 1] ELSE counted
      /\ UNCHANGED <<item, stats, coins, lastDailyAt, lastXpAt, messages, buttons, staffRole,
                     day, told, givenUp, lost>>
  BY <1>1, <1>2 DEF CountMessage, SubmitCount, sentVars, Quiet
<1>4. /\ press' \in [Handlers -> PressRecord] /\ press'[h] = me
      /\ \A g \in Handlers \ {h} : press'[g] = press[g]
      /\ press[h].at = "idle"
  BY <1>3 DEF CInv, CommunityTypeOK, Quiet
<1>5. /\ PressesAreInOrder' /\ OneAtWork' /\ ItemsAreInOrder' /\ NotMadeNotTold'
      /\ StatsAreTrue' /\ RolesAreTrue'
  <2>1. PressIsInOrder(press[h])'
    BY <1>3, <1>4 DEF PressIsInOrder, Doing, Work
  <2> QED BY <1>3, <1>4, <2>1, ItemsLeftAlone DEF Elsewhere
<1>6. counted \in [Members -> Nat] /\ coins \in [Members -> Nat]
  BY DEF CInv, CommunityTypeOK
<1>7. counted' \in [Members -> Nat]
  BY <1>3, <1>6
<1>8. CommunityTypeOK'
  BY <1>3, <1>4, <1>7 DEF CInv, CommunityTypeOK, Items
<1>9. \A n \in Members : me = DuePress(n) <=> n = m /\ Rewarded(m, value)
  <2>1. Rewarded(m, value) => me = DuePress(m)
    BY <1>1, <1>2 DEF DuePress
  <2>2. ASSUME NEW n \in Members, me = DuePress(n) PROVE n = m /\ Rewarded(m, value)
    <3>1. DuePress(n).user = n /\ DuePress(n).choice = "rewarded"
      BY DEF DuePress, Quiet
    <3> QED BY <1>1, <1>3, <2>2, <3>1
  <2> QED BY <2>1, <2>2
<1>10. \A n \in Members :
         /\ Unpaid(n) \in Nat
         /\ Unpaid(n)' = IF n = m /\ Rewarded(m, value) THEN Unpaid(n) + 1 ELSE Unpaid(n)
  BY <1>3, <1>4, <1>9, UnpaidGrows, UnpaidCounts
<1>11. \A n \in Members :
         counted'[n] = IF n = m /\ Rewarded(m, value) THEN counted[n] + 1 ELSE counted[n]
  BY <1>3, <1>6
<1>12. PaidByTheDay'
  <2>1. \A n \in Members :
          coins'[n] - coins[n] =
            CountCoins * ((counted'[n] - counted[n]) - (Unpaid(n)' - Unpaid(n)))
    BY <1>3, <1>6, <1>10, <1>11 DEF CountCoins
  <2>2. \A n \in Members : messages'[n] <= lastXpAt'[n] /\ lastXpAt'[n] <= day
    BY <1>3 DEF CInv, PaidByTheDay
  <2>3. \A n \in Members : Unpaid(n)' \in Nat
    BY <1>10
  <2> QED BY <1>3, <1>6, <1>7, <2>1, <2>2, <2>3, StillPaid
<1> QED BY <1>5, <1>8, <1>12 DEF CInv

(***************************************************************************)
(* The reaction to a counted message pays what is due.                     *)
(***************************************************************************)
LEMMA ReactedKeeps == ASSUME CInv, NEW h \in Handlers, Reacted(h) PROVE CInv'
<1>1. PICK m \in Members : m = press[h].user /\ press[h].item = 0 /\ press[h].at = "react"
  BY DEF Reacted, Moves, CInv, PressesAreInOrder, PressIsInOrder
<1>2. PICK choice : choice = press[h].choice
  OBVIOUS
<1>3. PICK to \in {"idle", "answer"} : to = IF choice = "accepted" THEN "idle" ELSE "answer"
  OBVIOUS
<1>4. /\ Moves(h, "react", to)
      /\ coins' = IF choice = "rewarded" THEN Paid(m) ELSE coins
      /\ IF choice = "accepted" THEN AwardMessageXp(m) ELSE UNCHANGED <<lastXpAt, messages>>
      /\ UNCHANGED <<item, stats, lastDailyAt, buttons, staffRole, day, told, givenUp,
                     counted, lost>>
  BY <1>1, <1>2, <1>3 DEF Reacted, sentVars, pastVars
<1>5. /\ press' \in [Handlers -> PressRecord]
      /\ \A g \in Handlers :
           \/ press'[g] = press[g]
           \/ /\ press[g].at \in Elsewhere /\ press'[g].at \in Elsewhere
              /\ PressIsInOrder(press[g])'
  BY <1>4, GoesElsewhere
<1>6. /\ PressesAreInOrder' /\ OneAtWork' /\ ItemsAreInOrder' /\ NotMadeNotTold'
      /\ StatsAreTrue' /\ RolesAreTrue'
  BY <1>4, <1>5, ItemsLeftAlone
<1>7. /\ lastXpAt' \in [Members -> Nat] /\ messages' \in [Members -> Nat]
      /\ \A n \in Members : messages'[n] <= lastXpAt'[n] /\ lastXpAt'[n] <= day
  BY <1>4, XpOnceADay DEF CInv, CommunityTypeOK, PaidByTheDay
<1>8. coins \in [Members -> Nat]
  BY DEF CInv, CommunityTypeOK
<1>9. coins' \in [Members -> Nat]
  BY <1>4, <1>8 DEF Paid, CountCoins
<1>10. CommunityTypeOK'
  BY <1>4, <1>5, <1>7, <1>9 DEF CInv, CommunityTypeOK, Items
<1>11. \A n \in Members : press[h] = DuePress(n) <=> n = m /\ choice = "rewarded"
  <2>1. choice = "rewarded" => press[h] = DuePress(m)
    <3>1. press[h] \in PressRecord
      BY DEF CInv, CommunityTypeOK
    <3>2. PICK r \in PressRecord : r = DuePress(m)
      BY QuietIsRecord DEF PressRecord, DuePress
    <3>3. r.at = "react" /\ r.item = 0 /\ r.user = m /\ r.choice = "rewarded"
      BY <3>2 DEF DuePress, Quiet
    <3>4. \A p, q \in PressRecord :
            p.at = q.at /\ p.item = q.item /\ p.user = q.user /\ p.choice = q.choice => p = q
      BY DEF PressRecord
    <3> QED BY <1>1, <1>2, <3>1, <3>2, <3>3, <3>4
  <2>2. ASSUME NEW n \in Members, press[h] = DuePress(n) PROVE n = m /\ choice = "rewarded"
    <3>1. DuePress(n).user = n /\ DuePress(n).choice = "rewarded"
      BY DEF DuePress, Quiet
    <3> QED BY <1>1, <1>2, <2>2, <3>1
  <2> QED BY <2>1, <2>2
<1>12. press'[h].at # "react" /\ \A g \in Handlers \ {h} : press'[g] = press[g]
  BY <1>3, <1>4, MovesTo DEF Quiet
<1>13. \A n \in Members :
         /\ Unpaid(n) \in Nat /\ Unpaid(n)' \in Nat
         /\ Unpaid(n)' = IF n = m /\ choice = "rewarded" THEN Unpaid(n) - 1 ELSE Unpaid(n)
  BY <1>11, <1>12, UnpaidShrinks, UnpaidCounts
<1>14. \A n \in Members :
         coins'[n] = IF n = m /\ choice = "rewarded" THEN coins[n] + CountCoins ELSE coins[n]
  BY <1>4, <1>8 DEF Paid
<1>15. PaidByTheDay'
  <2>1. counted' = counted /\ counted \in [Members -> Nat]
    BY <1>4 DEF CInv, CommunityTypeOK
  <2>2. \A n \in Members :
          coins'[n] - coins[n] =
            CountCoins * ((counted'[n] - counted[n]) - (Unpaid(n)' - Unpaid(n)))
    BY <1>8, <1>13, <1>14, <2>1 DEF CountCoins
  <2> QED BY <1>4, <1>7, <1>9, <1>13, <2>1, <2>2, StillPaid
<1> QED BY <1>6, <1>10, <1>15 DEF CInv

(***************************************************************************)
(* The answer to a counted message, or its failure.                        *)
(***************************************************************************)
LEMMA AnsweredKeeps ==
  ASSUME CInv, NEW h \in Handlers, Answered(h) \/ AnswerFails(h) PROVE CInv'
<1>1. /\ Moves(h, "answer", "idle")
      /\ AwardMessageXp(press[h].user) \/ UNCHANGED <<lastXpAt, messages>>
      /\ UNCHANGED <<item, stats, coins, lastDailyAt, buttons, staffRole, day, told, givenUp,
                     counted, lost>>
  BY DEF Answered, AnswerFails, storedVars, sentVars, pastVars
<1>2. press[h].user \in Members /\ press[h].at = "answer"
  BY <1>1 DEF Moves, CInv, PressesAreInOrder, PressIsInOrder
<1>3. /\ press' \in [Handlers -> PressRecord]
      /\ \A g \in Handlers :
           \/ press'[g] = press[g]
           \/ /\ press[g].at \in Elsewhere /\ press'[g].at \in Elsewhere
              /\ PressIsInOrder(press[g])'
  BY <1>1, GoesElsewhere
<1>4. /\ PressesAreInOrder' /\ OneAtWork' /\ ItemsAreInOrder' /\ NotMadeNotTold'
      /\ StatsAreTrue' /\ RolesAreTrue'
  BY <1>1, <1>3, ItemsLeftAlone
<1>5. /\ lastXpAt' \in [Members -> Nat] /\ messages' \in [Members -> Nat]
      /\ \A n \in Members : messages'[n] <= lastXpAt'[n] /\ lastXpAt'[n] <= day
  BY <1>1, <1>2, XpOnceADay DEF CInv, CommunityTypeOK, PaidByTheDay
<1>6. CommunityTypeOK'
  BY <1>1, <1>3, <1>5 DEF CInv, CommunityTypeOK, Items
<1>7. PaidByTheDay'
  <2>1. ReactsNothing
    BY <1>1, MovesTo DEF ReactsNothing, Quiet
  <2>2. \A days : \A n \in Members : Balance(n, days) => Balance(n, days)'
    BY <1>1, <2>1, UnpaidStays DEF Balance, Wins, Items
  <2> QED BY <1>1, <1>5, <2>2 DEF CInv, PaidByTheDay
<1> QED BY <1>4, <1>6, <1>7 DEF CInv

-----------------------------------------------------------------------------
(***************************************************************************)
(* At first there is nothing to keep in order.                             *)
(***************************************************************************)
LEMMA CommunityInitial == CommunityInit => CInv
<1> SUFFICES ASSUME CommunityInit PROVE CInv
  OBVIOUS
<1>1. item = <<>> /\ Len(item) = 0 /\ Items = {}
  BY DEF CommunityInit, Items
<1>2. CommunityTypeOK
  BY <1>1, QuietIsRecord, CommunityAssumption DEF CommunityInit, CommunityTypeOK
<1>3. PressesAreInOrder /\ OneAtWork
  BY DEF CommunityInit, PressesAreInOrder, PressIsInOrder, OneAtWork, Quiet, Doing, Work
<1>4. ItemsAreInOrder /\ NotMadeNotTold /\ RolesAreTrue
  BY <1>1 DEF CommunityInit, ItemsAreInOrder, NotMadeNotTold, RolesAreTrue
<1>5. StatsAreTrue
  BY <1>1, FS_EmptySet DEF CommunityInit, StatsAreTrue, DecidedOf
<1>6. PaidByTheDay
  <2> SUFFICES ASSUME NEW m \in Members PROVE Balance(m, 0)
    BY DEF CommunityInit, PaidByTheDay
  <2>1. Wins(m) = {} /\ Cardinality(Wins(m)) = 0
    BY <1>1, FS_EmptySet DEF Wins
  <2>2. UnpaidSet(m) = {} /\ Unpaid(m) = 0
    <3>1. PICK r : r = DuePress(m)
      OBVIOUS
    <3>2. r # Quiet
      BY <3>1 DEF DuePress, Quiet
    <3>3. UnpaidSet(m) = {}
      BY <3>1, <3>2 DEF CommunityInit, UnpaidSet, DuePress
    <3> QED BY <3>3, UnpaidCounts, FS_EmptySet
  <2> QED BY <2>1, <2>2 DEF CommunityInit, Balance, Daily, CountCoins, DropCoins
<1> QED BY <1>2, <1>3, <1>4, <1>5, <1>6 DEF CInv

(***************************************************************************)
(* Every step keeps the invariant.                                         *)
(***************************************************************************)
LEMMA CommunityStep == CInv /\ [CommunityNext]_communityVars => CInv'
<1> SUFFICES ASSUME CInv, [CommunityNext]_communityVars PROVE CInv'
  OBVIOUS
<1>1. CASE UNCHANGED communityVars
  <2>1. UNCHANGED <<item, stats, coins, lastDailyAt, lastXpAt, messages, buttons, staffRole,
                    press, day, told, givenUp, counted, lost>>
    BY <1>1 DEF communityVars, storedVars, sentVars, runVars, pastVars
  <2>2. /\ PressesAreInOrder' /\ OneAtWork' /\ ItemsAreInOrder' /\ NotMadeNotTold'
        /\ StatsAreTrue' /\ RolesAreTrue'
    BY <2>1, ItemsLeftAlone
  <2>3. CommunityTypeOK'
    BY <2>1 DEF CInv, CommunityTypeOK, Items
  <2>4. PaidByTheDay'
    <3>1. \A days : \A n \in Members : Balance(n, days) => Balance(n, days)'
      BY <2>1 DEF Balance, Unpaid, Wins, Items
    <3> QED BY <2>1, <3>1 DEF CInv, PaidByTheDay
  <2> QED BY <2>2, <2>3, <2>4 DEF CInv
<1>2. ASSUME NEW h \in Handlers,
             \/ Posted(h) \/ NotPosted(h)
             \/ Refused(h) \/ Review(h) \/ ClaimDrop(h)
             \/ RoleAdded(h) \/ Updated(h) \/ Told(h) \/ DecisionFails(h)
             \/ Reacted(h) \/ Answered(h) \/ AnswerFails(h)
      PROVE  CInv'
  <2>1. CASE NotPosted(h)
    BY <2>1, GivesUpKeeps DEF NotPosted, Doing
  <2> QED BY <1>2, <2>1, PostedKeeps, RefusedKeeps, ReviewKeeps, ClaimDropKeeps, RoleAddedKeeps,
             UpdatedKeeps, ToldKeeps, DecisionFailsKeeps, ReactedKeeps, AnsweredKeeps
<1> QED BY <1>1, <1>2, SubmitKeeps, PressKeeps, ClaimDailyKeeps, MessageKeeps, SlashCountKeeps,
           CountMessageKeeps, NextDayKeeps, StartsAgainKeeps DEF CommunityNext

(***************************************************************************)
(* The invariant holds in every behaviour.                                 *)
(***************************************************************************)
LEMMA CommunityInvariance == CommunitySpec => []CInv
BY CommunityInitial, CommunityStep, PTL DEF CommunitySpec

(***************************************************************************)
(* However presses, failures and restarts interleave, an item is decided   *)
(* once, and its author, its buttons, the role and the status page follow  *)
(* that decision.                                                          *)
(***************************************************************************)
THEOREM Decisions == CommunitySpec => []ItemsAreDecidedOnce
<1>1. CInv => ItemsAreDecidedOnce
  BY DEF CInv, ItemsAreInOrder, ItemIsInOrder, RoleIsSettled, StatsAreTrue, DecidedOf,
         RolesAreTrue, ItemsAreDecidedOnce
<1> QED BY <1>1, CommunityInvariance, PTL

(***************************************************************************)
(* Members have the coins they were promised and no more, whoever presses  *)
(* and whatever a restart forgets; experience is given once in a cooldown. *)
(***************************************************************************)
THEOREM Rewards == CommunitySpec => []RewardsArePaidOnce
<1>1. CInv => RewardsArePaidOnce
  <2> SUFFICES ASSUME CInv, NEW m \in Members
               PROVE  /\ \E days \in 0 .. day : Balance(m, days)
                      /\ messages[m] <= day
    BY DEF RewardsArePaidOnce, Balance, Wins
  <2>1. lastDailyAt[m] \in Nat /\ lastXpAt[m] \in Nat /\ messages[m] \in Nat /\ day \in Nat
    BY DEF CInv, CommunityTypeOK
  <2> QED BY <2>1 DEF CInv, PaidByTheDay
<1> QED BY <1>1, CommunityInvariance, PTL

(***************************************************************************)
(* Both: what members see and get is what was decided, and decided once.   *)
(***************************************************************************)
THEOREM FairDealings == CommunitySpec => []DealingsAreFair
<1>1. ItemsAreDecidedOnce /\ RewardsArePaidOnce => DealingsAreFair
  BY DEF DealingsAreFair
<1> QED BY <1>1, Decisions, Rewards, PTL

-----------------------------------------------------------------------------
(***************************************************************************)
(* Invites.  What a list of the uses says of invite c, and that it is not  *)
(* ahead of them.                                                          *)
(***************************************************************************)
Count(list, c) == IF c \in DOMAIN list THEN list[c] ELSE 0

Lists == UNION {[S -> Nat] : S \in SUBSET Codes}

IsBehind(list) == \A c \in DOMAIN list : list[c] <= uses[c]

Exact(list) == \A c \in live : Count(list, c) = uses[c]

InviteTypes ==
  /\ uses \in [Codes -> Nat] /\ live \subseteq Codes
  /\ inviteUses \in Lists /\ IsBehind(inviteUses)
  /\ tracking \in BOOLEAN /\ confused \in BOOLEAN

(***************************************************************************)
(* What the store has of the joins.                                        *)
(***************************************************************************)
Recorded ==
  /\ invited \in [Joiners -> Invites!Invitation \cup {None}]
  /\ by \in [Joiners -> Codes \cup {0}]
  /\ credited \in [Joiners -> Nat]
  /\ claimed \in [Joiners -> SUBSET Milestones]
  /\ earned \in [Joiners -> [Milestones -> Nat]]
  /\ InvitesAreTrue

(***************************************************************************)
(* What each handler of a join, and the start, waits for.                  *)
(***************************************************************************)
Fetchers == Invites!Fetchers

FetchSteps == {"idle", "wait", "compare", "ask", "refresh"}

Fetch ==
  [at : FetchSteps, member : Joiners \cup {None}, code : Codes \cup {0}, list : Lists]

FetchInOrder(call) ==
  /\ call.at = "idle" => call = Invites!Quiet
  /\ call.at \in {"wait", "compare"} => call.member \in Joiners /\ call.code \in Codes
  /\ IsBehind(call.list)

FetchesAreInOrder ==
  /\ fetch \in [Fetchers -> Fetch]
  /\ \A f \in Fetchers : FetchInOrder(fetch[f])
  /\ fetch[0].at \in {"idle", "ask", "refresh"}
  /\ fetch[0].at # "idle" => ~tracking /\ \A f \in Joins : fetch[f].at = "idle"

(***************************************************************************)
(* As long as joins come one by one, the snapshot differs from the uses by *)
(* the join that is being handled.                                         *)
(***************************************************************************)
OneMore(call, c) == Count(inviteUses, c) + IF c = call.code THEN 1 ELSE 0

FetchIsExact(call) ==
  /\ call.at = "wait" =>
       /\ \A c \in live : uses[c] = OneMore(call, c)
       /\ uses[call.code] > 0
       /\ call.code \in live <=> call.code \notin SingleUse
  /\ call.at = "compare" =>
       /\ \A c \in DOMAIN call.list : call.list[c] = OneMore(call, c)
       /\ call.code \in DOMAIN call.list <=> call.code \notin SingleUse
  /\ call.at \in {"compare", "refresh"} => Exact(call.list)

JoinsAreOneByOne ==
  /\ \A f, g \in Fetchers : fetch[f].at # "idle" /\ fetch[g].at # "idle" => f = g
  /\ \A f \in Fetchers : FetchIsExact(fetch[f])
  /\ tracking /\ (\A f \in Fetchers : fetch[f].at = "idle") => Exact(inviteUses)

InvitesInv ==
  /\ InviteTypes
  /\ Recorded
  /\ FetchesAreInOrder
  /\ ~confused => JoinsAreOneByOne

-----------------------------------------------------------------------------
(***************************************************************************)
(* What is assumed of the invites, with the operators of this module.      *)
(***************************************************************************)
LEMMA InviteConstants ==
  /\ Codes \subseteq Nat \ {0} /\ InviterOf \in [Codes -> Joiners]
  /\ IsFiniteSet(Joiners) /\ None \notin Joiners /\ None \notin Invites!Invitation
  /\ Milestones \subseteq Nat /\ 0 \notin Joins /\ Fetchers = Joins \cup {0}
BY InvitesAssumption DEF Invites!Assumptions, Invites!IsFiniteSet, IsFiniteSet, Fetchers,
   Invites!Fetchers, Invites!Start

(***************************************************************************)
(* Invites counts like the standard module.                                *)
(***************************************************************************)
LEMMA InviteCardinality == \A S : Invites!Cardinality(S) = Cardinality(S)
BY DEF Invites!Cardinality, Cardinality

(***************************************************************************)
(* A set of naturals has a least element.                                  *)
(***************************************************************************)
LEMMA HasLeast ==
  ASSUME NEW T, T \subseteq Nat, T # {}
  PROVE  \E x \in T : \A y \in T : x <= y
<1>1. PICK R : R = OpToRel(<, Nat) BY Zenon
<1>2. IsWellFoundedOn(R, Nat) BY <1>1, NatLessThanWellFounded, Zenon
<1>3. PICK x \in T : \A y \in T : ~ (<<y, x>> \in R) BY <1>2, WFMin, Zenon
<1>4. \A y \in T : y < x => <<y, x>> \in R BY <1>1, Zenon DEF OpToRel
<1>5. \A y \in T : ~(y < x) => x <= y OBVIOUS
<1> QED BY <1>3, <1>4, <1>5

(***************************************************************************)
(* A list that is exact stays so until somebody joins; and one that is     *)
(* behind stays behind.                                                    *)
(***************************************************************************)
LEMMA StaysBehind ==
  ASSUME NEW list \in Lists, IsBehind(list),
         uses \in [Codes -> Nat], uses' \in [Codes -> Nat],
         \A c \in Codes : uses[c] <= uses'[c]
  PROVE  IsBehind(list)'
<1>1. DOMAIN list \subseteq Codes /\ \A c \in DOMAIN list : list[c] \in Nat BY DEF Lists
<1> QED BY <1>1 DEF IsBehind

(***************************************************************************)
(* What Discord lists is exact.                                            *)
(***************************************************************************)
LEMMA ListedIsExact ==
  ASSUME InviteTypes
  PROVE  /\ Invites!Listed \in Lists /\ IsBehind(Invites!Listed) /\ Exact(Invites!Listed)
         /\ DOMAIN Invites!Listed = live
         /\ \A c \in live : Invites!Listed[c] = uses[c]
<1>1. Invites!Listed \in [live -> Nat] BY DEF InviteTypes, Invites!Listed
<1>2. live \in SUBSET Codes BY DEF InviteTypes
<1>3. Invites!Listed \in Lists BY <1>1, <1>2 DEF Lists
<1> QED BY <1>1, <1>3 DEF InviteTypes, Invites!Listed, IsBehind, Exact, Count

(***************************************************************************)
(* The invariant holds at the start.                                       *)
(***************************************************************************)
LEMMA InvitesInitial == Invites!Init => InvitesInv
<1> SUFFICES ASSUME Invites!Init PROVE InvitesInv
  OBVIOUS
<1> USE InviteConstants
<1>1. <<>> \in Lists /\ DOMAIN <<>> = {}
  <2>1. <<>> \in [{} -> Nat] BY SMT
  <2>2. {} \in SUBSET Codes BY SMT
  <2> QED BY <2>1, <2>2 DEF Lists
<1>2. InviteTypes
  BY <1>1 DEF Invites!Init, InviteTypes, IsBehind
<1>3. Recorded
  <2>1. \A i \in Joiners : {m \in Joiners :
            invited[m] # None /\ invited[m].inviter = i /\ invited[m].eligible} = {}
    BY DEF Invites!Init
  <2>2. Invites!CreditIsPerMember
    BY <2>1, FS_EmptySet, InviteCardinality DEF Invites!Init, Invites!CreditIsPerMember
  <2>3. Invites!AttributionIsTrue
    BY DEF Invites!Init, Invites!AttributionIsTrue
  <2> QED BY <2>2, <2>3 DEF Invites!Init, Recorded, InvitesAreTrue, Invites!InvitesAreTrue
<1>4. /\ \A f \in Joins : fetch[f] = Invites!Quiet
      /\ fetch[0] = [Invites!Quiet EXCEPT !.at = "ask"]
      /\ DOMAIN fetch = Fetchers
  BY DEF Invites!Init, Fetchers, Invites!Start
<1>5. Invites!Quiet \in Fetch /\ [Invites!Quiet EXCEPT !.at = "ask"] \in Fetch
  BY <1>1 DEF Invites!Quiet, Fetch, FetchSteps
<1>6. fetch \in [Fetchers -> Fetch]
  BY <1>4, <1>5 DEF Invites!Init, Fetchers
<1>7. FetchesAreInOrder
  BY <1>1, <1>4, <1>6 DEF Invites!Init, FetchesAreInOrder, FetchInOrder, IsBehind, Invites!Quiet
<1>8. JoinsAreOneByOne
  BY <1>4 DEF Invites!Init, JoinsAreOneByOne, FetchIsExact, Invites!Quiet
<1> QED BY <1>2, <1>3, <1>7, <1>8 DEF InvitesInv

-----------------------------------------------------------------------------
(***************************************************************************)
(* A step that records nothing leaves what is recorded true.               *)
(***************************************************************************)
LEMMA RecordedStays ==
  ASSUME Recorded, UNCHANGED <<invited, credited, claimed, earned, by>>, confused => confused'
  PROVE  Recorded'
<1>1. Invites!AttributionIsTrue => Invites!AttributionIsTrue'
  BY DEF Invites!AttributionIsTrue
<1>2. Invites!CreditIsPerMember => Invites!CreditIsPerMember'
  BY DEF Invites!CreditIsPerMember, Invites!Reached
<1> QED BY <1>1, <1>2 DEF Recorded, InvitesAreTrue, Invites!InvitesAreTrue

(***************************************************************************)
(* The call of f goes from one await to the next, or ends.                 *)
(***************************************************************************)
LEMMA FetchGoesOn ==
  ASSUME InviteTypes, FetchesAreInOrder, NEW f \in Fetchers, NEW x \in Fetch,
         fetch' = [fetch EXCEPT ![f] = x], uses' = uses,
         FetchInOrder(x), f = 0 => x.at \in {"idle", "ask", "refresh"},
         fetch[f].at # "idle",
         tracking' => tracking \/ x.at = "idle"
  PROVE  FetchesAreInOrder'
<1> USE InviteConstants
<1>1. /\ fetch' \in [Fetchers -> Fetch]
      /\ fetch'[f] = x
      /\ \A g \in Fetchers \ {f} : fetch'[g] = fetch[g]
  BY DEF FetchesAreInOrder
<1>2. \A call : FetchInOrder(call)' <=> FetchInOrder(call)
  BY DEF FetchInOrder, IsBehind
<1>3. \A g \in Fetchers : FetchInOrder(fetch[g])'
  BY <1>1, <1>2 DEF FetchesAreInOrder
<1>4. fetch'[0].at # "idle" => ~tracking' /\ \A g \in Joins : fetch'[g].at = "idle"
  BY <1>1 DEF FetchesAreInOrder
<1>5. fetch'[0].at \in {"idle", "ask", "refresh"}
  BY <1>1 DEF FetchesAreInOrder
<1> QED BY <1>1, <1>3, <1>4, <1>5 DEF FetchesAreInOrder

LEMMA FetchStaysExact ==
  ASSUME JoinsAreOneByOne, FetchesAreInOrder, NEW f \in Fetchers, NEW x \in Fetch,
         fetch' = [fetch EXCEPT ![f] = x], fetch[f].at # "idle",
         FetchIsExact(x)',
         x.at = "idle" /\ tracking' => Exact(inviteUses)'
  PROVE  JoinsAreOneByOne'
<1>1. fetch'[f] = x /\ \A g \in Fetchers \ {f} : fetch'[g] = fetch[g] /\ fetch[g].at = "idle"
  BY DEF FetchesAreInOrder, JoinsAreOneByOne
<1>2. \A g \in Fetchers : FetchIsExact(fetch[g])'
  BY <1>1 DEF FetchIsExact
<1>3. \A g, h \in Fetchers : fetch'[g].at # "idle" /\ fetch'[h].at # "idle" => g = h
  BY <1>1
<1>4. tracking' /\ (\A g \in Fetchers : fetch'[g].at = "idle") => Exact(inviteUses)'
  BY <1>1
<1> QED BY <1>2, <1>3, <1>4 DEF JoinsAreOneByOne

(***************************************************************************)
(* No call: Quiet.                                                         *)
(***************************************************************************)
LEMMA NoCallIsInOrder ==
  /\ Invites!Quiet \in Fetch /\ FetchInOrder(Invites!Quiet) /\ Invites!Quiet.at = "idle"
  /\ FetchIsExact(Invites!Quiet)'
<1>1. <<>> \in [{} -> Nat] BY SMT
<1>2. {} \in SUBSET Codes BY SMT
<1>3. <<>> \in Lists BY <1>1, <1>2 DEF Lists
<1> QED BY <1>3 DEF Invites!Quiet, Fetch, FetchSteps, FetchInOrder, IsBehind, FetchIsExact

(***************************************************************************)
(* The start, or a handler whose comparison failed, asks for the invites.  *)
(***************************************************************************)
LEMMA NotPermittedKeeps ==
  ASSUME InvitesInv, NEW f \in Fetchers,
         Invites!NotPermitted(f) \/ Invites!RefreshFails(f)
  PROVE  InvitesInv'
<1> USE DEF InvitesInv
<1>1. /\ fetch' = [fetch EXCEPT ![f] = Invites!Quiet] /\ fetch[f].at # "idle" /\ tracking' = FALSE
      /\ UNCHANGED <<uses, live, inviteUses, confused, invited, credited, claimed, earned, by>>
  BY DEF Invites!NotPermitted, Invites!RefreshFails, Invites!Goes, Invites!discordVars,
         Invites!storeVars
<1>2. Recorded' BY <1>1, RecordedStays
<1>3. InviteTypes' BY <1>1 DEF InviteTypes, IsBehind
<1>4. FetchesAreInOrder' BY <1>1, NoCallIsInOrder, FetchGoesOn
<1>5. ~confused' => JoinsAreOneByOne' BY <1>1, NoCallIsInOrder, FetchStaysExact
<1> QED BY <1>2, <1>3, <1>4, <1>5

LEMMA AskedKeeps ==
  ASSUME InvitesInv, NEW f \in Fetchers, Invites!Asked(f)
  PROVE  InvitesInv'
<1> USE DEF InvitesInv
<1>1. PICK x : x = [fetch[f] EXCEPT !.at = "refresh", !.list = Invites!Listed] OBVIOUS
<1>2. /\ fetch' = [fetch EXCEPT ![f] = x] /\ fetch[f].at = "ask"
      /\ UNCHANGED <<uses, live, inviteUses, tracking, confused, invited, credited, claimed,
                     earned, by>>
  BY <1>1 DEF Invites!Asked, Invites!discordVars, Invites!storeVars
<1>3. x \in Fetch /\ x.at = "refresh" /\ x.list = Invites!Listed
  BY <1>1, ListedIsExact DEF FetchesAreInOrder, Fetch, FetchSteps
<1>4. FetchInOrder(x) BY <1>3, ListedIsExact DEF FetchInOrder
<1>5. FetchIsExact(x)'
  BY <1>2, <1>3, ListedIsExact DEF FetchIsExact, Exact
<1>6. Recorded' BY <1>2, RecordedStays
<1>7. InviteTypes' BY <1>2 DEF InviteTypes, IsBehind
<1>8. FetchesAreInOrder' BY <1>2, <1>3, <1>4, FetchGoesOn
<1>9. ~confused' => JoinsAreOneByOne' BY <1>2, <1>3, <1>5, FetchStaysExact
<1> QED BY <1>6, <1>7, <1>8, <1>9

LEMMA RefreshedKeeps ==
  ASSUME InvitesInv, NEW f \in Fetchers, Invites!Refreshed(f)
  PROVE  InvitesInv'
<1> USE DEF InvitesInv
<1>1. /\ fetch' = [fetch EXCEPT ![f] = Invites!Quiet] /\ fetch[f].at = "refresh" /\ tracking' = TRUE
      /\ inviteUses' = fetch[f].list
      /\ UNCHANGED <<uses, live, confused, invited, credited, claimed, earned, by>>
  BY DEF Invites!Refreshed, Invites!Goes, Invites!discordVars, Invites!storeVars
<1>2. fetch[f].list \in Lists /\ IsBehind(fetch[f].list)
  BY DEF FetchesAreInOrder, Fetch, FetchInOrder
<1>3. Recorded' BY <1>1, RecordedStays
<1>4. InviteTypes' BY <1>1, <1>2 DEF InviteTypes, IsBehind
<1>5. FetchesAreInOrder' BY <1>1, NoCallIsInOrder, FetchGoesOn
<1>6. ~confused' => JoinsAreOneByOne'
  <2> SUFFICES ASSUME ~confused' PROVE JoinsAreOneByOne' OBVIOUS
  <2>1. Exact(fetch[f].list) BY <1>1 DEF JoinsAreOneByOne, FetchIsExact
  <2>2. Exact(inviteUses)' BY <1>1, <2>1 DEF Exact
  <2> QED BY <1>1, <2>2, NoCallIsInOrder, FetchStaysExact
<1> QED BY <1>3, <1>4, <1>5, <1>6

(***************************************************************************)
(* A member joins: the uses of the invite grow.                            *)
(***************************************************************************)
LEMMA JoinGrows ==
  ASSUME InvitesInv, NEW m \in Joiners, NEW c \in live, Invites!MemberJoins(m, c),
         inviteUses' = inviteUses, tracking' = tracking
  PROVE  /\ InviteTypes' /\ c \in Codes /\ uses'[c] = uses[c] + 1 /\ uses[c] \in Nat
         /\ \A d \in Codes : d # c => uses'[d] = uses[d]
         /\ live' = IF c \in SingleUse THEN live \ {c} ELSE live
         /\ \A call \in Fetch : FetchInOrder(call) => FetchInOrder(call)'
         /\ confused => confused'
         /\ ~confused' => \A f \in Fetchers :
              fetch[f].at = "idle" \/ (f = 0 /\ fetch[f].at = "ask")
<1> USE DEF InvitesInv
<1>1. /\ uses' = [uses EXCEPT ![c] = @ + 1] /\ uses \in [Codes -> Nat] /\ c \in Codes
      /\ live' = IF c \in SingleUse THEN live \ {c} ELSE live
      /\ confused' = (confused \/ Invites!UnderWay # {})
  BY DEF Invites!MemberJoins, InviteTypes
<1>2. /\ uses'[c] = uses[c] + 1 /\ uses[c] \in Nat /\ uses' \in [Codes -> Nat]
      /\ \A d \in Codes : d # c => uses'[d] = uses[d]
  BY <1>1
<1>3. \A d \in Codes : uses[d] <= uses'[d]
  <2> SUFFICES ASSUME NEW d \in Codes PROVE uses[d] <= uses'[d] OBVIOUS
  <2> QED BY <1>1, <1>2
<1>4. \A list \in Lists : IsBehind(list) => IsBehind(list)'
  BY <1>1, <1>2, <1>3, StaysBehind
<1>5. InviteTypes'
  BY <1>1, <1>2, <1>4 DEF InviteTypes, IsBehind
<1>6. \A call \in Fetch : FetchInOrder(call) => FetchInOrder(call)'
  BY <1>4 DEF Fetch, FetchInOrder
<1>7. ~confused' => \A f \in Fetchers : fetch[f].at = "idle" \/ (f = 0 /\ fetch[f].at = "ask")
  BY <1>1 DEF Invites!UnderWay, Fetchers, Invites!Start
<1> QED BY <1>1, <1>2, <1>5, <1>6, <1>7

LEMMA HandleMemberAddKeeps ==
  ASSUME InvitesInv, NEW m \in Joiners, NEW c \in live, NEW f \in Joins,
         Invites!HandleMemberAdd(f, m, c)
  PROVE  InvitesInv'
<1> USE InviteConstants DEF InvitesInv
<1>1. PICK x : x = [Invites!Quiet EXCEPT !.at = "wait", !.member = m, !.code = c] OBVIOUS
<1>2. /\ fetch' = [fetch EXCEPT ![f] = x] /\ fetch[f] = Invites!Quiet
      /\ tracking /\ Invites!MemberJoins(m, c)
      /\ UNCHANGED <<inviteUses, tracking, invited, credited, claimed, earned, by>>
  BY <1>1 DEF Invites!HandleMemberAdd, Invites!storeVars
<1>3. /\ InviteTypes' /\ c \in Codes /\ uses'[c] = uses[c] + 1 /\ uses[c] \in Nat
      /\ \A d \in Codes : d # c => uses'[d] = uses[d]
      /\ live' = IF c \in SingleUse THEN live \ {c} ELSE live
      /\ \A call \in Fetch : FetchInOrder(call) => FetchInOrder(call)'
      /\ confused => confused'
      /\ ~confused' => \A g \in Fetchers :
           fetch[g].at = "idle" \/ (g = 0 /\ fetch[g].at = "ask")
  BY <1>2, JoinGrows
<1>4. Recorded' BY <1>2, <1>3, RecordedStays
<1>5. /\ x \in Fetch /\ x.at = "wait" /\ x.member = m /\ x.code = c /\ x.list = <<>>
      /\ Invites!Quiet.list = <<>> /\ Invites!Quiet.at = "idle"
  BY <1>1, <1>3, NoCallIsInOrder DEF Invites!Quiet, Fetch, FetchSteps
<1>6. FetchInOrder(x)'
  BY <1>3, <1>5, NoCallIsInOrder DEF FetchInOrder, IsBehind
<1>7. /\ fetch' \in [Fetchers -> Fetch] /\ fetch'[f] = x
      /\ \A g \in Fetchers \ {f} : fetch'[g] = fetch[g]
  BY <1>2, <1>5 DEF FetchesAreInOrder
<1>8. FetchesAreInOrder'
  <2>1. \A g \in Fetchers : FetchInOrder(fetch[g])'
    BY <1>3, <1>6, <1>7 DEF FetchesAreInOrder
  <2>2. fetch'[0] = fetch[0] /\ fetch[0].at = "idle"
    BY <1>2, <1>7 DEF FetchesAreInOrder
  <2> QED BY <1>7, <2>1, <2>2 DEF FetchesAreInOrder
<1>9. ASSUME ~confused' PROVE JoinsAreOneByOne'
  <2>1. \A g \in Fetchers : fetch[g].at = "idle"
    BY <1>2, <1>3, <1>9 DEF FetchesAreInOrder
  <2>2. Exact(inviteUses) BY <1>2, <1>3, <1>9, <2>1 DEF JoinsAreOneByOne
  <2>3. FetchIsExact(x)'
    <3>1. \A d \in live' : uses'[d] = OneMore(x, d)'
      BY <1>2, <1>3, <1>5, <2>2 DEF OneMore, Exact, Count, InviteTypes
    <3> QED BY <1>3, <1>5, <3>1 DEF FetchIsExact
  <2>4. \A g \in Fetchers : FetchIsExact(fetch[g])'
    BY <1>7, <2>1, <2>3 DEF FetchIsExact
  <2> QED BY <1>5, <1>7, <2>1, <2>4 DEF JoinsAreOneByOne
<1> QED BY <1>3, <1>4, <1>8, <1>9

LEMMA NotTrackedKeeps ==
  ASSUME InvitesInv, NEW m \in Joiners, NEW c \in live, Invites!NotTracked(m, c)
  PROVE  InvitesInv'
<1> USE InviteConstants DEF InvitesInv
<1>1. /\ ~tracking /\ Invites!MemberJoins(m, c)
      /\ UNCHANGED <<inviteUses, tracking, fetch, invited, credited, claimed, earned, by>>
  BY DEF Invites!NotTracked, Invites!storeVars, Invites!processVars
<1>2. /\ InviteTypes' /\ (confused => confused')
      /\ \A call \in Fetch : FetchInOrder(call) => FetchInOrder(call)'
      /\ ~confused' => \A g \in Fetchers :
           fetch[g].at = "idle" \/ (g = 0 /\ fetch[g].at = "ask")
  BY <1>1, JoinGrows
<1>3. Recorded' BY <1>1, <1>2, RecordedStays
<1>4. FetchesAreInOrder' BY <1>1, <1>2 DEF FetchesAreInOrder
<1>5. ~confused' => JoinsAreOneByOne' BY <1>1, <1>2 DEF JoinsAreOneByOne, FetchIsExact
<1> QED BY <1>2, <1>3, <1>4, <1>5

(***************************************************************************)
(* A new invite has not been used, so that no list need have it.           *)
(***************************************************************************)
LEMMA CreateInviteKeeps ==
  ASSUME InvitesInv, NEW c \in Codes, Invites!CreateInvite(c)
  PROVE  InvitesInv'
<1> USE InviteConstants DEF InvitesInv
<1>1. /\ c \notin live /\ uses[c] = 0 /\ live' = live \cup {c} /\ uses' = uses
      /\ UNCHANGED <<inviteUses, tracking, fetch, confused, invited, credited, claimed,
                     earned, by>>
  BY DEF Invites!CreateInvite, Invites!storeVars, Invites!processVars
<1>2. Recorded' BY <1>1, RecordedStays
<1>3. InviteTypes' BY <1>1 DEF InviteTypes, IsBehind
<1>4. FetchesAreInOrder' BY <1>1 DEF FetchesAreInOrder, FetchInOrder, IsBehind
<1>5. \A list \in Lists : IsBehind(list) => Count(list, c) = 0
  <2> SUFFICES ASSUME NEW list \in Lists, IsBehind(list), c \in DOMAIN list PROVE list[c] = 0
    BY DEF Count
  <2>1. list[c] \in Nat BY DEF Lists
  <2> QED BY <1>1, <2>1 DEF IsBehind
<1>6. \A list \in Lists : IsBehind(list) /\ Exact(list) => Exact(list)'
  BY <1>1, <1>5 DEF Exact, Count
<1>7. Count(inviteUses, c) = 0 /\ (Exact(inviteUses) => Exact(inviteUses)')
  BY <1>1, <1>5, <1>6 DEF InviteTypes, Exact, Count
<1>8. ASSUME ~confused' PROVE JoinsAreOneByOne'
  <2>1. ASSUME NEW f \in Fetchers PROVE FetchIsExact(fetch[f])'
    <3>1. fetch[f] \in Fetch /\ FetchInOrder(fetch[f]) /\ FetchIsExact(fetch[f])
      BY <1>1, <1>8 DEF FetchesAreInOrder, JoinsAreOneByOne
    <3>2. CASE fetch[f].at = "wait"
      <4>1. fetch[f].code # c
        BY <1>1, <3>1, <3>2 DEF FetchIsExact
      <4>2. OneMore(fetch[f], c) = 0 BY <1>7, <4>1 DEF OneMore
      <4> QED BY <1>1, <3>1, <3>2, <4>1, <4>2 DEF FetchIsExact, OneMore, Count
    <3>3. CASE fetch[f].at # "wait"
      <4>1. fetch[f].at \in {"compare", "refresh"} => Exact(fetch[f].list)'
        BY <1>1, <1>6, <3>1 DEF FetchIsExact, FetchInOrder, Fetch, Exact, Count
      <4> QED BY <1>1, <3>1, <3>3, <4>1 DEF FetchIsExact, OneMore, Count
    <3> QED BY <3>2, <3>3
  <2> QED BY <1>1, <1>7, <1>8, <2>1 DEF JoinsAreOneByOne
<1> QED BY <1>2, <1>3, <1>4, <1>8

(***************************************************************************)
(* A second after the join Discord lists the invites, which differ from    *)
(* the snapshot by the one that was used.                                  *)
(***************************************************************************)
LEMMA WaitedKeeps ==
  ASSUME InvitesInv, NEW f \in Fetchers, Invites!Waited(f)
  PROVE  InvitesInv'
<1> USE DEF InvitesInv
<1>1. PICK x : x = [fetch[f] EXCEPT !.at = "compare", !.list = Invites!Listed] OBVIOUS
<1>2. /\ fetch' = [fetch EXCEPT ![f] = x] /\ fetch[f].at = "wait" /\ f # 0
      /\ UNCHANGED <<uses, live, inviteUses, tracking, confused, invited, credited, claimed,
                     earned, by>>
  BY <1>1 DEF Invites!Waited, Invites!discordVars, Invites!storeVars, FetchesAreInOrder
<1>3. /\ x \in Fetch /\ x.at = "compare" /\ x.list = Invites!Listed
      /\ x.member = fetch[f].member /\ x.code = fetch[f].code
  BY <1>1, ListedIsExact DEF FetchesAreInOrder, Fetch, FetchSteps
<1>4. FetchInOrder(x)
  BY <1>2, <1>3, ListedIsExact DEF FetchInOrder, FetchesAreInOrder
<1>5. Recorded' BY <1>2, RecordedStays
<1>6. InviteTypes' BY <1>2 DEF InviteTypes, IsBehind
<1>7. FetchesAreInOrder' BY <1>2, <1>3, <1>4, FetchGoesOn
<1>8. ASSUME ~confused' PROVE JoinsAreOneByOne'
  <2>1. FetchIsExact(fetch[f]) BY <1>2, <1>8 DEF JoinsAreOneByOne
  <2>2. FetchIsExact(x)
    BY <1>2, <1>3, <2>1, ListedIsExact DEF FetchIsExact, OneMore
  <2>3. FetchIsExact(x)' BY <1>2, <2>2 DEF FetchIsExact, OneMore, Count, Exact
  <2> QED BY <1>2, <1>3, <1>8, <2>3, FetchStaysExact
<1> QED BY <1>5, <1>6, <1>7, <1>8

LEMMA CompareFailsKeeps ==
  ASSUME InvitesInv, NEW f \in Fetchers, Invites!CompareFails(f)
  PROVE  InvitesInv'
<1> USE DEF InvitesInv
<1>1. PICK x : x = [fetch[f] EXCEPT !.at = "ask"] OBVIOUS
<1>2. /\ fetch' = [fetch EXCEPT ![f] = x] /\ fetch[f].at = "compare"
      /\ UNCHANGED <<uses, live, inviteUses, tracking, confused, invited, credited, claimed,
                     earned, by>>
  BY <1>1 DEF Invites!CompareFails, Invites!Goes, Invites!discordVars, Invites!storeVars
<1>3. x \in Fetch /\ x.at = "ask" /\ x.list = fetch[f].list
  BY <1>1 DEF FetchesAreInOrder, Fetch, FetchSteps
<1>4. FetchInOrder(x) BY <1>3 DEF FetchInOrder, FetchesAreInOrder
<1>5. Recorded' BY <1>2, RecordedStays
<1>6. InviteTypes' BY <1>2 DEF InviteTypes, IsBehind
<1>7. FetchesAreInOrder' BY <1>2, <1>3, <1>4, FetchGoesOn
<1>8. FetchIsExact(x)' BY <1>3 DEF FetchIsExact
<1>9. ~confused' => JoinsAreOneByOne' BY <1>2, <1>3, <1>8, FetchStaysExact
<1> QED BY <1>5, <1>6, <1>7, <1>9

(***************************************************************************)
(* The invite that is found is one there is, and, while joins come one by  *)
(* one, the one that was used, unless that use removed it.                 *)
(***************************************************************************)
LEMMA Found ==
  ASSUME InvitesInv, NEW f \in Fetchers, fetch[f].at = "compare"
  PROVE  /\ Invites!UsedInvite(fetch[f].list) \in Codes \cup {0}
         /\ ~confused => Invites!UsedInvite(fetch[f].list) =
              IF fetch[f].code \in SingleUse THEN 0 ELSE fetch[f].code
<1> USE InviteConstants DEF InvitesInv
<1>1. PICK used : used = Invites!Used(fetch[f].list) OBVIOUS
<1>2. /\ fetch[f].list \in Lists /\ DOMAIN fetch[f].list \subseteq Codes
      /\ fetch[f].code \in Codes
  <2>1. fetch[f] \in Fetch /\ FetchInOrder(fetch[f]) BY DEF FetchesAreInOrder
  <2>2. fetch[f].list \in Lists /\ fetch[f].code \in Codes BY <2>1 DEF Fetch, FetchInOrder
  <2>3. PICK S \in SUBSET Codes : fetch[f].list \in [S -> Nat] BY <2>2 DEF Lists
  <2> QED BY <2>2, <2>3
<1>3. used \subseteq Codes /\ used \subseteq Nat
  BY <1>1, <1>2 DEF Invites!Used
<1>4. ASSUME used # {}
      PROVE  Invites!Min(used) \in used
  BY <1>3, <1>4, HasLeast DEF Invites!Min
<1>5. Invites!UsedInvite(fetch[f].list) = IF used = {} THEN 0 ELSE Invites!Min(used)
  BY <1>1 DEF Invites!UsedInvite
<1>6. ASSUME ~confused
      PROVE  used = IF fetch[f].code \in SingleUse THEN {} ELSE {fetch[f].code}
  <2>1. FetchIsExact(fetch[f]) BY <1>6 DEF JoinsAreOneByOne
  <2>2. \A c \in DOMAIN fetch[f].list : fetch[f].list[c] = OneMore(fetch[f], c)
    BY <2>1 DEF FetchIsExact
  <2>3. used = {c \in DOMAIN fetch[f].list : fetch[f].list[c] > Count(inviteUses, c)}
    BY <1>1 DEF Invites!Used, Count
  <2>4. \A c \in DOMAIN fetch[f].list : Count(inviteUses, c) \in Nat
    <3>1. PICK S \in SUBSET Codes : inviteUses \in [S -> Nat] BY DEF InviteTypes, Lists
    <3> QED BY <3>1 DEF Count
  <2>5. used = {c \in DOMAIN fetch[f].list : c = fetch[f].code}
    BY <2>2, <2>3, <2>4 DEF OneMore
  <2>6. fetch[f].code \in DOMAIN fetch[f].list <=> fetch[f].code \notin SingleUse
    BY <2>1 DEF FetchIsExact
  <2> QED BY <2>5, <2>6
<1> QED BY <1>2, <1>3, <1>4, <1>5, <1>6

(***************************************************************************)
(* recordInvite credits the inviter for a member who is new, and once.     *)
(***************************************************************************)
LEMMA RecordInviteKeeps ==
  ASSUME Recorded, NEW m \in Joiners, NEW c \in Codes \cup {0}, NEW code \in Codes,
         Invites!RecordInvite(m, c), confused' = confused,
         ~confused => c = IF code \in SingleUse THEN 0 ELSE code,
         by' = (IF invited[m] = None THEN [by EXCEPT ![m] = code] ELSE by),
         UNCHANGED <<claimed, earned>>
  PROVE  Recorded'
<1> USE InviteConstants
<1>1. CASE invited[m] # None
  BY <1>1, RecordedStays DEF Invites!RecordInvite, Invites!IsNew
<1>2. CASE invited[m] = None
  <2>1. PICK inviter : inviter = IF c = 0 THEN None ELSE InviterOf[c] OBVIOUS
  <2>2. PICK eligible \in BOOLEAN : eligible <=> (inviter \notin {None, m} /\ m \notin Fresh)
    OBVIOUS
  <2>3. PICK record : record = [inviter |-> inviter, eligible |-> eligible] OBVIOUS
  <2>4. /\ invited' = [invited EXCEPT ![m] = record]
        /\ credited' = IF eligible THEN [credited EXCEPT ![inviter] = @ + 1] ELSE credited
    BY <1>2, <2>1, <2>2, <2>3 DEF Invites!RecordInvite, Invites!IsNew
  <2>5. /\ inviter \in Joiners \cup {None} /\ (eligible => inviter \in Joiners /\ inviter # m)
        /\ record.inviter = inviter /\ record.eligible = eligible
        /\ record \in Invites!Invitation /\ record # None
    BY <2>1, <2>2, <2>3 DEF Invites!Invitation
  <2>6. /\ invited' \in [Joiners -> Invites!Invitation \cup {None}] /\ invited'[m] = record
        /\ \A n \in Joiners \ {m} : invited'[n] = invited[n]
        /\ by' \in [Joiners -> Codes \cup {0}] /\ by'[m] = code
        /\ \A n \in Joiners \ {m} : by'[n] = by[n]
    BY <1>2, <2>4, <2>5 DEF Recorded
  <2>7. /\ credited' \in [Joiners -> Nat]
        /\ \A i \in Joiners : credited'[i] = IF eligible /\ i = inviter THEN credited[i] + 1
                                              ELSE credited[i]
    BY <2>4, <2>5 DEF Recorded
  <2>8. Invites!AttributionIsTrue'
    <3>1. Invites!AttributionIsTrue
      BY DEF Recorded, InvitesAreTrue, Invites!InvitesAreTrue
    <3> QED BY <2>1, <2>5, <2>6, <3>1 DEF Invites!AttributionIsTrue
  <2>9. Invites!CreditIsPerMember'
    <3> DEFINE Of(i) == {n \in Joiners : invited[n] # None /\ invited[n].inviter = i
                                         /\ invited[n].eligible}
    <3>1. /\ \A i \in Joiners : credited[i] = Cardinality(Of(i))
          /\ \A i \in Joiners : claimed[i] \subseteq Invites!Reached(i)
          /\ \A i \in Joiners : \A k \in Milestones :
               earned[i][k] = IF k \in claimed[i] THEN 1 ELSE 0
      BY InviteCardinality DEF Recorded, InvitesAreTrue, Invites!InvitesAreTrue,
         Invites!CreditIsPerMember
    <3>2. ASSUME NEW i \in Joiners PROVE credited'[i] = Cardinality(Of(i)')
      <4>1. Of(i)' = IF eligible /\ i = inviter THEN Of(i) \cup {m} ELSE Of(i)
        BY <1>2, <2>5, <2>6
      <4>2. IsFiniteSet(Of(i)) /\ m \notin Of(i)
        BY <1>2, FS_Subset
      <4>3. Cardinality(Of(i) \cup {m}) = Cardinality(Of(i)) + 1
        BY <4>2, FS_AddElement
      <4> QED BY <2>7, <3>1, <4>1, <4>3
    <3>3. ASSUME NEW i \in Joiners PROVE claimed'[i] \subseteq Invites!Reached(i)'
      <4>1. credited[i] \in Nat /\ credited[i] <= credited'[i] /\ credited'[i] \in Nat
        BY <2>7 DEF Recorded
      <4>2. ASSUME NEW k \in Milestones, k <= credited[i] PROVE k <= credited'[i]
        <5>1. k \in Nat OBVIOUS
        <5> QED BY <4>1, <4>2, <5>1
      <4>3. Invites!Reached(i) \subseteq Invites!Reached(i)'
        BY <4>2 DEF Invites!Reached
      <4> QED BY <3>1, <4>3
    <3> QED BY <3>1, <3>2, <3>3, InviteCardinality DEF Invites!CreditIsPerMember
  <2> QED BY <2>6, <2>7, <2>8, <2>9 DEF Recorded, InvitesAreTrue, Invites!InvitesAreTrue
<1> QED BY <1>1, <1>2

LEMMA ComparedKeeps ==
  ASSUME InvitesInv, NEW f \in Fetchers, Invites!Compared(f)
  PROVE  InvitesInv'
<1> USE DEF InvitesInv
<1>1. /\ fetch' = [fetch EXCEPT ![f] = Invites!Quiet] /\ fetch[f].at = "compare"
      /\ Invites!RecordInvite(fetch[f].member, Invites!UsedInvite(fetch[f].list))
      /\ inviteUses' = fetch[f].list
      /\ by' = (IF invited[fetch[f].member] = None
                THEN [by EXCEPT ![fetch[f].member] = fetch[f].code] ELSE by)
      /\ UNCHANGED <<uses, live, tracking, confused, claimed, earned>>
  BY DEF Invites!Compared, Invites!Goes, Invites!Snapshot, Invites!discordVars
<1>2. /\ fetch[f].list \in Lists /\ IsBehind(fetch[f].list)
      /\ fetch[f].member \in Joiners /\ fetch[f].code \in Codes
  BY <1>1 DEF FetchesAreInOrder, Fetch, FetchInOrder
<1>3. Recorded' BY <1>1, <1>2, Found, RecordInviteKeeps
<1>4. InviteTypes' BY <1>1, <1>2 DEF InviteTypes, IsBehind
<1>5. FetchesAreInOrder' BY <1>1, NoCallIsInOrder, FetchGoesOn
<1>6. ASSUME ~confused' PROVE JoinsAreOneByOne'
  <2>1. Exact(fetch[f].list) BY <1>1, <1>6 DEF JoinsAreOneByOne, FetchIsExact
  <2>2. Exact(inviteUses)' BY <1>1, <2>1 DEF Exact
  <2> QED BY <1>1, <1>6, <2>2, NoCallIsInOrder, FetchStaysExact
<1> QED BY <1>3, <1>4, <1>5, <1>6

(***************************************************************************)
(* Rewards are claimed; the bot is started again.                          *)
(***************************************************************************)
LEMMA ClaimInviteRewardsKeeps ==
  ASSUME InvitesInv, NEW m \in Joiners, Invites!ClaimInviteRewards(m)
  PROVE  InvitesInv'
<1> USE DEF InvitesInv
<1>1. /\ claimed' = [claimed EXCEPT ![m] = @ \cup Invites!Available(m)]
      /\ earned' = [earned EXCEPT ![m] =
           [k \in Milestones |-> IF k \in Invites!Available(m) THEN @[k] + 1 ELSE @[k]]]
      /\ UNCHANGED <<uses, live, inviteUses, tracking, fetch, confused, invited, credited, by>>
  BY DEF Invites!ClaimInviteRewards, Invites!discordVars, Invites!processVars
<1>2. /\ Invites!Available(m) = Invites!Reached(m) \ claimed[m]
      /\ Invites!Reached(m) \subseteq Milestones
  BY DEF Invites!Available, Invites!Reached
<1>3. /\ claimed' \in [Joiners -> SUBSET Milestones]
      /\ claimed'[m] = claimed[m] \cup Invites!Available(m)
      /\ earned' \in [Joiners -> [Milestones -> Nat]]
      /\ \A k \in Milestones : earned'[m][k] =
           IF k \in Invites!Available(m) THEN earned[m][k] + 1 ELSE earned[m][k]
      /\ \A i \in Joiners \ {m} : claimed'[i] = claimed[i] /\ earned'[i] = earned[i]
  BY <1>1, <1>2 DEF Recorded
<1>4. Invites!CreditIsPerMember'
  <2>1. Invites!CreditIsPerMember BY DEF Recorded, InvitesAreTrue, Invites!InvitesAreTrue
  <2>2. \A i \in Joiners : Invites!Reached(i)' = Invites!Reached(i)
    BY <1>1 DEF Invites!Reached
  <2>3. \A i \in Joiners : claimed'[i] \subseteq Invites!Reached(i)'
    <3>1. \A i \in Joiners : claimed[i] \subseteq Invites!Reached(i)
      BY <2>1 DEF Invites!CreditIsPerMember
    <3>2. claimed'[m] \subseteq Invites!Reached(m)
      BY <1>2, <1>3, <3>1
    <3> QED BY <1>3, <2>2, <3>1, <3>2
  <2>4. \A i \in Joiners : \A k \in Milestones :
          earned'[i][k] = IF k \in claimed'[i] THEN 1 ELSE 0
    <3>1. \A i \in Joiners : \A k \in Milestones :
            earned[i][k] = IF k \in claimed[i] THEN 1 ELSE 0
      BY <2>1 DEF Invites!CreditIsPerMember
    <3>2. claimed[m] \subseteq Invites!Reached(m)
      BY <2>1 DEF Invites!CreditIsPerMember
    <3>3. ASSUME NEW k \in Milestones
          PROVE  earned'[m][k] = IF k \in claimed'[m] THEN 1 ELSE 0
      <4>1. CASE k \in Invites!Available(m)
        <5>1. earned[m][k] = 0 /\ k \in claimed'[m] BY <1>2, <1>3, <3>1, <4>1
        <5> QED BY <1>3, <4>1, <5>1
      <4>2. CASE k \notin Invites!Available(m)
        <5>1. earned'[m][k] = earned[m][k] /\ (k \in claimed'[m] <=> k \in claimed[m])
          BY <1>3, <4>2
        <5> QED BY <3>1, <5>1
      <4> QED BY <4>1, <4>2
    <3> QED BY <1>3, <3>1, <3>3
  <2> QED BY <1>1, <2>1, <2>3, <2>4 DEF Invites!CreditIsPerMember
<1>5. Invites!AttributionIsTrue'
  BY <1>1 DEF Recorded, InvitesAreTrue, Invites!InvitesAreTrue, Invites!AttributionIsTrue
<1>6. Recorded'
  BY <1>1, <1>3, <1>4, <1>5 DEF Recorded, InvitesAreTrue, Invites!InvitesAreTrue
<1>7. InviteTypes' BY <1>1 DEF InviteTypes, IsBehind
<1>8. FetchesAreInOrder' BY <1>1 DEF FetchesAreInOrder, FetchInOrder, IsBehind
<1>9. ~confused' => JoinsAreOneByOne'
  BY <1>1 DEF JoinsAreOneByOne, FetchIsExact, OneMore, Exact
<1> QED BY <1>6, <1>7, <1>8, <1>9

LEMMA BotRestartKeeps ==
  ASSUME InvitesInv, Invites!Restart
  PROVE  InvitesInv'
<1> USE InviteConstants DEF InvitesInv
<1>1. /\ inviteUses' = <<>> /\ tracking' = FALSE
      /\ fetch' = [f \in Fetchers |-> IF f = 0 THEN [Invites!Quiet EXCEPT !.at = "ask"]
                                      ELSE Invites!Quiet]
      /\ UNCHANGED <<uses, live, confused, invited, credited, claimed, earned, by>>
  BY DEF Invites!Restart, Invites!discordVars, Invites!storeVars, Fetchers, Invites!Start
<1>2. <<>> \in Lists /\ DOMAIN <<>> = {}
  <2>1. <<>> \in [{} -> Nat] BY SMT
  <2>2. {} \in SUBSET Codes BY SMT
  <2> QED BY <2>1, <2>2 DEF Lists
<1>3. PICK asking : asking = [Invites!Quiet EXCEPT !.at = "ask"] OBVIOUS
<1>4. /\ asking \in Fetch /\ asking.at = "ask" /\ asking.list = <<>>
      /\ Invites!Quiet \in Fetch /\ Invites!Quiet.at = "idle" /\ Invites!Quiet.list = <<>>
  BY <1>2, <1>3 DEF Invites!Quiet, Fetch, FetchSteps
<1>5. /\ fetch' \in [Fetchers -> Fetch] /\ fetch'[0] = asking
      /\ \A f \in Joins : fetch'[f] = Invites!Quiet
  BY <1>1, <1>3, <1>4
<1>6. Recorded' BY <1>1, RecordedStays
<1>7. InviteTypes' BY <1>1, <1>2 DEF InviteTypes, IsBehind
<1>8. FetchInOrder(asking)' /\ FetchInOrder(Invites!Quiet)'
  BY <1>2, <1>4 DEF FetchInOrder, IsBehind
<1>9. FetchesAreInOrder'
  BY <1>1, <1>4, <1>5, <1>8 DEF FetchesAreInOrder
<1>10. JoinsAreOneByOne'
  BY <1>1, <1>4, <1>5 DEF JoinsAreOneByOne, FetchIsExact
<1> QED BY <1>6, <1>7, <1>9, <1>10

(***************************************************************************)
(* Every step keeps the invariant.                                         *)
(***************************************************************************)
LEMMA InvitesStep == InvitesInv /\ [Invites!Next]_(Invites!vars) => InvitesInv'
<1> SUFFICES ASSUME InvitesInv, [Invites!Next]_(Invites!vars) PROVE InvitesInv'
  OBVIOUS
<1>1. CASE UNCHANGED Invites!vars
  <2>1. UNCHANGED <<uses, live, inviteUses, tracking, fetch, confused, invited, credited,
                    claimed, earned, by>>
    BY <1>1 DEF Invites!vars, Invites!discordVars, Invites!storeVars, Invites!processVars
  <2>2. Recorded' BY <2>1, RecordedStays DEF InvitesInv
  <2>3. InviteTypes' BY <2>1 DEF InvitesInv, InviteTypes, IsBehind
  <2>4. FetchesAreInOrder' BY <2>1 DEF InvitesInv, FetchesAreInOrder, FetchInOrder, IsBehind
  <2>5. ~confused' => JoinsAreOneByOne'
    BY <2>1 DEF InvitesInv, JoinsAreOneByOne, FetchIsExact, OneMore, Exact
  <2> QED BY <2>2, <2>3, <2>4, <2>5 DEF InvitesInv
<1>2. ASSUME NEW f \in Fetchers,
             \/ Invites!NotPermitted(f) \/ Invites!Asked(f) \/ Invites!Refreshed(f)
             \/ Invites!RefreshFails(f) \/ Invites!Waited(f) \/ Invites!CompareFails(f)
             \/ Invites!Compared(f)
      PROVE  InvitesInv'
  BY <1>2, NotPermittedKeeps, AskedKeeps, RefreshedKeeps, WaitedKeeps, CompareFailsKeeps,
     ComparedKeeps
<1>3. ASSUME NEW m \in Joiners, NEW c \in live,
             \/ Invites!NotTracked(m, c)
             \/ \E f \in Joins : Invites!HandleMemberAdd(f, m, c)
      PROVE  InvitesInv'
  BY <1>3, NotTrackedKeeps, HandleMemberAddKeeps
<1> QED BY <1>1, <1>2, <1>3, CreateInviteKeeps, ClaimInviteRewardsKeeps, BotRestartKeeps
        DEF Invites!Next, Fetchers

(***************************************************************************)
(* As long as joins come one by one, whatever fails or is started again,   *)
(* the recorded inviter owned the invite the member used; and however they *)
(* overlap an inviter is credited once for each member, and has the coins  *)
(* of each claimed milestone once (handleMemberAdd, recordInvite,          *)
(* claimInviteRewards).                                                    *)
(***************************************************************************)
THEOREM Attribution == Invites!Spec => []InvitesAreTrue
<1>1. InvitesInv => InvitesAreTrue BY DEF InvitesInv, Recorded
<1> QED BY <1>1, InvitesInitial, InvitesStep, PTL DEF Invites!Spec
=============================================================================
