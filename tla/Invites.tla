------------------------------ MODULE Invites -------------------------------
(***************************************************************************)
(* The invite rewards of CommunityService and CommunityStore (apps/        *)
(* discord-bot/src): Discord says that a member joined but not by which    *)
(* invite, so the uses of all invites are compared, a second later, with a *)
(* snapshot of them, which every join replaces.  A handler runs to its     *)
(* next await; others run between.                                         *)
(*                                                                         *)
(* Invites are numbered in the order Discord lists them.                   *)
(***************************************************************************)
EXTENDS Naturals, FiniteSets, FiniteSetsExt

CONSTANTS
  Members,
  Codes,         \* the invites, numbered
  InviterOf,     \* invite -> the member it belongs to
  SingleUse,     \* invites that Discord removes when they are used
  Fresh,         \* members whose accounts are less than 7 days old
  Milestones,    \* numbers of invites that are rewarded
  Joins,         \* handlers of joins that may be under way together
  maxJoins,      \* bound: how often members join
  maxStarts,     \* bound: how often the bot is started again
  None

Start == 0                          \* stands for start among the handlers
Fetchers == Joins \cup {Start}

\* What recordInvite keeps of a join.
Invitation == [inviter : Members \cup {None}, eligible : BOOLEAN]

Assumptions ==
  /\ Codes \subseteq Nat \ {0}
  /\ IsFiniteSet(Members) /\ None \notin Members \cup Invitation
  /\ InviterOf \in [Codes -> Members]
  /\ Milestones \subseteq Nat
  /\ Start \notin Joins
  /\ {maxJoins, maxStarts} \subseteq Nat

VARIABLES
  \* Discord's:
  uses,       \* of each invite
  live,       \* the invites there are
  joins,      \* how often members have joined
  \* the store's:
  invited,    \* member -> what recordInvite keeps of the join, or None
  credited,   \* inviter -> number of eligible invites
  claimed,    \* inviter -> the milestones that were claimed
  coins,      \* inviter -> milestone -> how often its coins were added
  \* the process's:
  inviteUses, \* the snapshot: uses of the invites that were listed
  tracking,   \* inviteTrackingAvailable
  fetch,      \* what each handler and the start are waiting for
  starts,
  \* history:
  by,         \* member -> the invite of the join that was recorded
  confused    \* joins overlapped, or came while the start read the invites

discordVars == <<uses, live, joins>>
storeVars == <<invited, credited, claimed, coins>>
processVars == <<inviteUses, tracking, fetch, starts>>
vars == <<discordVars, storeVars, processVars, by, confused>>

Quiet == [at |-> "idle", member |-> None, code |-> 0, list |-> <<>>]

\* What Discord answers to invites.fetch.
Listed == [c \in live |-> uses[c]]

Init ==
  /\ uses = [c \in Codes |-> 0]
  /\ live = {}
  /\ joins = 0
  /\ invited = [m \in Members |-> None]
  /\ credited = [m \in Members |-> 0]
  /\ claimed = [m \in Members |-> {}]
  /\ coins = [m \in Members |-> [k \in Milestones |-> 0]]
  /\ inviteUses = <<>>
  /\ tracking = FALSE
  /\ fetch = [f \in Fetchers |-> IF f = Start THEN [Quiet EXCEPT !.at = "ask"] ELSE Quiet]
  /\ starts = 0
  /\ by = [m \in Members |-> 0]
  /\ confused = FALSE

Goes(f, from, to) ==
  fetch[f].at = from /\ fetch' = [fetch EXCEPT ![f] = IF to = "idle" THEN Quiet
                                                      ELSE [@ EXCEPT !.at = to]]

-----------------------------------------------------------------------------
(***************************************************************************)
(* refreshInviteSnapshot, at the start and when the handling of a join     *)
(* failed: "ask" may end for want of the permission, the answer is taken   *)
(* when Discord gives it and arrives later, or never.                      *)
(***************************************************************************)
NotPermitted(f) ==
  /\ Goes(f, "ask", "idle")
  /\ tracking' = FALSE
  /\ UNCHANGED <<discordVars, storeVars, inviteUses, starts, by, confused>>

Asked(f) ==
  /\ fetch[f].at = "ask"
  /\ fetch' = [fetch EXCEPT ![f] = [@ EXCEPT !.at = "refresh", !.list = Listed]]
  /\ UNCHANGED <<discordVars, storeVars, inviteUses, tracking, starts, by, confused>>

Refreshed(f) ==
  /\ Goes(f, "refresh", "idle")
  /\ inviteUses' = fetch[f].list
  /\ tracking' = TRUE
  /\ UNCHANGED <<discordVars, storeVars, starts, by, confused>>

RefreshFails(f) ==
  /\ Goes(f, "refresh", "idle")
  /\ tracking' = FALSE
  /\ UNCHANGED <<discordVars, storeVars, inviteUses, starts, by, confused>>

\* An invite is made: the snapshot does not have it until the next join.
CreateInvite(c) ==
  /\ c \notin live
  /\ uses[c] = 0
  /\ live' = live \cup {c}
  /\ UNCHANGED <<uses, joins, storeVars, processVars, by, confused>>

(***************************************************************************)
(* A member joins by an invite of someone, for the first time or again;    *)
(* handleMemberAdd begins unless invites are not tracked, and waits for a  *)
(* second.                                                                 *)
(***************************************************************************)
UnderWay ==
  {f \in Fetchers : fetch[f].at # "idle" /\ (f = Start => fetch[f].at # "ask")}

MemberJoins(m, c) ==
  /\ joins < maxJoins
  /\ joins' = joins + 1
  /\ uses' = [uses EXCEPT ![c] = @ + 1]
  /\ live' = IF c \in SingleUse THEN live \ {c} ELSE live
  /\ confused' = (confused \/ UnderWay # {})

HandleMemberAdd(f, m, c) ==
  /\ tracking
  /\ f \in Joins
  /\ fetch[f] = Quiet
  /\ MemberJoins(m, c)
  /\ fetch' = [fetch EXCEPT ![f] = [Quiet EXCEPT !.at = "wait", !.member = m, !.code = c]]
  /\ UNCHANGED <<storeVars, inviteUses, tracking, starts, by>>

NotTracked(m, c) ==
  /\ ~tracking
  /\ MemberJoins(m, c)
  /\ UNCHANGED <<storeVars, processVars, by>>

Waited(f) ==
  /\ fetch[f].at = "wait"
  /\ fetch' = [fetch EXCEPT ![f] = [@ EXCEPT !.at = "compare", !.list = Listed]]
  /\ UNCHANGED <<discordVars, storeVars, inviteUses, tracking, starts, by, confused>>

CompareFails(f) ==
  /\ Goes(f, "compare", "ask")
  /\ UNCHANGED <<discordVars, storeVars, inviteUses, tracking, starts, by, confused>>

Used(list) ==
  {c \in DOMAIN list : list[c] > (IF c \in DOMAIN inviteUses THEN inviteUses[c] ELSE 0)}

UsedInvite(list) == IF Used(list) = {} THEN 0 ELSE Min(Used(list))

\* defect: the snapshot is the one of the start
SnapshotKept(list) == inviteUses

Snapshot(list) == list

(***************************************************************************)
(* recordInvite: a member is recorded once, whoever it was that invited    *)
(* them, and counts for the inviter if eligible then.                      *)
(***************************************************************************)
IsNew(m) == invited[m] = None

RecordInvite(m, c) ==
  LET inviter == IF c = 0 THEN None ELSE InviterOf[c]
      eligible == inviter \notin {None, m} /\ m \notin Fresh
  IN
  IF IsNew(m)
  THEN /\ invited' = [invited EXCEPT ![m] = [inviter |-> inviter, eligible |-> eligible]]
       /\ credited' = IF eligible THEN [credited EXCEPT ![inviter] = @ + 1] ELSE credited
  ELSE UNCHANGED <<invited, credited>>

Compared(f) ==
  LET m == fetch[f].member IN
  /\ Goes(f, "compare", "idle")
  /\ RecordInvite(m, UsedInvite(fetch[f].list))
  /\ inviteUses' = Snapshot(fetch[f].list)
  /\ by' = IF invited[m] = None THEN [by EXCEPT ![m] = fetch[f].code] ELSE by
  /\ UNCHANGED <<discordVars, claimed, coins, tracking, starts, confused>>

(***************************************************************************)
(* claimInviteRewards: what has been reached and was not claimed.          *)
(***************************************************************************)
Reached(m) == {k \in Milestones : k <= credited[m]}

Available(m) == Reached(m) \ claimed[m]

ClaimInviteRewards(m) ==
  /\ tracking
  /\ Available(m) # {}
  /\ claimed' = [claimed EXCEPT ![m] = @ \cup Available(m)]
  /\ coins' = [coins EXCEPT ![m] =
                [k \in Milestones |-> IF k \in Available(m) THEN @[k] + 1 ELSE @[k]]]
  /\ UNCHANGED <<discordVars, invited, credited, processVars, by, confused>>

\* A restart keeps the store's file and forgets the rest.
Restart ==
  /\ starts < maxStarts
  /\ starts' = starts + 1
  /\ inviteUses' = <<>>
  /\ tracking' = FALSE
  /\ fetch' = [f \in Fetchers |-> IF f = Start THEN [Quiet EXCEPT !.at = "ask"] ELSE Quiet]
  /\ UNCHANGED <<discordVars, storeVars, by, confused>>

Next ==
  \/ \E f \in Fetchers :
       \/ NotPermitted(f) \/ Asked(f) \/ Refreshed(f) \/ RefreshFails(f)
       \/ Waited(f) \/ CompareFails(f) \/ Compared(f)
  \/ \E c \in Codes : CreateInvite(c)
  \/ \E m \in Members, c \in live :
       NotTracked(m, c) \/ \E f \in Joins : HandleMemberAdd(f, m, c)
  \/ \E m \in Members : ClaimInviteRewards(m)
  \/ Restart

Spec == Init /\ [][Next]_vars

-----------------------------------------------------------------------------
(***************************************************************************)
(* As long as joins come one by one and not while the start reads the      *)
(* invites, whatever fails, is retried or restarted: who is recorded as    *)
(* having invited a member owned the invite that the member used           *)
(* (handleMemberAdd), or it was removed by that use and nobody is          *)
(* recorded.                                                               *)
(***************************************************************************)
AttributionIsTrue ==
  ~confused =>
    \A m \in Members : invited[m] # None =>
      invited[m].inviter = IF by[m] \in SingleUse THEN None ELSE InviterOf[by[m]]

(***************************************************************************)
(* However joins overlap, an inviter is credited once for each member, who *)
(* gains them nothing by coming back (recordInvite), and has the coins of  *)
(* each milestone that they reached and claimed once (claimInviteRewards). *)
(***************************************************************************)
CreditIsPerMember ==
  \A i \in Members :
    /\ credited[i] = Cardinality({m \in Members :
                       invited[m] # None /\ invited[m].inviter = i /\ invited[m].eligible})
    /\ claimed[i] \subseteq Reached(i)
    /\ \A k \in Milestones : coins[i][k] = IF k \in claimed[i] THEN 1 ELSE 0

\* Both: what a member is told of invites is what happened.
InvitesAreTrue == AttributionIsTrue /\ CreditIsPerMember
=============================================================================
