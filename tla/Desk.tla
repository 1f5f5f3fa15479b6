-------------------------------- MODULE Desk --------------------------------
(***************************************************************************)
(* The community service of the Discord bot: its tickets (TicketDesk), the *)
(* items its staff decide and the rewards it pays (Community), and the     *)
(* invites it counts (Invites).  They share the store's file and nothing   *)
(* in it.                                                                  *)
(***************************************************************************)
EXTENDS TicketDesk, Community

CONSTANTS
  Joiners, Codes, InviterOf, SingleUse, Fresh, Milestones, Joins, maxJoins

VARIABLES
  uses, live, joins, invited, credited, claimed, earned, inviteUses, tracking, fetch,
  by, confused

Invites == INSTANCE Invites WITH Members <- Joiners, coins <- earned

ASSUME InvitesAssumption == Invites!Assumptions

inviteVars == <<uses, live, joins, invited, credited, claimed, earned, inviteUses,
                tracking, fetch, by, confused>>

\* See Invites: who is recorded as a member's inviter owned the invite that
\* the member used, where joins do not overlap, and an inviter is credited once
\* for each member, and paid once for each milestone.
InvitesAreTrue == Invites!InvitesAreTrue

=============================================================================
