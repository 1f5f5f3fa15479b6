-------------------------------- MODULE Guild --------------------------------
(***************************************************************************)
(* What the parts of CommunityService (apps/discord-bot/src/               *)
(* community-service.js) share: the members of the guild and the handlers  *)
(* of what they press.                                                     *)
(***************************************************************************)
EXTENDS Naturals, FiniteSets

CONSTANTS
  Members,
  Handlers,      \* interactions that may be under way together
  None

\* None is not a member; the process has finitely many interactions in hand.
ASSUME GuildAssumption == None \notin Members /\ IsFiniteSet(Handlers)
==============================================================================
