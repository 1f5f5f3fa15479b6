------------------------------- MODULE DeskMC -------------------------------
(***************************************************************************)
(* The community service for TLC: its tickets, its invites, the items its  *)
(* staff decide and the rewards it pays, a behaviour being one of a part,  *)
(* chosen at the start, and not of their product.                          *)
(***************************************************************************)
EXTENDS Desk, TLC

VARIABLE part   \* the part that runs: "tickets", "invites", "items", "days", "numbers"

itemVars == <<item, stats, buttons, staffRole, told, givenUp>>

dayVars == <<lastDailyAt, lastXpAt, messages, day>>

numberVars == <<counting, counted, lost>>

allVars == <<part, vars, inviteVars, itemVars, dayVars, numberVars, press, coins, starts>>

MCInit ==
  /\ part \in {"tickets", "invites", "items", "days", "numbers"}
  /\ Init /\ Invites!Init /\ CommunityInit

NoNumbers == \A h \in Handlers : press'[h].at \notin {"react", "answer"}

MCNext ==
  /\ UNCHANGED part
  /\ \/ /\ part = "tickets" /\ Next
        /\ UNCHANGED <<inviteVars, itemVars, dayVars, numberVars, press, coins, starts>>
     \/ /\ part = "invites" /\ Invites!Next
        /\ UNCHANGED <<vars, itemVars, dayVars, numberVars, press, coins>>
     \/ /\ part = "items" /\ CommunityNext /\ NoNumbers
        /\ UNCHANGED <<vars, inviteVars, dayVars, numberVars>>
     \/ /\ part = "days" /\ CommunityNext
        /\ UNCHANGED <<vars, inviteVars, itemVars, numberVars, press, starts>>
     \/ /\ part = "numbers" /\ CommunityNext
        /\ UNCHANGED <<vars, inviteVars, itemVars, lastDailyAt, day>>

MCSpec == MCInit /\ [][MCNext]_allVars /\ Fairness

\* The members that invites 1 and 2 belong to.
MCInviterOf == 1 :> "m1" @@ 2 :> "m2"
=============================================================================
