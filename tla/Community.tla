----------------------------- MODULE Community ------------------------------
(***************************************************************************)
(* What members are given and what the staff decide (CommunityService and  *)
(* CommunityStore in apps/discord-bot/src): applications, leaves and       *)
(* reward drops, each an item of the store with a message of Discord's     *)
(* whose buttons decide it; daily rewards, experience, counting and        *)
(* warnings.  A handler runs to its next await; others run between.  The   *)
(* store writes its file in every method that changes it, so a restart     *)
(* loses only what handlers had left to do.                                *)
(***************************************************************************)
EXTENDS Guild, Sequences

CONSTANTS
  Staff,         \* members with the permissions of the staff
  Kinds,         \* of items: "application", "leave", "drop"
  maxItems,      \* bound: how many items are ever made
  maxRewards,    \* bound: how often a member is rewarded for counting
  rewardedCount, \* every so many numbers are rewarded
  maxCount,      \* bound: the numbers that are posted
  maxDays,       \* bound: the days that pass
  maxStarts      \* bound: how often the bot is started again

ASSUME CommunityAssumption ==
  {maxItems, maxRewards, maxCount, maxDays, maxStarts} \subseteq Nat

\* What a day, a claimed drop and a rewarded number are worth.
Daily == 150
DropCoins == 250
CountCoins == 50

VARIABLES
  \* the store's:
  item,        \* applications, leaves and drops, in the order they were made
  stats,       \* kind -> how many were decided
  coins,
  lastDailyAt, \* member -> the day of the last daily reward, or 0
  lastXpAt,    \* member -> the day of the last rewarded message, or 0
  messages,    \* member -> rewarded messages
  counting,    \* the number counted to, the highest one and who counted last
  \* Discord's:
  buttons,     \* items whose message has its buttons
  staffRole,   \* members who were given the role for an application
  \* the process's:
  press,       \* what each interaction is doing
  day,         \* from 1
  starts,
  \* history:
  told,        \* item -> the decisions that its author was told
  givenUp,     \* items about which something failed or was forgotten
  counted,     \* member -> numbers that are to be rewarded
  lost         \* member -> of these, the ones a restart forgot

storedVars == <<item, stats, coins, lastDailyAt, lastXpAt, messages, counting>>
sentVars == <<buttons, staffRole>>
runVars == <<press, day, starts>>
pastVars == <<told, givenUp, counted, lost>>
communityVars == <<storedVars, sentVars, runVars, pastVars>>

Items == DOMAIN item
Quiet == [at |-> "idle", item |-> 0, user |-> None, choice |-> None]
Undecided == {"pending", "open"}

CommunityInit ==
  /\ item = <<>>
  /\ stats = [k \in Kinds |-> 0]
  /\ coins = [m \in Members |-> 0]
  /\ lastDailyAt = [m \in Members |-> 0]
  /\ lastXpAt = [m \in Members |-> 0]
  /\ messages = [m \in Members |-> 0]
  /\ counting = [current |-> 0, high |-> 0, last |-> None]
  /\ buttons = {}
  /\ staffRole = {}
  /\ press = [h \in Handlers |-> Quiet]
  /\ day = 1
  /\ starts = 0
  /\ told = [i \in 1..maxItems |-> <<>>]
  /\ givenUp = {}
  /\ counted = [m \in Members |-> 0]
  /\ lost = [m \in Members |-> 0]

Moves(h, from, to) ==
  /\ press[h].at = from
  /\ press' = [press EXCEPT ![h] = IF to = "idle" THEN Quiet ELSE [@ EXCEPT !.at = to]]

-----------------------------------------------------------------------------
(***************************************************************************)
(* submitApplication, submitLeave and createDrop: the item is stored, and  *)
(* then a message with its buttons is sent.  There may be no channel for   *)
(* it, or Discord refuses it: nobody can decide the item then.  A drop     *)
(* without a channel fails before it is stored.                            *)
(***************************************************************************)
Submit(h, m, k) ==
  LET i == Len(item) + 1 IN
  /\ press[h] = Quiet
  /\ i <= maxItems
  /\ k # "application" => m \in Staff
  /\ item' = Append(item, [kind |-> k, user |-> m, winner |-> None,
                           status |-> IF k = "drop" THEN "open" ELSE "pending"])
  /\ press' = [press EXCEPT ![h] = [Quiet EXCEPT !.at = "post", !.item = i]]
  /\ UNCHANGED <<stats, coins, lastDailyAt, lastXpAt, messages, counting,
                 sentVars, day, starts, pastVars>>

Posted(h) ==
  /\ Moves(h, "post", "idle")
  /\ buttons' = buttons \cup {press[h].item}
  /\ UNCHANGED <<storedVars, staffRole, day, starts, pastVars>>

\* What has begun for an item is given up.
GivesUp(h) ==
  /\ givenUp' = givenUp \cup {press[h].item}
  /\ UNCHANGED <<storedVars, sentVars, day, starts, told, counted, lost>>

NotPosted(h) == Moves(h, "post", "idle") /\ GivesUp(h)

(***************************************************************************)
(* A button is pressed; by the time the press is handled another press may *)
(* have decided the item.                                                  *)
(***************************************************************************)
Press(h, i, m, choice) ==
  /\ press[h] = Quiet
  /\ i \in buttons
  /\ choice \in IF item[i].kind = "drop" THEN {"claimed"} ELSE {"approved", "rejected"}
  /\ press' = [press EXCEPT ![h] = [at |-> "pressed", item |-> i, user |-> m,
                                        choice |-> choice]]
  /\ UNCHANGED <<storedVars, sentVars, day, starts, pastVars>>

\* defect: the store does not look whether the item is decided
AnyStatus(i) == TRUE

Open(i) == item[i].status \in Undecided

(***************************************************************************)
(* review in the store, for the staff; claimDrop in the store, for the     *)
(* first who presses.                                                      *)
(***************************************************************************)
MayDecide(i, m) == Open(i) /\ (item[i].kind = "drop" \/ m \in Staff)

Refused(h) ==
  /\ Moves(h, "pressed", "idle")
  /\ ~MayDecide(press[h].item, press[h].user)
  /\ UNCHANGED <<storedVars, sentVars, day, starts, pastVars>>

Decided(i, m, choice) ==
  /\ item' = [item EXCEPT ![i].status = choice, ![i].winner = m]
  /\ stats' = [stats EXCEPT ![item[i].kind] = @ + 1]

Review(h) ==
  LET i == press[h].item
      choice == press[h].choice
  IN
  /\ press[h].at = "pressed"
  /\ item[i].kind # "drop"
  /\ Moves(h, "pressed",
          IF item[i].kind = "application" /\ choice = "approved" THEN "role" ELSE "update")
  /\ MayDecide(i, press[h].user)
  /\ Decided(i, press[h].user, choice)
  /\ UNCHANGED <<coins, lastDailyAt, lastXpAt, messages, counting, sentVars,
                 day, starts, pastVars>>

ClaimDrop(h) ==
  LET i == press[h].item
      m == press[h].user
  IN
  /\ Moves(h, "pressed", "update")
  /\ item[i].kind = "drop"
  /\ MayDecide(i, m)
  /\ Decided(i, m, "claimed")
  /\ coins' = [coins EXCEPT ![m] = @ + DropCoins]
  /\ UNCHANGED <<lastDailyAt, lastXpAt, messages, counting, sentVars, day, starts,
                 pastVars>>

(***************************************************************************)
(* After the decision: an approved applicant who is still a member is      *)
(* given the role, the message loses its buttons, the author is told.      *)
(* Where a step fails, the rest is not done and nothing does it later; a   *)
(* drop has only the second step.                                          *)
(***************************************************************************)
RoleAdded(h) ==
  /\ Moves(h, "role", "update")
  /\ staffRole' \in {staffRole, staffRole \cup {item[press[h].item].user}}
  /\ givenUp' = IF staffRole' = staffRole THEN givenUp \cup {press[h].item} ELSE givenUp
  /\ UNCHANGED <<storedVars, buttons, day, starts, told, counted, lost>>

Updated(h) ==
  LET i == press[h].item IN
  /\ press[h].at = "update"
  /\ Moves(h, "update", IF item[i].kind = "drop" THEN "idle" ELSE "tell")
  /\ buttons' = buttons \ {i}
  /\ UNCHANGED <<storedVars, staffRole, day, starts, pastVars>>

Told(h) ==
  /\ Moves(h, "tell", "idle")
  /\ told' = [told EXCEPT ![press[h].item] = Append(@, press[h].choice)]
  /\ UNCHANGED <<storedVars, sentVars, day, starts, givenUp, counted, lost>>

DecisionFails(h) ==
  /\ \E at \in {"role", "update", "tell"} : Moves(h, at, "idle")
  /\ GivesUp(h)

-----------------------------------------------------------------------------
(***************************************************************************)
(* Rewards: the day's (claimDaily), a message's (awardMessageXp) and every *)
(* so many numbers' (submitCount): the command that counts pays in the     *)
(* same step, a message that counts is reacted to first, and an answer to  *)
(* it comes before its experience.  A day stands for either cooldown.      *)
(***************************************************************************)
\* defect: a reward is there again on the day it was taken
AlwaysReady(last) == TRUE

Ready(last) == last = 0 \/ last + 1 <= day

ClaimDaily(m) ==
  /\ Ready(lastDailyAt[m])
  /\ lastDailyAt' = [lastDailyAt EXCEPT ![m] = day]
  /\ coins' = [coins EXCEPT ![m] = @ + Daily]
  /\ UNCHANGED <<item, stats, lastXpAt, messages, counting, sentVars, runVars, pastVars>>

AwardMessageXp(m) ==
  IF Ready(lastXpAt[m])
  THEN /\ lastXpAt' = [lastXpAt EXCEPT ![m] = day]
       /\ messages' = [messages EXCEPT ![m] = @ + 1]
  ELSE UNCHANGED <<lastXpAt, messages>>

Message(m) ==
  /\ AwardMessageXp(m)
  /\ UNCHANGED <<item, stats, coins, lastDailyAt, counting, sentVars, runVars, pastVars>>

Accepted(m, value) == value = counting.current + 1 /\ counting.last # m

Rewarded(m, value) == Accepted(m, value) /\ value % rewardedCount = 0

SubmitCount(m, value) ==
  /\ counting' = IF Accepted(m, value)
                 THEN [current |-> value, last |-> m,
                       high |-> IF value > counting.high THEN value ELSE counting.high]
                 ELSE [counting EXCEPT !.current = 0, !.last = None]
  /\ Rewarded(m, value) => counted[m] < maxRewards
  /\ counted' = IF Rewarded(m, value) THEN [counted EXCEPT ![m] = @ + 1] ELSE counted

Paid(m) == [coins EXCEPT ![m] = @ + CountCoins]

SubmitSlashCount(m, value) ==
  /\ SubmitCount(m, value)
  /\ coins' = IF Rewarded(m, value) THEN Paid(m) ELSE coins
  /\ UNCHANGED <<item, stats, lastDailyAt, lastXpAt, messages, sentVars, runVars,
                 told, givenUp, lost>>

CountMessage(h, m, value) ==
  /\ press[h] = Quiet
  /\ SubmitCount(m, value)
  /\ press' = [press EXCEPT ![h] =
                   [Quiet EXCEPT !.at = "react", !.user = m,
                                 !.choice = IF Rewarded(m, value) THEN "rewarded"
                                            ELSE IF Accepted(m, value) THEN "accepted"
                                            ELSE "refused"]]
  /\ UNCHANGED <<item, stats, coins, lastDailyAt, lastXpAt, messages, sentVars,
                 day, starts, told, givenUp, lost>>

Reacted(h) ==
  LET m == press[h].user
      choice == press[h].choice
  IN
  /\ Moves(h, "react", IF choice = "accepted" THEN "idle" ELSE "answer")
  /\ coins' = IF choice = "rewarded" THEN Paid(m) ELSE coins
  /\ IF choice = "accepted" THEN AwardMessageXp(m) ELSE UNCHANGED <<lastXpAt, messages>>
  /\ UNCHANGED <<item, stats, lastDailyAt, counting, sentVars, day, starts, pastVars>>

Answered(h) ==
  /\ Moves(h, "answer", "idle")
  /\ AwardMessageXp(press[h].user)
  /\ UNCHANGED <<item, stats, coins, lastDailyAt, counting, sentVars, day, starts,
                 pastVars>>

AnswerFails(h) ==
  /\ Moves(h, "answer", "idle")
  /\ UNCHANGED <<storedVars, sentVars, day, starts, pastVars>>

\* A cooldown passes.
NextDay ==
  /\ day < maxDays
  /\ day' = day + 1
  /\ UNCHANGED <<storedVars, sentVars, press, starts, pastVars>>

Unpaid(m) ==
  Cardinality({h \in Handlers : press[h] = [Quiet EXCEPT !.at = "react", !.user = m,
                                                           !.choice = "rewarded"]})

Forgotten ==
  {press[h].item : h \in {g \in Handlers : press[g].at \notin {"idle", "pressed"}}} \ {0}

StartsAgain ==
  /\ starts < maxStarts
  /\ starts' = starts + 1
  /\ press' = [h \in Handlers |-> Quiet]
  /\ givenUp' = givenUp \cup Forgotten
  /\ lost' = [m \in Members |-> lost[m] + Unpaid(m)]
  /\ UNCHANGED <<storedVars, sentVars, day, told, counted>>

CommunityNext ==
  \/ \E h \in Handlers :
       \/ \E m \in Members, k \in Kinds : Submit(h, m, k)
       \/ \E m \in Members, i \in buttons :
            \E choice \in {"claimed", "approved", "rejected"} : Press(h, i, m, choice)
       \/ Posted(h) \/ NotPosted(h)
       \/ Refused(h) \/ Review(h) \/ ClaimDrop(h)
       \/ RoleAdded(h) \/ Updated(h) \/ Told(h) \/ DecisionFails(h)
  \/ \E m \in Members : ClaimDaily(m) \/ Message(m)
  \/ \E m \in Members, value \in 1..maxCount :
       SubmitSlashCount(m, value) \/ \E h \in Handlers : CountMessage(h, m, value)
  \/ \E h \in Handlers : Reacted(h) \/ Answered(h) \/ AnswerFails(h)
  \/ NextDay
  \/ StartsAgain

CommunitySpec == CommunityInit /\ [][CommunityNext]_communityVars

-----------------------------------------------------------------------------
(***************************************************************************)
(* However presses, failures and restarts interleave, an item is decided   *)
(* once (review, claimDrop): the author is told the decision that stands   *)
(* and no other, the numbers on the status page are the items decided, and *)
(* nobody holds the role whose application was not approved.  While it is  *)
(* undecided its message has the buttons, and when it is decided they go   *)
(* and an approved applicant has the role, unless one of those steps       *)
(* failed or was forgotten.                                                *)
(***************************************************************************)
InHand(i) == \E h \in Handlers : press[h].item = i /\ press[h].at # "pressed"

ItemsAreDecidedOnce ==
  /\ \A i \in Items :
       /\ told[i] \in {<<>>, <<item[i].status>>}
       /\ InHand(i) \/ i \in givenUp \/ (i \in buttons <=> Open(i))
       /\ item[i].kind = "application" /\ item[i].status = "approved" =>
            InHand(i) \/ i \in givenUp \/ item[i].user \in staffRole
  /\ \A k \in Kinds :
       stats[k] = Cardinality({i \in Items : item[i].kind = k /\ ~Open(i)})
  /\ \A m \in staffRole :
       \E i \in Items : item[i].kind = "application" /\ item[i].user = m
                        /\ item[i].status = "approved"

(***************************************************************************)
(* Members have the coins of the drops that they are the winners of, of    *)
(* the numbers that are rewarded, but for those that a restart forgot      *)
(* between the number and its coins, and of at most one reward a day,      *)
(* however many presses and messages there are; messages are rewarded once *)
(* in a cooldown.                                                          *)
(***************************************************************************)
RewardsArePaidOnce ==
  \A m \in Members :
    /\ \E days \in 0..day :
         coins[m] = Daily * days + CountCoins * (counted[m] - lost[m] - Unpaid(m))
                    + DropCoins * Cardinality({i \in Items : item[i].kind = "drop"
                                                 /\ item[i].winner = m})
    /\ messages[m] <= day

(***************************************************************************)
(* What members see and get of the community's items is what was decided,  *)
(* and decided once.                                                       *)
(***************************************************************************)
DealingsAreFair == ItemsAreDecidedOnce /\ RewardsArePaidOnce
=============================================================================
