--------------------------- MODULE RecoverCommand ----------------------------
(***************************************************************************)
(* The command /1 of the Discord bot (apps/discord-bot/src: index.js,      *)
(* access.js, safe-fetch.js, worker-client.js): who may use it, how often, *)
(* and where a program is recovered.  A handler runs to its next await;    *)
(* events of Discord, of child processes and of timers come in between.    *)
(*                                                                         *)
(* Stages are numbers, of which only those are kept that the bot asks for; *)
(* 5 comes first.  Of a presence the model keeps whether it shows the text *)
(* that is asked for; of a cooldown, whether it stands.                    *)
(***************************************************************************)
EXTENDS Naturals, Sequences

CONSTANTS
  Users,
  Presses,          \* interactions, each of which is there once
  localRecovery,    \* LOCAL_RECOVERY_ENABLED
  maxChanges,       \* bound: how often a user's status changes
  None

MAX_REDIRECTS == 3
Stage == {2, 3, 5}

Assumptions ==
  /\ localRecovery \in BOOLEAN
  /\ maxChanges \in Nat
  /\ None \notin Users
  /\ None \notin Stage
  /\ None \notin {"success", "failure"}

VARIABLES
  \* Discord's:
  status,     \* user -> their status shows the text
  role,       \* user -> they have the supporter role
  updates,    \* user -> presences on their way to the bot
  news,       \* user -> changes of the role on their way to the bot
  changes,
  \* the bot's:
  cached,     \* user -> it believes them to have the role
  calls,      \* user -> changes of the role it has asked for
  cooldown,   \* user -> their cooldown stands
  press,
  child,      \* press -> its worker process
  \* history:
  unsure,     \* users whose role changed while another change was under way
  last        \* user -> how their last press ended that had nothing beside it

roleVars == <<status, role, updates, news, changes, cached, calls, unsure>>
pressVars == <<press, child>>
commandVars == <<roleVars, cooldown, last, pressVars>>

\* at: what the handler awaits.  asked: the stage of the result it has, with what the
\* report names as executed; left: hosted stages it has yet to try; admin: neither the
\* role nor the cooldown concerns it; alone: it is not admin's, no other press of the
\* user was under way, and the cooldown did not end meanwhile.
Press == [at : {"new", "defer", "input", "worker", "hosted", "answer", "sorry", "done"},
          user : Users \cup {None}, hops : 0..MAX_REDIRECTS, left : Seq(Stage),
          requested : Stage \cup {None}, executed : Stage \cup {None},
          limited : BOOLEAN, admin : BOOLEAN, alone : BOOLEAN]

NewPress == [at |-> "new", user |-> None, hops |-> 0, left |-> <<>>,
             requested |-> None, executed |-> None,
             limited |-> FALSE, admin |-> FALSE, alone |-> FALSE]

(***************************************************************************)
(* The type invariant: what Discord and the bot know of each user and of   *)
(* each interaction.                                                       *)
(***************************************************************************)
TypeOK ==
  /\ {status, role, cached, cooldown} \subseteq [Users -> BOOLEAN]
  /\ {updates, news, calls} \subseteq [Users -> Seq(BOOLEAN)]
  /\ changes \in [Users -> Nat]
  /\ press \in [Presses -> Press]
  /\ child \in [Presses -> {"none", "running", "killed", "gone"}]
  /\ unsure \subseteq Users
  /\ last \in [Users -> {"success", "failure", None}]

\* At the start the bot reads every member's presence, unless that fails.
Init ==
  /\ status \in [Users -> BOOLEAN]
  /\ role \in [Users -> BOOLEAN]
  /\ cached = role
  /\ \/ /\ updates = [u \in Users |-> <<status[u]>>]
        /\ unsure = {}
     \/ /\ updates = [u \in Users |-> <<>>]
        /\ unsure = Users
  /\ news = [u \in Users |-> <<>>]
  /\ calls = [u \in Users |-> <<>>]
  /\ changes = [u \in Users |-> 0]
  /\ cooldown = [u \in Users |-> FALSE]
  /\ last = [u \in Users |-> None]
  /\ press = [h \in Presses |-> NewPress]
  /\ child = [h \in Presses |-> "none"]

-----------------------------------------------------------------------------
(***************************************************************************)
(* The supporter role.                                                     *)
(***************************************************************************)
ChangeStatus(u) ==
  /\ changes[u] < maxChanges
  /\ changes' = [changes EXCEPT ![u] = @ + 1]
  /\ status' = [status EXCEPT ![u] = ~@]
  /\ updates' = [updates EXCEPT ![u] = Append(@, status'[u])]
  /\ UNCHANGED <<role, news, cached, calls, unsure, cooldown, last, pressVars>>

Shown(u) == Head(updates[u])

\* syncSupporterRole: it compares with the roles it knows, and asks for a change.
Synced(u) ==
  /\ updates[u] # <<>>
  /\ updates' = [updates EXCEPT ![u] = Tail(@)]
  /\ calls' = IF Shown(u) = cached[u] THEN calls
              ELSE [calls EXCEPT ![u] = Append(@, Shown(u))]
  /\ unsure' = IF calls[u] \o news[u] = <<>> THEN unsure ELSE unsure \cup {u}
  /\ UNCHANGED <<status, role, news, changes, cached, cooldown, last, pressVars>>

\* Discord changes the role, and says so later, or refuses, which is logged.
RoleChanges(u) ==
  /\ calls[u] # <<>>
  /\ calls' = [calls EXCEPT ![u] = Tail(@)]
  /\ \/ /\ role' = [role EXCEPT ![u] = Head(calls[u])]
        /\ news' = [news EXCEPT ![u] = Append(@, Head(calls[u]))]
        /\ UNCHANGED unsure
     \/ /\ unsure' = unsure \cup {u}
        /\ UNCHANGED <<role, news>>
  /\ UNCHANGED <<status, updates, changes, cached, cooldown, last, pressVars>>

MemberUpdates(u) ==
  /\ news[u] # <<>>
  /\ cached' = [cached EXCEPT ![u] = Head(news[u])]
  /\ news' = [news EXCEPT ![u] = Tail(@)]
  /\ UNCHANGED <<status, role, updates, changes, calls, unsure, cooldown, last,
                 pressVars>>

-----------------------------------------------------------------------------
(***************************************************************************)
(* The interaction.  A press that is refused is answered and forgotten.    *)
(***************************************************************************)
UnderWay(h) == press[h].at \notin {"new", "done"}

Beside(h, u) == {g \in Presses \ {h} : UnderWay(g) /\ press[g].user = u}

remaining(u) == cooldown[u]

MayUse(u, admin) == admin \/ (cached[u] /\ ~remaining(u))

InteractionCreate(h, u, admin) ==
  /\ press[h].at = "new"
  /\ MayUse(u, admin)
  /\ press' = [g \in Presses |->
                 IF g = h
                 THEN [NewPress EXCEPT !.at = "defer", !.user = u, !.admin = admin,
                                       !.alone = ~admin /\ Beside(h, u) = {}]
                 ELSE [press[g] EXCEPT !.alone = @ /\ g \notin Beside(h, u)]]
  /\ last' = [last EXCEPT ![u] = None]
  /\ UNCHANGED <<roleVars, cooldown, child>>

To(h, at) == press' = [press EXCEPT ![h].at = at]

\* The cooldown starts when Discord has taken note of the press, or the press ends there.
Deferred(h) ==
  LET u == press[h].user IN
  /\ press[h].at = "defer"
  /\ \/ /\ cooldown' = IF press[h].admin THEN cooldown ELSE [cooldown EXCEPT ![u] = TRUE]
        /\ To(h, "input")
     \/ /\ To(h, "done")
        /\ UNCHANGED cooldown
  /\ UNCHANGED <<roleVars, last, child>>

\* The time is over.
CooldownEnds(u) ==
  /\ cooldown[u]
  /\ cooldown' = [cooldown EXCEPT ![u] = FALSE]
  /\ last' = [last EXCEPT ![u] = None]
  /\ press' = [g \in Presses |->
                 IF press[g].user = u THEN [press[g] EXCEPT !.alone = FALSE] ELSE press[g]]
  /\ UNCHANGED <<roleVars, child>>

(***************************************************************************)
(* Every error ends here: the cooldown goes, and the user is told.         *)
(***************************************************************************)
Cleared(u) == [cooldown EXCEPT ![u] = FALSE]

Failed(h) ==
  LET u == press[h].user IN
  /\ cooldown' = IF press[h].admin THEN cooldown ELSE Cleared(u)
  /\ last' = IF press[h].alone THEN [last EXCEPT ![u] = "failure"] ELSE last
  /\ press' = [press EXCEPT ![h].at = "sorry", ![h].hops = 0, ![h].left = <<>>]

(***************************************************************************)
(* resolveInput and fetchSource: what is pasted, or what a link leads to   *)
(* over a few redirects, in time and within the size.                      *)
(***************************************************************************)
Redirected(h) ==
  /\ press[h].at = "input"
  /\ press[h].hops < MAX_REDIRECTS
  /\ press' = [press EXCEPT ![h].hops = @ + 1]
  /\ UNCHANGED <<roleVars, cooldown, last, child>>

NoInput(h) ==
  /\ press[h].at = "input"
  /\ Failed(h)
  /\ UNCHANGED <<roleVars, child>>

\* The stages asked of the host: at once, or after the worker has failed.
Input(h) ==
  /\ press[h].at = "input"
  /\ IF localRecovery
     THEN /\ child' = [child EXCEPT ![h] = "running"]
          /\ press' = [press EXCEPT ![h].at = "worker", ![h].hops = 0]
     ELSE /\ press' = [press EXCEPT ![h].at = "hosted", ![h].hops = 0, ![h].left = <<5>>]
          /\ UNCHANGED child
  /\ UNCHANGED <<roleVars, cooldown, last>>

-----------------------------------------------------------------------------
(***************************************************************************)
(* recoverInWorker.  The first of its events settles it; the process is    *)
(* killed where it may still be running.                                   *)
(***************************************************************************)
hostedFallbackStages(code) == IF code = "WORKER_UNAVAILABLE" THEN <<5, 3, 2>> ELSE <<3, 2>>

FallBack(h, code) ==
  press' = [press EXCEPT ![h].at = "hosted", ![h].left = hostedFallbackStages(code)]

WorkerStops(h) ==
  /\ press[h].at = "worker"
  /\ \E code \in {"WORKER_TIMEOUT", "WORKER_OUTPUT_LIMIT"} : FallBack(h, code)
  /\ child' = [child EXCEPT ![h] = "killed"]
  /\ UNCHANGED <<roleVars, cooldown, last>>

WorkerUnavailable(h) ==
  /\ press[h].at = "worker"
  /\ FallBack(h, "WORKER_UNAVAILABLE")
  /\ child' = [child EXCEPT ![h] = "gone"]
  /\ UNCHANGED <<roleVars, cooldown, last>>

\* A result, by the report of the worker executor; an end without one, which
\* classifyWorkerExit names; or an answer that says it failed.
WorkerCloses(h) ==
  /\ press[h].at = "worker"
  /\ child' = [child EXCEPT ![h] = "gone"]
  /\ \/ /\ \E s \in Stage :
             press' = [press EXCEPT ![h].at = "answer", ![h].requested = 5, ![h].executed = s]
        /\ UNCHANGED <<cooldown, last>>
     \/ /\ \E code \in {"WORKER_RESOURCE_LIMIT", "WORKER_INVALID_RESPONSE"} : FallBack(h, code)
        /\ UNCHANGED <<cooldown, last>>
     \/ Failed(h)
  /\ UNCHANGED roleVars

\* The close of a process that was killed finds the promise settled.
Reaped(h) ==
  /\ child[h] = "killed"
  /\ child' = [child EXCEPT ![h] = "gone"]
  /\ UNCHANGED <<roleVars, cooldown, last, press>>

(***************************************************************************)
(* recoverViaApi.  The host may go lower than it is asked, and says so;    *)
(* only when it ran out of time or memory is it asked for less.            *)
(***************************************************************************)
RequestedAsHosted(h) == Head(press[h].left)   \* defect: as the host has it

\* After a worker has failed, the report is made to say what was asked at first.
Requested(h) == 5

HostAnswers(h) ==
  /\ press[h].at = "hosted"
  /\ \E s \in {s \in Stage : s <= Head(press[h].left)} :
       press' = [press EXCEPT ![h].at = "answer", ![h].left = <<>>,
                              ![h].requested = Requested(h), ![h].executed = s]
  /\ UNCHANGED <<roleVars, cooldown, last, child>>

HostGivesUp(h) ==
  /\ press[h].at = "hosted"
  /\ Len(press[h].left) > 1
  /\ press' = [press EXCEPT ![h].left = Tail(@)]
  /\ UNCHANGED <<roleVars, cooldown, last, child>>

\* Another error, or no stage left.
HostFails(h) ==
  /\ press[h].at = "hosted"
  /\ Failed(h)
  /\ UNCHANGED <<roleVars, child>>

-----------------------------------------------------------------------------
(***************************************************************************)
(* The answer, with a word on the stage when it is not the one asked for.  *)
(***************************************************************************)
Answered(h) ==
  LET u == press[h].user IN
  /\ press[h].at = "answer"
  /\ \/ /\ press' = [press EXCEPT ![h].at = "done",
                       ![h].limited = press[h].executed # press[h].requested]
        /\ last' = IF press[h].alone THEN [last EXCEPT ![u] = "success"] ELSE last
        /\ UNCHANGED cooldown
     \/ Failed(h)
  /\ UNCHANGED <<roleVars, child>>

Apologized(h) ==
  /\ press[h].at = "sorry"
  /\ press' = [press EXCEPT ![h].at = "done", ![h].requested = None, ![h].executed = None]
  /\ UNCHANGED <<roleVars, cooldown, last, child>>

Next ==
  \/ \E u \in Users :
       \/ ChangeStatus(u) \/ Synced(u) \/ RoleChanges(u) \/ MemberUpdates(u)
       \/ CooldownEnds(u)
       \/ \E h \in Presses, admin \in BOOLEAN : InteractionCreate(h, u, admin)
  \/ \E h \in Presses :
       \/ Deferred(h) \/ Redirected(h) \/ NoInput(h) \/ Input(h)
       \/ WorkerStops(h) \/ WorkerUnavailable(h) \/ WorkerCloses(h) \/ Reaped(h)
       \/ HostAnswers(h) \/ HostGivesUp(h) \/ HostFails(h)
       \/ Answered(h) \/ Apologized(h)

Spec == Init /\ [][Next]_commandVars

-----------------------------------------------------------------------------
\* Once all presences and changes have arrived, who shows the text has the role.
RoleFollowsStatus ==
  \A u \in Users \ unsure :
    updates[u] = <<>> /\ calls[u] = <<>> /\ news[u] = <<>> => role[u] = status[u]

\* A recovery is paid for with a wait, and a failed one is not.
CooldownsHold ==
  \A u \in Users :
    /\ last[u] = "success" => cooldown[u]
    /\ last[u] = "failure" => ~cooldown[u]

\* No worker outlives the wait for it but to be reaped, and who got less than the
\* stage asked for was told.
RecoveriesAreTold ==
  \A h \in Presses :
    /\ child[h] = "running" => press[h].at = "worker"
    /\ press[h].at = "done" /\ press[h].executed # None
         => (press[h].limited <=> press[h].executed # 5)

(***************************************************************************)
(* The command keeps its word: the role follows the status, unless it      *)
(* changed again while a change of the role was under way, or a call was   *)
(* refused; whoever pressed alone waits after a recovery and only then;    *)
(* and a recovery that was limited, wherever it was made, says so.         *)
(***************************************************************************)
CommandsAreTrue == RoleFollowsStatus /\ CooldownsHold /\ RecoveriesAreTold

=============================================================================
