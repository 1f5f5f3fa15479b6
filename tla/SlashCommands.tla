---------------------------- MODULE SlashCommands ----------------------------
(***************************************************************************)
(* The Discord gateway package (packages/discord/src): /recover fetches an *)
(* attachment and submits it to the product API, /status and /cancel ask   *)
(* the API about a job.  A handler runs to its next await; between awaits  *)
(* come Discord, the API, sockets and timers, those of a fetch that is     *)
(* over among them.                                                        *)
(*                                                                         *)
(* Of a link and of an address the model keeps whether they are allowed,   *)
(* of a file whether it is within the limit.  The API is what Gateway      *)
(* shows it to be, its two looks at a job that is cancelled included.      *)
(***************************************************************************)
EXTENDS Naturals, Sequences

CONSTANTS
  Users,
  Presses,    \* interactions, each of which is there once
  JobIds,
  maxHops,    \* bound: redirects of one fetch; the code has none
  None

Terminal == {"SUCCEEDED", "FAILED", "TIMED_OUT", "CANCELLED"}

\* LOST: the API was started again, and its queue was empty.
JobState == {"ABSENT", "QUEUED", "RUNNING", "LOST"} \cup Terminal

VARIABLES
  press,     \* what the handler of an interaction does
  fetch,     \* press -> how its fetch stands: the promise, and
  hops,      \*   its requests, one for each redirect
  request,   \* press -> how far the API is with what it asks
  owner, state,   \* job -> whose it is, and what the API knows of it
  made,      \* history: press -> the job the API made for it
  told       \* press -> what its user read

jobVars == <<owner, state, made>>
fetchVars == <<fetch, hops>>
slashVars == <<press, fetchVars, request, jobVars, told>>

Commands == {"recover", "status", "cancel"}

\* What a reply says: an outcome, or the state of a job.
Says == {"submitted", "cancelled", "denied", "not found", "over", "failed"} \cup JobState

Assumptions ==
  /\ maxHops \in Nat
  /\ None \notin Users \cup JobIds \cup Says

Press == [at : {"new", "defer", "file", "api", "reply", "done"},
          command : Commands, user : Users \cup {None}, job : JobIds \cup {None},
          says : Says \cup {None}]

NewPress == [at |-> "new", command |-> "status", user |-> None, job |-> None, says |-> None]

\* seen: what the API found of the job when it looked first.
Request == [at : {"none", "asked", "looked", "answered"}, job : JobIds \cup {None},
            seen : JobState, says : Says]

NoRequest == [at |-> "none", job |-> None, seen |-> "ABSENT", says |-> "failed"]

Hop == [timer : BOOLEAN, settled : BOOLEAN, socket : {"open", "gone"}]

(***************************************************************************)
(* The type invariant: handlers, fetches, jobs and replies.                *)
(***************************************************************************)
TypeOK ==
  /\ press \in [Presses -> Press]
  /\ fetch \in [Presses -> {"none", "dns", "get", "content", "error"}]
  /\ hops \in [Presses -> Seq(Hop)]
  /\ request \in [Presses -> Request]
  /\ owner \in [JobIds -> Users \cup {None}]
  /\ state \in [JobIds -> JobState]
  /\ made \in [Presses -> JobIds \cup {None}]
  /\ told \in [Presses -> Says \cup {None}]

Init ==
  /\ press = [h \in Presses |-> NewPress]
  /\ fetch = [h \in Presses |-> "none"]
  /\ hops = [h \in Presses |-> <<>>]
  /\ request = [h \in Presses |-> NoRequest]
  /\ owner = [j \in JobIds |-> None]
  /\ state = [j \in JobIds |-> "ABSENT"]
  /\ made = [h \in Presses |-> None]
  /\ told = [h \in Presses |-> None]

-----------------------------------------------------------------------------
(***************************************************************************)
(* handleInteraction finds the command; its execute defers the reply.      *)
(***************************************************************************)
HandleInteraction(h, command, u, j) ==
  /\ press[h].at = "new"
  /\ press' = [press EXCEPT ![h] = [NewPress EXCEPT
                 !.at = "defer", !.command = command, !.user = u,
                 !.job = IF command = "recover" THEN None ELSE j]]
  /\ UNCHANGED <<fetchVars, request, jobVars, told>>

To(h, at) == press' = [press EXCEPT ![h].at = at]

Reply(h, says) == press' = [press EXCEPT ![h].at = "reply", ![h].says = says]

\* A deferral that is refused is no command's to catch.
NotDeferred(h) ==
  /\ press[h].at = "defer"
  /\ To(h, "done")
  /\ UNCHANGED <<fetchVars, request, jobVars, told>>

\* Without a file the user is told so; a link that is not allowed throws.
NoFile(h) ==
  /\ press[h].at = "defer"
  /\ press[h].command = "recover"
  /\ Reply(h, "failed")
  /\ UNCHANGED <<fetchVars, request, jobVars, told>>

Deferred(h) ==
  /\ press[h].at = "defer"
  /\ IF press[h].command = "recover"
     THEN /\ To(h, "file")
          /\ fetch' = [fetch EXCEPT ![h] = "dns"]
          /\ UNCHANGED request
     ELSE /\ To(h, "api")
          /\ request' = [request EXCEPT ![h].at = "asked", ![h].job = press[h].job]
          /\ UNCHANGED fetch
  /\ UNCHANGED <<hops, jobVars, told>>

-----------------------------------------------------------------------------
(***************************************************************************)
(* fetchAttachment.  An address that is not allowed is an error.           *)
(***************************************************************************)
Resolved(h) ==
  /\ fetch[h] = "dns"
  /\ \/ /\ fetch' = [fetch EXCEPT ![h] = "get"]
        /\ hops' = [hops EXCEPT ![h] = Append(@, [timer |-> TRUE, settled |-> FALSE,
                                                  socket |-> "open"])]
     \/ /\ fetch' = [fetch EXCEPT ![h] = "error"]
        /\ UNCHANGED hops
  /\ UNCHANGED <<press, request, jobVars, told>>

Last(h) == Len(hops[h])

\* A response to the last request, which neither its timer nor an error came before.
Responds(h) ==
  /\ fetch[h] = "get"
  /\ hops[h][Last(h)].socket = "open"

LeftUnsettled(hop) == [hop EXCEPT !.timer = FALSE]   \* defect: settled is not set

Settled(hop) == [hop EXCEPT !.timer = FALSE, !.settled = TRUE]

\* The request is replaced by one for the new link, with a timer of its own, or the
\* new link is not allowed.
Redirected(h) ==
  /\ Responds(h)
  /\ Last(h) <= maxHops
  /\ hops' = [hops EXCEPT ![h][Last(h)] = Settled(@)]
  /\ \E next \in {"dns", "error"} : fetch' = [fetch EXCEPT ![h] = next]
  /\ UNCHANGED <<press, request, jobVars, told>>

\* Another status is an error, and what comes with it is left where it is; too long a
\* file, declared or received, is one too, and ends the request; or all of it is there.
Ends(h) ==
  /\ Responds(h)
  /\ \/ /\ fetch' = [fetch EXCEPT ![h] = "error"]
        /\ \E socket \in {"open", "gone"} :
             hops' = [hops EXCEPT ![h][Last(h)] = [Settled(@) EXCEPT !.socket = socket]]
     \/ /\ fetch' = [fetch EXCEPT ![h] = "content"]
        /\ hops' = [hops EXCEPT ![h][Last(h)] = [Settled(@) EXCEPT !.socket = "gone"]]
  /\ UNCHANGED <<press, request, jobVars, told>>

\* An error of a request, the last or an earlier one, or its timer: what has settled
\* takes no notice.
Breaks(h, k) ==
  /\ hops[h][k].socket = "open"
  /\ hops' = [hops EXCEPT ![h][k] = [Settled(@) EXCEPT !.socket = "gone"]]
  /\ fetch' = IF hops[h][k].settled THEN fetch ELSE [fetch EXCEPT ![h] = "error"]
  /\ UNCHANGED <<press, request, jobVars, told>>

-----------------------------------------------------------------------------
(***************************************************************************)
(* The request to the API; nothing limits how long it is awaited.          *)
(***************************************************************************)
Fetched(h) ==
  /\ press[h].at = "file"
  /\ \/ /\ fetch[h] = "content"
        /\ To(h, "api")
        /\ request' = [request EXCEPT ![h].at = "asked"]
     \/ /\ fetch[h] = "error"
        /\ Reply(h, "failed")
        /\ UNCHANGED request
  /\ UNCHANGED <<fetchVars, jobVars, told>>

\* The API makes a job, or refuses.
Submitted(h, j) ==
  /\ request[h].at = "asked"
  /\ press[h].command = "recover"
  /\ owner[j] = None
  /\ owner' = [owner EXCEPT ![j] = press[h].user]
  /\ state' = [state EXCEPT ![j] = "QUEUED"]
  /\ made' = [made EXCEPT ![h] = j]
  /\ request' = [request EXCEPT ![h].at = "answered", ![h].job = j, ![h].says = "submitted"]
  /\ UNCHANGED <<press, fetchVars, told>>

Answer(h, says) == request' = [request EXCEPT ![h].at = "answered", ![h].says = says]

Refused(h) ==
  /\ request[h].at = "asked"
  /\ press[h].command = "recover"
  /\ Answer(h, "failed")
  /\ UNCHANGED <<press, fetchVars, jobVars, told>>

\* It looks the job up, for its owner only, and goes on when it is back.
LooksUp(h) ==
  LET j == request[h].job IN
  /\ request[h].at = "asked"
  /\ press[h].command # "recover"
  /\ IF state[j] \in {"ABSENT", "LOST"} THEN Answer(h, "not found")
     ELSE IF owner[j] # press[h].user THEN Answer(h, "denied")
     ELSE request' = [request EXCEPT ![h].at = "looked", ![h].seen = state[j]]
  /\ UNCHANGED <<press, fetchVars, jobVars, told>>

Reports(h) ==
  /\ request[h].at = "looked"
  /\ press[h].command = "status"
  /\ Answer(h, request[h].seen)
  /\ UNCHANGED <<press, fetchVars, jobVars, told>>

\* A job that ended meanwhile stays as it is, and its cancellation is confirmed.
Cancels(h) ==
  LET j == request[h].job IN
  /\ request[h].at = "looked"
  /\ press[h].command = "cancel"
  /\ IF request[h].seen \in Terminal
     THEN /\ Answer(h, "over")
          /\ UNCHANGED state
     ELSE /\ Answer(h, "cancelled")
          /\ state' = IF state[j] \in Terminal \cup {"LOST"} THEN state
                      ELSE [state EXCEPT ![j] = "CANCELLED"]
  /\ UNCHANGED <<press, fetchVars, owner, made, told>>

\* The answer arrives, or the connection breaks, which the API need not notice.
Answered(h) ==
  /\ press[h].at = "api"
  /\ request[h].at = "answered"
  /\ press' = [press EXCEPT ![h].at = "reply", ![h].job = request[h].job,
                           ![h].says = request[h].says]
  /\ UNCHANGED <<fetchVars, request, jobVars, told>>

Unanswered(h) ==
  /\ press[h].at = "api"
  /\ Reply(h, "failed")
  /\ UNCHANGED <<fetchVars, request, jobVars, told>>

\* A reply that Discord refuses is not awaited within the command's try.
Replied(h) ==
  /\ press[h].at = "reply"
  /\ To(h, "done")
  /\ \/ told' = [told EXCEPT ![h] = press[h].says]
     \/ UNCHANGED told
  /\ UNCHANGED <<fetchVars, request, jobVars>>

-----------------------------------------------------------------------------
\* The jobs of the API, and its restart, which ends what it was doing.
JobMoves(j) ==
  /\ \/ state[j] = "QUEUED" /\ state' = [state EXCEPT ![j] = "RUNNING"]
     \/ /\ state[j] = "RUNNING"
        /\ \E s \in (Terminal \ {"CANCELLED"}) \cup {"QUEUED"} :
             state' = [state EXCEPT ![j] = s]
  /\ UNCHANGED <<press, fetchVars, request, owner, made, told>>

Restarts ==
  /\ state' = [j \in JobIds |-> IF state[j] = "ABSENT" THEN "ABSENT" ELSE "LOST"]
  /\ request' = [h \in Presses |->
                   IF request[h].at = "looked" THEN NoRequest ELSE request[h]]
  /\ UNCHANGED <<press, fetchVars, owner, made, told>>

Next ==
  \/ \E h \in Presses :
       \/ \E command \in Commands, u \in Users, j \in JobIds :
            HandleInteraction(h, command, u, j)
       \/ NotDeferred(h) \/ NoFile(h) \/ Deferred(h)
       \/ Resolved(h) \/ Redirected(h) \/ Ends(h)
       \/ \E k \in DOMAIN hops[h] : Breaks(h, k)
       \/ Fetched(h) \/ Refused(h) \/ LooksUp(h) \/ Reports(h) \/ Cancels(h)
       \/ \E j \in JobIds : Submitted(h, j)
       \/ Answered(h) \/ Unanswered(h) \/ Replied(h)
  \/ \E j \in JobIds : JobMoves(j)
  \/ Restarts

Spec == Init /\ [][Next]_slashVars

-----------------------------------------------------------------------------
\* A fetch has at most one request that counts, its last one, and it has that one for
\* as long as it gets; when it is over no timer runs and nothing can end it again.
FetchesSettle ==
  \A h \in Presses :
    /\ \A k \in DOMAIN hops[h] :
         /\ hops[h][k].timer <=> ~hops[h][k].settled
         /\ ~hops[h][k].settled => k = Last(h) /\ fetch[h] = "get"
    /\ press[h].at \notin {"new", "defer", "file"} => fetch[h] \notin {"dns", "get"}

RepliesStayTrue ==
  \A h \in Presses :
    LET j == press[h].job IN
    /\ told[h] = "submitted" => made[h] = j
    /\ told[h] \in {"submitted", "cancelled", "over"} \cup JobState =>
         owner[j] = press[h].user
    /\ told[h] = "denied" => owner[j] # press[h].user
    /\ told[h] \in {"cancelled", "over"} => state[j] \in Terminal \cup {"LOST"}
    /\ told[h] \in Terminal => state[j] \in {told[h], "LOST"}

(***************************************************************************)
(* A fetch settles once, whatever timers and sockets still do; a press     *)
(* makes one job at most, out of a file that is all there; and what a user *)
(* was told of a job stays true: whose it is, that it is over, and how it  *)
(* ended.                                                                  *)
(***************************************************************************)
RepliesAreTrue ==
  /\ FetchesSettle
  /\ RepliesStayTrue
  /\ \A h \in Presses : made[h] # None => fetch[h] = "content"
  /\ \A h, g \in Presses : made[h] # None /\ made[h] = made[g] => h = g

=============================================================================
