----------------------------- MODULE RateLimiter -----------------------------
(***************************************************************************)
(* RateLimiter (packages/gateway/src/rate-limiter.js) with the two places  *)
(* that call it for a submission: the API server when the request arrives  *)
(* and RecoveryGateway.submitJobSync when its body has been read.  Also    *)
(* the concurrency slots that processNextJobSync takes and gives back.     *)
(*                                                                         *)
(* Time is kept in ages: an entry of a list is now - ts in ticks, where    *)
(* windowMs + 1 stands for everything older.  Lists are oldest first.      *)
(***************************************************************************)
EXTENDS Ranking

CONSTANTS
  Principals,
  Requests,          \* submissions under way
  Workers,           \* callers of processNextJobSync
  windowMs,
  second,            \* the 1000 ms of the burst check
  maxRequests,
  burstLimit,
  maxConcurrent,
  None

Assumptions ==
  /\ second \in 1..windowMs
  /\ {windowMs, maxRequests, burstLimit, maxConcurrent} \subseteq Nat \ {0}
  /\ IsFiniteSet(Workers) /\ None \notin Principals

VARIABLES
  requestTimestamps,   \* principal -> ages of what it counts as submissions
  activeJobs,          \* principal -> slots in use
  waiting,             \* request -> the principal whose body is awaited
  running,             \* worker -> the principal whose job it runs
  granted              \* history: principal -> ages of the checks that allowed one

vars == <<requestTimestamps, activeJobs, waiting, running, granted>>

tooOld == windowMs + 1

Ages == Seq(0..tooOld)

(***************************************************************************)
(* The type invariant: the Maps of RateLimiter and what its callers hold.  *)
(***************************************************************************)
TypeOK ==
  /\ requestTimestamps \in [Principals -> Ages]
  /\ activeJobs \in [Principals -> 0..maxConcurrent]
  /\ waiting \in [Requests -> Principals \cup {None}]
  /\ running \in [Workers -> Principals \cup {None}]
  /\ granted \in [Principals -> Ages]

Init ==
  /\ requestTimestamps = [p \in Principals |-> <<>>]
  /\ activeJobs = [p \in Principals |-> 0]
  /\ waiting = [r \in Requests |-> None]
  /\ running = [w \in Workers |-> None]
  /\ granted = [p \in Principals |-> <<>>]

-----------------------------------------------------------------------------
(***************************************************************************)
(* checkLimit: what is left of the window, whether one more is allowed,    *)
(* the reset time of a refusal, and the list afterwards.                   *)
(***************************************************************************)
Within(ages, age) == Filtered(ages, {i \in DOMAIN ages : ages[i] < age})

InWindow(ages) == Within(ages, windowMs)

\* How many of them that is.
Younger(ages, age) == Cardinality({i \in DOMAIN ages : ages[i] < age})

BurstExceededLate(ages) == Younger(ages, second) > burstLimit   \* defect

BurstExceeded(ages) == Younger(ages, second) >= burstLimit

WindowExceeded(ages) == Younger(ages, windowMs) >= maxRequests

Allowed(ages) == ~BurstExceeded(ages) /\ ~WindowExceeded(ages)

resetMs(ages) ==
  IF BurstExceeded(ages) THEN second ELSE windowMs - Head(InWindow(ages))

AfterCheck(ages) ==
  IF Allowed(ages) THEN Append(InWindow(ages), 0) ELSE InWindow(ages)

\* The log is kept for the properties only, with as many entries as these need.
Recorded(log) ==
  LET all == Append(Within(log, windowMs), 0)
  IN IF Len(all) > maxRequests + 1 THEN Tail(all) ELSE all

Check(p) ==
  /\ requestTimestamps' = [requestTimestamps EXCEPT ![p] = AfterCheck(@)]
  /\ granted' = IF Allowed(requestTimestamps[p])
                THEN [granted EXCEPT ![p] = Recorded(@)]
                ELSE granted

-----------------------------------------------------------------------------
(***************************************************************************)
(* A submission: the check of the API server, then, an await later, the    *)
(* one of the gateway, under the same key.                                 *)
(***************************************************************************)
Arrive(r, p) ==
  /\ waiting[r] = None
  /\ Check(p)
  /\ waiting' = IF Allowed(requestTimestamps[p]) THEN [waiting EXCEPT ![r] = p]
                                                ELSE waiting
  /\ UNCHANGED <<activeJobs, running>>

Submit(r) ==
  /\ waiting[r] # None
  /\ Check(waiting[r])
  /\ waiting' = [waiting EXCEPT ![r] = None]
  /\ UNCHANGED <<activeJobs, running>>

-----------------------------------------------------------------------------
(***************************************************************************)
(* processNextJobSync: a slot is taken for the principal of the job that   *)
(* was leased and given back when its run has ended, however it ended.     *)
(***************************************************************************)
AcquireConcurrency(w, p) ==
  /\ running[w] = None
  /\ activeJobs[p] < maxConcurrent
  /\ activeJobs' = [activeJobs EXCEPT ![p] = @ + 1]
  /\ running' = [running EXCEPT ![w] = p]
  /\ UNCHANGED <<requestTimestamps, waiting, granted>>

OneFewerCleared(n) == 0   \* defect: the entry is deleted in any case

OneFewer(n) == IF n <= 1 THEN 0 ELSE n - 1

ReleaseConcurrency(w) ==
  LET p == running[w] IN
  /\ p # None
  /\ activeJobs' = [activeJobs EXCEPT ![p] = OneFewer(@)]
  /\ running' = [running EXCEPT ![w] = None]
  /\ UNCHANGED <<requestTimestamps, waiting, granted>>

Older(ages) == [i \in DOMAIN ages |-> IF ages[i] < tooOld THEN ages[i] + 1 ELSE tooOld]

Tick ==
  /\ \E p \in Principals :
       \E ages \in {requestTimestamps[p], granted[p]} :
         \E i \in DOMAIN ages : ages[i] < tooOld
  /\ requestTimestamps' = [p \in Principals |-> Older(requestTimestamps[p])]
  /\ granted' = [p \in Principals |-> Older(granted[p])]
  /\ UNCHANGED <<activeJobs, waiting, running>>

Next ==
  \/ \E r \in Requests : Submit(r) \/ \E p \in Principals : Arrive(r, p)
  \/ \E w \in Workers :
       ReleaseConcurrency(w) \/ \E p \in Principals : AcquireConcurrency(w, p)
  \/ Tick

Spec == Init /\ [][Next]_vars

-----------------------------------------------------------------------------
(***************************************************************************)
(* In no window of windowMs, wherever it begins, is a principal allowed    *)
(* more than maxRequests times, and in no second more than burstLimit      *)
(* times, though the list is only pruned when somebody asks.               *)
(***************************************************************************)
WindowsHold ==
  \A p \in Principals :
    /\ Younger(granted[p], windowMs) <= maxRequests
    /\ Younger(granted[p], second) <= burstLimit

After(ages, ms) ==
  [i \in DOMAIN ages |-> IF ages[i] + ms < tooOld THEN ages[i] + ms ELSE tooOld]

(***************************************************************************)
(* A principal that is refused because its window is full and waits the    *)
(* resetMs it was told, without other requests, is allowed then            *)
(* (checkLimit).                                                           *)
(***************************************************************************)
RetryAfterIsEnough ==
  \A p \in Principals :
    LET ages == requestTimestamps[p] IN
    WindowExceeded(ages) /\ ~BurstExceeded(ages) =>
      Allowed(After(ages, resetMs(ages)))

(***************************************************************************)
(* The slots counted for a principal are those its running jobs hold: none *)
(* is leaked or given back twice, whatever order the runs end in.          *)
(***************************************************************************)
SlotsAreExact ==
  \A p \in Principals :
    activeJobs[p] = Cardinality({w \in Workers : running[w] = p})

(***************************************************************************)
(* The limits are kept, and no more than kept.                             *)
(***************************************************************************)
LimitsHold == WindowsHold /\ RetryAfterIsEnough /\ SlotsAreExact
==============================================================================
