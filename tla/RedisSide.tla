------------------------------ MODULE RedisSide ------------------------------
(***************************************************************************)
(* The two users of Redis side by side, the queue whose consumers lease    *)
(* jobs and the deployed path, whose daemons do not; and the client that   *)
(* carries their commands.  The users share the limits of the queue and    *)
(* nothing else; no deployment runs both on one list.                      *)
(***************************************************************************)
EXTENDS RedisQueue

CONSTANTS
  Processes, Daemons, Outcomes, Expiring, DispatchFaults,
  maxCalls, maxPending, Widths, LinkFaults, Rejected

VARIABLES
  \* of ProductDispatch
  dJob, dWaiting, dIdemp, dLease, dIssued, dAbandoned, dProc,
  toInit, files, response, daemon,
  \* of RespClient
  connected, sent, server, wire, buffer, pendingCallbacks, outcome, interrupted

Dispatch == INSTANCE ProductDispatch
  WITH Producers <- Processes, Consumers <- {}, Keys <- {}, Faults <- DispatchFaults,
       job <- dJob, waiting <- dWaiting, idemp <- dIdemp, lease <- dLease,
       issued <- dIssued, abandoned <- dAbandoned, proc <- dProc

Client == INSTANCE RespClient WITH Faults <- LinkFaults

ASSUME DispatchAssumption ==
  /\ Dispatch!Assumptions
  /\ DispatchFaults \subseteq {"crash", "expiry"}
  /\ None \notin JobIds \cup Dispatch!Doc

ASSUME ClientAssumption == Client!Assumptions

dispatchedVars == <<dJob, dWaiting, dIdemp, dLease, dIssued, dAbandoned, dProc,
                    toInit, files, response, daemon>>

clientVars == <<connected, sent, server, wire, buffer, pendingCallbacks, outcome,
                interrupted>>

\* See ProductDispatch: no job is run twice, ...
OneRunPerJob == Dispatch!OneRunPerJob

\* ... a completed job has its files, ...
CompletedIsDownloadable == Dispatch!CompletedIsDownloadable

\* ... and a job is answered unless a fault hit that very job.
EveryJobIsAnswered == Dispatch!EveryJobIsAnswered

\* See RespClient: a call is given its own reply ...
ReplyIsOwn == Client!ReplyIsOwn

\* ... and every call is given one, unless a connection is lost under somebody.
EveryCallReturns == Client!EveryCallReturns

==============================================================================
