------------------------------- MODULE RedisMC -------------------------------
(***************************************************************************)
(* The Redis side for TLC: the queue over Redis, the dispatch of the       *)
(* deployed path over the same lists, or the client that carries their     *)
(* commands.  The queue takes a command to be answered, the client does    *)
(* not look at what it carries, so a behaviour is one of a part, chosen at *)
(* the start, and not of their product.                                    *)
(***************************************************************************)
EXTENDS RedisSide

VARIABLE part   \* the part that runs: "queue", "dispatch" or "client"

allVars == <<part, vars, dispatchedVars, clientVars>>

MCInit ==
  /\ Init /\ Dispatch!DispatchInit /\ Client!Init
  /\ part \in {"queue", "dispatch", "client"}

MCNext ==
  \/ part = "queue" /\ Next /\ UNCHANGED <<part, dispatchedVars, clientVars>>
  \/ part = "dispatch" /\ Dispatch!DispatchNext /\ UNCHANGED <<part, vars, clientVars>>
  \/ part = "client" /\ Client!Next /\ UNCHANGED <<part, vars, dispatchedVars>>

\* The parts that do not run have no fair action that is enabled.
MCSpec ==
  /\ MCInit /\ [][MCNext]_allVars
  /\ Fairness
  /\ Dispatch!DispatchFairness
  /\ Client!Fairness
=============================================================================
