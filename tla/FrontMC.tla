------------------------------- MODULE FrontMC -------------------------------
(***************************************************************************)
(* The front of the product API for TLC, a behaviour being one of a part,  *)
(* chosen at the start, and not of their product.                          *)
(***************************************************************************)
EXTENDS Front, TLC

CONSTANTS OneRequest, OnePrincipal, OneJob, TwoJobs

\* Within(ages, age) is what Sequences calls SelectSeq, on every short list.
ASSUME WithinIsAFilter ==
  \A n \in 0 .. 3, age0 \in 0 .. 3 : \A ages \in [1 .. n -> 0 .. 3] :
    LET younger(a) == a < age0 IN Limits!Within(ages, age0) = SelectSeq(ages, younger)

VARIABLE part   \* the part that runs

MCInit ==
  /\ part \in {"accounts", "submissions", "limits", "asking", "keeping"}
  /\ Init /\ Submissions!Init /\ Limits!Init /\ Recoveries!Init
  /\ part # "accounts" => ~shared   \* and the process is one of two alike
  /\ part \notin {"asking", "keeping"} => artifactStore = "local"

\* Two handlers about one job, and one beside two jobs of one principal, in a
\* process that is not restarted.
MCNext ==
  \/ /\ part = "accounts" /\ Next
     /\ UNCHANGED <<part, submissionVars, limitVars, gatewayVars>>
  \/ /\ part = "submissions" /\ Submissions!Next
     /\ UNCHANGED <<part, vars, limitVars, gatewayVars>>
  \/ /\ part = "limits" /\ Limits!Next
     /\ UNCHANGED <<part, vars, submissionVars, gatewayVars>>
  \/ /\ part = "asking"
     /\ Recoveries!Steps(Requests, Principals, OneJob) \/ Recoveries!Restart
     /\ UNCHANGED <<part, vars, submissionVars, limitVars>>
  \/ /\ part = "keeping" /\ Recoveries!Steps(OneRequest, OnePrincipal, TwoJobs)
     /\ UNCHANGED <<part, vars, submissionVars, limitVars>>

MCSpec == MCInit /\ [][MCNext]_<<part, vars, submissionVars, limitVars, gatewayVars>>

\* The third id is of the submissions alone and is left out: what it would save
\* there the other parts pay for.
Symmetry ==
  Permutations(Principals) \cup Permutations(Requests)
  \cup Permutations(Processes) \cup Permutations(TwoJobs)
=============================================================================
