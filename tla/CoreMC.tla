------------------------------- MODULE CoreMC -------------------------------
(***************************************************************************)
(* The recovery core for TLC: a request with its stages and proofs         *)
(* (Recovery), what stage L4 makes of a dispatcher (Separation), what      *)
(* stage L5 and the generator make of a program (Cleanup), and what a      *)
(* program is found to look up (Environment).  The first takes what the    *)
(* others find as a choice of its own, so a behaviour is one of a part,    *)
(* chosen at the start.  The properties of Recovery, Cleanup and           *)
(* Environment hold of the other parts, where nothing is asked, no step is *)
(* taken and nothing is reported.                                          *)
(*                                                                         *)
(* Dispatched programs begin at state 1, and what is symmetric in the      *)
(* outcomes of a test is taken once; the last state has one way on of each *)
(* kind.                                                                   *)
(***************************************************************************)
EXTENDS RecoveryMC, CleanupMC, Environment

CONSTANTS States, maxRebuilt, maxSteps

Nexts(s) ==
  {[kind |-> "exit"], [kind |-> "dynamic", to |-> 1]}
  \cup [kind : {"goto"}, to : IF s = 4 THEN {1} ELSE States]
  \cup {n \in [kind : {"branch"}, yes : States, no : States] :
          IF s = 4 THEN n.yes = 1 /\ n.no = 2 ELSE n.yes < n.no}

Dispatched ==
  {[root |-> 1, block |->
     [s \in States |-> [makes |-> IF s = 1 THEN m ELSE None, next |-> n[s]]]] :
     m \in {None, 3},
     n \in {f \in [States -> UNION {Nexts(s) : s \in States}] :
              \A s \in States : f[s] \in Nexts(s)}}

VARIABLES
  part,   \* the part that runs: "recovery", "separation", "cleanup" or "environment"
  dispatched, stage, reach, bodies, tree, original

Separation == INSTANCE Separation
  WITH program <- dispatched, Programs <- Dispatched, Nothing <- None

ASSUME RecoveryAssumption == Assumptions

separationVars == <<dispatched, stage, reach, bodies, tree, original>>

NoRequest ==
  /\ request = None /\ target = None /\ at = None /\ program = None /\ level = None
  /\ code = None /\ metrics = None /\ evidence = None /\ answer = None

NoDispatcher ==
  /\ dispatched = None /\ stage = None /\ reach = None
  /\ bodies = None /\ tree = None /\ original = None

NoText ==
  /\ source = None /\ chunk = None /\ pass = None
  /\ step = None /\ changed = None /\ text = None /\ NothingFound

CoreInit ==
  \/ part = "recovery" /\ Init /\ NoDispatcher /\ NoText
  \/ part = "separation" /\ Separation!Init /\ NoRequest /\ NoText
  \/ part = "cleanup" /\ CleanupInit /\ NoRequest /\ NoDispatcher /\ NothingFound
  \/ part = "environment" /\ EnvironmentInit /\ NoRequest /\ NoDispatcher

CoreNext ==
  \/ part = "recovery" /\ at # "done" /\ Next
     /\ UNCHANGED <<part, separationVars, environmentVars>>
  \/ part = "separation" /\ Separation!Next
     /\ UNCHANGED <<part, vars, environmentVars>>
  \/ part \in {"cleanup", "environment"} /\ ParseSource
     /\ UNCHANGED <<part, vars, separationVars, vmEnv, found, report, parsed>>
  \/ part = "cleanup" /\ CleanUp
     /\ UNCHANGED <<part, vars, separationVars, vmEnv, found, report, parsed>>
  \/ part = "environment" /\ Analyze
     /\ UNCHANGED <<part, vars, separationVars>>

CoreSpec ==
  CoreInit /\ [][CoreNext]_<<part, vars, separationVars, environmentVars>>

\* The flow graph does not look at the search tree: it is checked with one.
OneTree == CHOOSE t \in Separation!Trees(1, Cardinality(States)) : TRUE

-----------------------------------------------------------------------------
\* See Separation: the analyses of the flow graph compute what they are named
\* for,
AnalysesAreExact ==
  part = "separation" /\ original = OneTree => Separation!AnalysesAreExact

\* a function whose states form a tree does as rebuilt what it did, and a
\* state that is not one function's own stays in the dispatcher with what it
\* leads to,
PartsAreKept == part = "separation" => Separation!PartsAreKept

\* and, as the documents have it, the program does what it did.
NothingIsLost == part = "separation" => Separation!NothingIsLost
=============================================================================
