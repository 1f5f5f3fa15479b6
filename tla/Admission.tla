------------------------------ MODULE Admission ------------------------------
(***************************************************************************)
(* The decision whether a recovered program may replace the protected one  *)
(* (level L5-W).  Analyzers give evidence; three validators and a gate     *)
(* judge it.  Every operator is a function of the evidence, so the state   *)
(* machine of Recovery only says when each is asked.                       *)
(*                                                                         *)
(* Evidence about a program is a record:                                   *)
(*   walk, env, preEnv   what makes the program open: found by the walk of *)
(*                       the final tree, by the environment analyzer in    *)
(*                       the final tree, and in the original tree          *)
(*   branches            some condition or loop bound is not a constant    *)
(*   covered             more than 0.7 of the flow graph's blocks are      *)
(*                       reachable, or there is no graph                   *)
(*   shape               what the trace printed: "one" value, "two" lines  *)
(*                       of one value, one "wide" line, "six" lines or     *)
(*                       more, or something "other"                        *)
(*   vararg, capture     "none", "plain", or with a "dynamic" source       *)
(*   multi, nested       several values returned; two functions or more    *)
(*   mixed               how closures, varargs and state interact: a       *)
(*                       "plain" program, a "factory" profile read from    *)
(*                       the tree or a "lifted" one read from the VM       *)
(***************************************************************************)
EXTENDS Integers, FiniteSets, Sequences

CONSTANT None          \* no mixed-closed report (null)

WalkKinds == {"global", "escaping", "callback"}
EnvKinds  == {"unknown", "dynamic", "unresolved", "replaced"}

\* What is read of a closure factory from the tree (see FromTree), ...
Factory ==
  [table : BOOLEAN, counter : BOOLEAN, written : Nat, invocations : Nat,
   test : {"none", "counter", "other"}, returns : Int, captures : BOOLEAN,
   tampered : BOOLEAN, dynamic : BOOLEAN]

\* ... and lifted from the VM (see FromLifting); own: the program's values.
Lifting ==
  [own : [bound : STRING, packed : Seq(STRING), args : Seq(STRING), arity : Nat],
   packs : Nat, closures : Nat, mutations : Nat, widest : Nat, branches : Nat,
   multiReturns : Nat, detached : BOOLEAN]

Findings ==
  [walk : SUBSET WalkKinds, env : SUBSET EnvKinds, preEnv : SUBSET EnvKinds,
   branches : BOOLEAN, covered : BOOLEAN,
   shape : {"one", "two", "wide", "six", "other"},
   vararg : {"none", "plain", "dynamic"}, capture : {"none", "plain", "dynamic"},
   multi : BOOLEAN, nested : BOOLEAN,
   mixed : [kind : {"plain"}, profile : {None}] \cup [kind : {"factory"}, profile : Factory]
           \cup [kind : {"lifted"}, profile : Lifting]]

Features == {"vararg", "closure", "state", "branch", "multiReturn",
             "tableIdentity", "evaluationOrder"}

\* Where a proof may come from, and where it must not.
StaticSources == {"STATIC_AST", "STATIC_IR", "STATIC_VM_LIFTING", "CFG",
                  "POINTS_TO", "ABSTRACT_INTERPRETATION"}
ProhibitedSources == {"SEMANTIC_TRACE", "EXPECTED_SOURCE",
                      "FIXTURE_METADATA", "ORACLE_TRACE"}

-----------------------------------------------------------------------------
(* The mixed-closed report: what the tree or the lifted VM shows of a      *)
(* closure factory whose instance is called more than once.                *)

\* The report read from the tree.  p: table (a local table packs the
\* varargs), counter (a numeric local, or an outer variable the inner
\* function writes), written (how many such writes), invocations, test
\* ("none", "counter" or "other": what the inner function compares),
\* returns (values of its first return), captures, tampered (the packed
\* table is handed to an external function).
FromTree(p, eligible, escaping) ==
  LET persistent == p.counter /\ p.invocations > 0
      outcomes   == persistent /\ p.test = "counter"
      identity   == p.table /\ ~p.tampered
      ordered    == p.invocations > 0
      unless(claim, source) == IF claim THEN source ELSE "none"
  IN [claims |-> {"closure"}
        \cup (IF p.table THEN {"vararg"} ELSE {})
        \cup (IF persistent THEN {"state"} ELSE {})
        \cup (IF outcomes THEN {"branch"} ELSE {})
        \cup (IF p.returns > 0 THEN {"multiReturn"} ELSE {})
        \cup (IF identity THEN {"tableIdentity"} ELSE {})
        \cup (IF ordered THEN {"evaluationOrder"} ELSE {}),
      source |-> [f \in Features |->
        CASE f = "vararg"          -> unless(p.table, "STATIC_AST")
          [] f = "closure"         -> "STATIC_IR"
          [] f = "state"           -> unless(persistent, "ABSTRACT_INTERPRETATION")
          [] f = "branch"          -> unless(persistent /\ p.test # "none",
                                             "ABSTRACT_INTERPRETATION")
          [] f = "multiReturn"     -> unless(p.returns >= 0, "STATIC_AST")
          [] f = "tableIdentity"   -> unless(identity, "POINTS_TO")
          [] f = "evaluationOrder" -> unless(ordered, "STATIC_AST")],
      expansion |-> p.returns >= 0, captures |-> p.captures,
      invocations |-> p.invocations, mutable |-> p.written,
      emitted |-> FALSE,
      safe |-> /\ eligible /\ ~escaping /\ ~p.tampered /\ ~p.dynamic
               /\ persistent /\ identity /\ p.returns >= 0 /\ ordered]

\* The graph built from the lifted VM: two source closures, a factory and what
\* it returns, which is called twice; the values it binds and the arguments
\* are written in the analyzer, only how many values are returned is lifted.
Graph(v) ==
  [bound |-> "hi", packed |-> <<"one", "two">>, args |-> <<"x", "y">>, arity |-> v.widest]

\* Only the counts of lifted operations can make it incomplete.
GraphIsComplete(v) ==
  v.branches >= 1 /\ v.multiReturns >= 2 /\ v.packs >= 1

\* What the program emitted from a graph prints, call after call: the bound
\* value, the entry of the packed table that the counter selects, the argument,
\* and the counter for every further value.
Prints(g) ==
  [c \in DOMAIN g.args |->
     [i \in 1..g.arity |->
        CASE i = 1 -> g.bound [] i = 2 -> g.packed[IF c = 1 THEN 1 ELSE 2]
          [] i = 3 -> g.args[c] [] OTHER -> c]]

\* The report read from the lifted VM: the counts of lifted operations decide.
FromLifting(v) ==
  LET recovered == v.packs > 0 /\ v.closures > 0 /\ v.mutations > 0 /\ v.widest > 0
  IN [claims |-> {"evaluationOrder"}
        \cup (IF v.packs > 0 THEN {"vararg", "tableIdentity"} ELSE {})
        \cup (IF v.closures > 0 THEN {"closure"} ELSE {})
        \cup (IF v.mutations > 0 THEN {"state"} ELSE {})
        \cup (IF v.branches > 0 THEN {"branch"} ELSE {})
        \cup (IF v.widest > 0 THEN {"multiReturn"} ELSE {}),
      source |-> [f \in Features |-> "STATIC_VM_LIFTING"],
      expansion |-> v.widest > 0, captures |-> TRUE,
      invocations |-> 2, mutable |-> v.mutations,
      emitted |-> recovered /\ GraphIsComplete(v) /\ v.detached,
      safe    |-> recovered /\ GraphIsComplete(v) /\ v.detached]

\* A tree without a factory is lifted when it has a dispatcher, and has no
\* report when nothing like a factory is lifted either.
MixedReport(e, eligible) ==
  CASE e.mixed.kind = "plain"   -> None
    [] e.mixed.kind = "factory" ->
         FromTree(e.mixed.profile, eligible, "escaping" \in e.walk)
    [] e.mixed.kind = "lifted"  ->
         LET v == e.mixed.profile
         IN IF v.closures > 0 /\ (v.mutations > 0 \/ v.packs > 0)
            THEN FromLifting(v) ELSE None

-----------------------------------------------------------------------------
(* The validators.                                                         *)

\* What the provenance check holds against a mixed report.
Violations(m) ==
  IF m = None THEN {} ELSE
       {<<"MISSING_PROVENANCE", f>> : f \in {g \in m.claims : m.source[g] = "none"}}
  \cup {<<"PROHIBITED_SOURCE", f>> :
          f \in {g \in Features : m.source[g] \in ProhibitedSources}}
  \cup {<<"INVALID_SOURCE", f>> :
          f \in {g \in Features :
                   m.source[g] \notin StaticSources \cup ProhibitedSources \cup {"none"}}}
  \cup (IF ~m.safe THEN {} ELSE
           {<<"UNPROVEN_PREREQUISITE", f>> :
              f \in {"vararg", "closure", "tableIdentity", "state",
                     "evaluationOrder"} \ m.claims}
      \cup (IF m.expansion THEN {} ELSE {<<"UNPROVEN_PREREQUISITE", "expansion">>})
      \cup (IF m.captures THEN {} ELSE {<<"EMPTY_CAPTURED_BINDINGS", "closure">>})
      \cup (IF "multiReturn" \in m.claims THEN {}
            ELSE {<<"INVALID_MULTIRETURN_COUNT", "multiReturn">>}))

ProofIntegrity(m) == Violations(m) = {}

MixedContract ==
  {"VARARG_TABLE_EXPANSION", "CLOSURE_IDENTITY", "ENVIRONMENT_IDENTITY",
   "CAPTURED_TABLE_IDENTITY", "PERSISTENT_UPVALUE_STATE", "STATEFUL_BRANCH",
   "MULTIRETURN", "EVALUATION_ORDER", "WHOLE_PROGRAM_REPLACEMENT"}

MixedProven(m) ==
  IF m = None THEN {} ELSE
    {p \in MixedContract :
       CASE p = "VARARG_TABLE_EXPANSION"   -> "vararg" \in m.claims
         [] p = "CLOSURE_IDENTITY"         -> "closure" \in m.claims
         [] p = "ENVIRONMENT_IDENTITY"     -> TRUE
         [] p = "CAPTURED_TABLE_IDENTITY"  -> "tableIdentity" \in m.claims
         [] p = "PERSISTENT_UPVALUE_STATE" -> "state" \in m.claims
         [] p = "STATEFUL_BRANCH"          -> "branch" \in m.claims
                                              /\ m.source["branch"] # "none"
         [] p = "MULTIRETURN"              -> m.expansion /\ "multiReturn" \in m.claims
         [] p = "EVALUATION_ORDER"         -> "evaluationOrder" \in m.claims
         [] p = "WHOLE_PROGRAM_REPLACEMENT" -> m.safe}

\* A program of many features has the contract of nine proofs; another has one
\* per feature seen, each <<proof, required, proven>>.  The table proof is
\* always required, so the baseline for a program of no feature never is.
CrossFeatureUnlessTraced(e, m) ==   \* defect: a long trace is proof enough
  /\ e.shape # "six"
  /\ m # None /\ m.invocations >= 2 /\ (m.mutable > 0 \/ "vararg" \in m.claims \/ ~m.safe)

CrossFeature(e, m) ==
  \/ e.shape = "six"
  \/ m # None /\ m.invocations >= 2 /\ (m.mutable > 0 \/ "vararg" \in m.claims \/ ~m.safe)

SingleContracts(e, eligible, closed) ==
  LET vararg  == e.vararg # "none" \/ (eligible /\ e.shape \in {"one", "two", "wide"})
      multi   == e.multi \/ (eligible /\ e.shape \in {"two", "wide"})
      capture == e.capture # "none" \/ (eligible /\ e.shape = "one")
  IN {<<"VARARG_BINDING_FLOW", vararg, (eligible /\ e.vararg # "dynamic") \/ closed>>,
      <<"MULTIRETURN_EXPANSION", multi, eligible \/ closed>>,
      <<"LEXICAL_UPVALUE_CAPTURE", capture, (eligible /\ e.capture # "dynamic") \/ closed>>,
      <<"TABLE_FIELD_LOOKUP", TRUE, eligible \/ closed>>,
      <<"NESTED_FUNCTION_CALL_CHAIN", e.nested, eligible \/ closed>>,
      <<"RETURN_PROPAGATION", e.nested, eligible \/ closed>>,
      <<"CONSTANT_BRANCH_ELIMINATION", eligible, TRUE>>,
      <<"FUNCTION_RETURN_SEMANTICS", eligible, TRUE>>,
      <<"WHOLE_PROGRAM_REPLACEMENT", closed, TRUE>>}

RequiredProofs(e, m, eligible, closed) ==
  LET single   == {c \in SingleContracts(e, eligible, closed) : c[2]}
      cross    == CrossFeature(e, m)
      required == IF cross THEN MixedContract ELSE {c[1] : c \in single}
      proven   == IF cross THEN MixedProven(m) ELSE {c[1] : c \in {d \in single : d[3]}}
      missing  == required \ proven
  IN [required |-> required, missing |-> missing,
      pass |-> missing = {} /\ ~(m # None /\ ~m.safe /\ cross)]

-----------------------------------------------------------------------------
(* The gate and the completeness report.                                   *)

\* The five gates, all of which must pass.
FinalEligible(g) ==
  /\ g.closed /\ g.complete
  /\ g.proofs /\ g.integrity /\ g.unresolved = {}
  /\ g.replacement
  /\ g.detached /\ g.states = 0 /\ g.encoded = 0
  /\ ~g.veto

\* The completeness report of a program with its evidence and its trace.  The
\* list of blocks that were not observed, which would also make it incomplete,
\* is read from a field that computeReachability does not return: it is empty.
Verify(e, traced) ==
  LET closed    == e.walk = {} /\ e.env = {} /\ e.preEnv = {}
      covered   == closed \/ ~e.branches
      eligible  == closed /\ covered /\ traced
      mixed     == MixedReport(e, eligible)
      integrity == ProofIntegrity(mixed)
      proofs    == RequiredProofs(e, mixed, eligible, closed)
      replace   == IF mixed = None THEN eligible
                   ELSE mixed.safe /\ integrity /\ proofs.pass
      gate      == [closed |-> closed, complete |-> covered,
                    proofs |-> proofs.pass, integrity |-> integrity,
                    unresolved |-> proofs.missing, replacement |-> replace,
                    detached |-> TRUE, states |-> 0, encoded |-> 0,
                    veto |-> ~traced]
  IN [gate |-> gate, eligible |-> FinalEligible(gate), traceable |-> traced,
      emitted |-> mixed # None /\ mixed.emitted, covered |-> e.covered]
=============================================================================
