--------------------------- MODULE Recovery_proofs ---------------------------
(***************************************************************************)
(* Proofs about Recovery and the Admission it asks, for any evidence the   *)
(* analyzers may give, any measure of the preflight and any number of      *)
(* dispatcher states.                                                      *)
(***************************************************************************)
EXTENDS Recovery, TLAPS

-----------------------------------------------------------------------------
(***************************************************************************)
(* The stage a recovery is run to is the one its entry point admits, or,   *)
(* after the stack overflowed, a lower one.                                *)
(***************************************************************************)
TargetIsDue ==
  /\ request \in Requests
  /\ request.entry = "service" => target \in {"L4", "L5", "L5-W"}
  /\ request.entry \in {"worker", "api"} => target = Admitted(request)
  /\ request.entry = "hosted" =>
       /\ request.stage \in StageNames /\ target \in StageNames
       /\ Index(target) <= Index(recommendStage(request.profile))

\* The levels a program may have when a stage begins.
Before(stage) ==
  CASE stage = "L0" -> {"L0"}
    [] stage = "L1" -> {"L0"}
    [] stage = "L2" -> {"L0", "L1"}
    [] stage = "L3" -> {"L0", "L1", "L2"}
    [] stage = "L4" -> {"L0", "L1", "L3"}
    [] stage = "L5" -> {"L0", "L1", "L3", "L3.5", "L4"}

Metrics ==
  [states : Nat, before : Nat, cfg : BOOLEAN, split : Nat \cup {None}, eligible : BOOLEAN]

(***************************************************************************)
(* What the report is made of says how much of the dispatcher is left in   *)
(* the code, unless all of its states were extracted.                      *)
(***************************************************************************)
CountsAreTrue(c, m) ==
  /\ m.states = c.states \/ m.split = 0
  /\ m.split = None \/ m.split = c.states \/ m.split = 0

(***************************************************************************)
(* At a stage: it is not above the one asked for, the code is the          *)
(* program's own, and its level is one the stages before could give.       *)
(***************************************************************************)
StageIsDue ==
  at \in StageNames =>
    /\ TargetIsDue
    /\ target \in StageNames => Index(at) <= Index(target)
    /\ level \in Before(at)
    /\ code.kind = "static"
    /\ at # "L0" => program.vm \in Nat
    /\ at \notin {"L0", "L5"} => code = StaticCode(program.vm)
    /\ at # "L5" => metrics = NoMetrics
    /\ at = "L5" => /\ metrics \in Metrics /\ CountsAreTrue(code, metrics)
                    /\ level = "L4" => metrics.split < program.vm

RecInv ==
  /\ at \in {"request", "done"} \cup StageNames
  /\ at = "request" => level = "L0" /\ code = StaticCode(0) /\ metrics = NoMetrics
  /\ StageIsDue
  /\ EverythingIsProven
  /\ AnswerIsTrue


-----------------------------------------------------------------------------
(***************************************************************************)
(* The stages and the levels in their order.                               *)
(***************************************************************************)
LEMMA StageIndex ==
  /\ Index("L0") = 1 /\ Index("L1") = 2 /\ Index("L2") = 3
  /\ Index("L3") = 4 /\ Index("L4") = 5 /\ Index("L5") = 6
<1>1. Len(STAGES) = 6 BY DEF STAGES
<1>2. \A i \in 1..6 : \A k \in 1..6 : STAGES[k] = STAGES[i] => k = i
  BY DEF STAGES
<1>3. \A i \in 1..6 : Index(STAGES[i]) = i
  <2> SUFFICES ASSUME NEW i \in 1..6 PROVE Index(STAGES[i]) = i OBVIOUS
  <2> QED BY <1>1, <1>2 DEF Index
<1>4. /\ STAGES[1] = "L0" /\ STAGES[2] = "L1" /\ STAGES[3] = "L2"
      /\ STAGES[4] = "L3" /\ STAGES[5] = "L4" /\ STAGES[6] = "L5"
  BY DEF STAGES
<1> QED BY <1>3, <1>4

(***************************************************************************)
(* Every stage is found at its index.                                      *)
(***************************************************************************)
LEMMA StageOf ==
  ASSUME NEW s \in StageNames
  PROVE  Index(s) \in 1..6 /\ STAGES[Index(s)] = s
BY StageIndex DEF StageNames, STAGES

(***************************************************************************)
(* The order of the levels that are no higher than L4.                     *)
(***************************************************************************)
LEMMA LevelRank ==
  /\ Rank("L0") = 1 /\ Rank("L1") = 2 /\ Rank("L2") = 3 /\ Rank("L3") = 4
  /\ Rank("L3.5") = 5 /\ Rank("L4") = 6
<1>1. Len(Levels) = 10 BY DEF Levels
<1>2. \A i \in 1..10 : \A k \in 1..10 : Levels[k] = Levels[i] => k = i
  BY DEF Levels
<1>3. \A i \in 1..10 : Rank(Levels[i]) = i
  <2> SUFFICES ASSUME NEW i \in 1..10 PROVE Rank(Levels[i]) = i OBVIOUS
  <2> QED BY <1>1, <1>2 DEF Rank
<1>4. /\ Levels[1] = "L0" /\ Levels[2] = "L1" /\ Levels[3] = "L2" /\ Levels[4] = "L3"
      /\ Levels[5] = "L3.5" /\ Levels[6] = "L4"
  BY DEF Levels
<1> QED BY <1>3, <1>4

(***************************************************************************)
(* The preflight recommends one of the stages L2 to L5.                    *)
(***************************************************************************)
LEMMA Recommended ==
  ASSUME NEW p
  PROVE  recommendStage(p) \in StageNames
BY DEF recommendStage, StageNames

(***************************************************************************)
(* capStage never goes above what is recommended, and leaves what is no    *)
(* stage as it is.                                                         *)
(***************************************************************************)
LEMMA Capped ==
  ASSUME NEW s, NEW p
  PROVE  LET capped == capStage(s, recommendStage(p)) IN
         IF s \in StageNames
         THEN capped \in StageNames /\ Index(capped) <= Index(recommendStage(p))
         ELSE capped = s
<1>1. PICK q \in StageNames : q = recommendStage(p) BY Recommended
<1>2. CASE s \notin StageNames BY <1>2 DEF capStage
<1>3. CASE s \in StageNames
  <2>1. Index(s) \in Int /\ Index(q) \in Int BY <1>3, StageOf
  <2> QED BY <1>1, <1>3, <2>1 DEF capStage
<1> QED BY <1>2, <1>3


-----------------------------------------------------------------------------
(***************************************************************************)
(* A closed program is eligible when its mixed report, if it has one, is   *)
(* safe and what is required of it is proven.                              *)
(***************************************************************************)
IsClosed(e) == e.walk = {} /\ e.env = {} /\ e.preEnv = {}

(***************************************************************************)
(* The verdict of the verifier on a traced program, gate by gate: it is    *)
(* closed, and what it claims and what is required of it are proven.       *)
(***************************************************************************)
LEMMA EligibleMeans ==
  ASSUME NEW e
  PROVE  Verify(e, TRUE).eligible <=>
           LET mixed  == MixedReport(e, TRUE)
               proofs == RequiredProofs(e, mixed, TRUE, TRUE)
           IN /\ IsClosed(e) /\ ProofIntegrity(mixed) /\ proofs.pass /\ proofs.missing = {}
              /\ mixed # None => mixed.safe
<1>1. PICK c : c = (e.walk = {} /\ e.env = {} /\ e.preEnv = {}) OBVIOUS
<1>2. PICK o : o = (c \/ ~e.branches) OBVIOUS
<1>3. PICK l : l = (c /\ o /\ TRUE) OBVIOUS
<1>4. PICK m : m = MixedReport(e, l) OBVIOUS
<1>5. PICK p : p = RequiredProofs(e, m, l, c) OBVIOUS
<1>6. PICK i : i = ProofIntegrity(m) OBVIOUS
<1>7. PICK r : r = IF m = None THEN l ELSE m.safe /\ i /\ p.pass OBVIOUS
<1>8. Verify(e, TRUE).eligible =
        FinalEligible([closed |-> c, complete |-> o, proofs |-> p.pass, integrity |-> i,
                       unresolved |-> p.missing, replacement |-> r, detached |-> TRUE,
                       states |-> 0, encoded |-> 0, veto |-> ~TRUE])
  BY <1>1, <1>2, <1>3, <1>4, <1>5, <1>6, <1>7 DEF Verify
<1>9. Verify(e, TRUE).eligible = (c /\ o /\ p.pass /\ i /\ p.missing = {} /\ r)
  BY <1>8 DEF FinalEligible
<1>10. CASE IsClosed(e)
  <2>1. c = TRUE BY <1>1, <1>10 DEF IsClosed
  <2>2. o = TRUE BY <1>2, <1>10, <2>1
  <2>3. l = TRUE BY <1>3, <2>1, <2>2
  <2>4. m = MixedReport(e, TRUE) /\ p = RequiredProofs(e, m, TRUE, TRUE)
    BY <1>4, <1>5, <2>1, <2>3
  <2> QED BY <1>6, <1>7, <1>9, <1>10, <2>1, <2>2, <2>3, <2>4
<1>11. CASE ~IsClosed(e)
  BY <1>1, <1>2, <1>9, <1>11 DEF IsClosed
<1> QED BY <1>10, <1>11

(***************************************************************************)
(* What the gates have seen of a program that may be replaced.             *)
(***************************************************************************)
Proven(e) ==
  /\ IsClosed(e)
  /\ e.mixed.kind = "factory" =>
       LET p == e.mixed.profile
       IN p.table /\ p.counter /\ p.invocations > 0 /\ ~p.tampered /\ ~p.dynamic

(***************************************************************************)
(* An eligible program is proven: of a closure factory the report is safe, *)
(* which FromTree grants only to a factory that was understood.            *)
(***************************************************************************)
LEMMA EligibleIsProven ==
  ASSUME Assumptions, NEW e \in Evidence, Verify(e, TRUE).eligible
  PROVE  Proven(e)
<1>1. IsClosed(e) BY EligibleMeans
<1>2. PICK m : m = MixedReport(e, TRUE) OBVIOUS
<1>3. m # None => m.safe BY <1>2, EligibleMeans
<1>4. ASSUME e.mixed.kind = "factory"
      PROVE  LET p == e.mixed.profile
             IN p.table /\ p.counter /\ p.invocations > 0 /\ ~p.tampered /\ ~p.dynamic
  <2>1. m # None BY <1>2, <1>4 DEF Assumptions
  <2>2. m = FromTree(e.mixed.profile, TRUE, "escaping" \in e.walk)
    BY <1>2, <1>4 DEF MixedReport
  <2>3. FromTree(e.mixed.profile, TRUE, "escaping" \in e.walk).safe BY <1>3, <2>1, <2>2
  <2> QED BY <2>3 DEF FromTree
<1> QED BY <1>1, <1>4 DEF Proven

(***************************************************************************)
(* Of a closed program nothing is required that is not proven, unless it   *)
(* is one of many features.                                                *)
(***************************************************************************)
LEMMA SinglesAreProven ==
  ASSUME NEW e, NEW m, ~CrossFeature(e, m)
  PROVE  /\ RequiredProofs(e, m, TRUE, TRUE).missing = {}
         /\ RequiredProofs(e, m, TRUE, TRUE).pass
<1>1. PICK all : all = SingleContracts(e, TRUE, TRUE) OBVIOUS
<1>2. \A c \in all : c[3]
  <2>1. PICK v : v = (e.vararg # "none" \/ (TRUE /\ e.shape \in {"one", "two", "wide"}))
    OBVIOUS
  <2>2. PICK u : u = (e.multi \/ (TRUE /\ e.shape \in {"two", "wide"})) OBVIOUS
  <2>3. PICK k : k = (e.capture # "none" \/ (TRUE /\ e.shape = "one")) OBVIOUS
  <2>4. /\ ((TRUE /\ e.vararg # "dynamic") \/ TRUE) = TRUE
        /\ ((TRUE /\ e.capture # "dynamic") \/ TRUE) = TRUE
        /\ (TRUE \/ TRUE) = TRUE
    OBVIOUS
  <2>5. all = {<<"VARARG_BINDING_FLOW", v, TRUE>>, <<"MULTIRETURN_EXPANSION", u, TRUE>>,
               <<"LEXICAL_UPVALUE_CAPTURE", k, TRUE>>, <<"TABLE_FIELD_LOOKUP", TRUE, TRUE>>,
               <<"NESTED_FUNCTION_CALL_CHAIN", e.nested, TRUE>>,
               <<"RETURN_PROPAGATION", e.nested, TRUE>>,
               <<"CONSTANT_BRANCH_ELIMINATION", TRUE, TRUE>>,
               <<"FUNCTION_RETURN_SEMANTICS", TRUE, TRUE>>,
               <<"WHOLE_PROGRAM_REPLACEMENT", TRUE, TRUE>>}
    BY <1>1, <2>1, <2>2, <2>3, <2>4, Zenon DEF SingleContracts
  <2>6. \A c \in all : \E a, b : c = <<a, b, TRUE>> BY <2>5, Zenon
  <2>7. \A a, b : <<a, b, TRUE>>[3] = TRUE OBVIOUS
  <2> QED BY <2>6, <2>7
<1>3. PICK single : single = {c \in all : c[2]} OBVIOUS
<1>4. {d \in single : d[3]} = single BY <1>2, <1>3
<1>5. PICK required : required = {c[1] : c \in single} OBVIOUS
<1>6. RequiredProofs(e, m, TRUE, TRUE).missing = required \ required
  BY <1>1, <1>3, <1>4, <1>5 DEF RequiredProofs
<1>7. RequiredProofs(e, m, TRUE, TRUE).pass =
        (RequiredProofs(e, m, TRUE, TRUE).missing = {} /\ ~(m # None /\ ~m.safe /\ FALSE))
  BY <1>1, <1>3, <1>4, <1>5 DEF RequiredProofs
<1>8. required \ required = {} OBVIOUS
<1> QED BY <1>6, <1>7, <1>8

(***************************************************************************)
(* With a trace that says nothing in particular fewer programs are of many *)
(* features, and those that are have the contract they had.                *)
(***************************************************************************)
LEMMA TraceDoesNotPromote ==
  ASSUME Assumptions, NEW e \in Evidence, Verify(e, TRUE).eligible
  PROVE  Verify([e EXCEPT !.shape = "other"], TRUE).eligible
<1>1. PICK q : q = [e EXCEPT !.shape = "other"] OBVIOUS
<1>2. e \in Findings BY DEF Assumptions
<1>3. /\ q.walk = e.walk /\ q.env = e.env /\ q.preEnv = e.preEnv
      /\ q.mixed = e.mixed /\ q.shape = "other"
  BY <1>1, <1>2 DEF Findings
<1>4. PICK m : m = MixedReport(e, TRUE) OBVIOUS
<1>5. m = MixedReport(q, TRUE) BY <1>3, <1>4 DEF MixedReport
<1>6. /\ IsClosed(q) /\ ProofIntegrity(m) /\ (m # None => m.safe)
  BY <1>3, <1>4, EligibleMeans DEF IsClosed
<1>7. /\ RequiredProofs(q, m, TRUE, TRUE).missing = {}
      /\ RequiredProofs(q, m, TRUE, TRUE).pass
  <2>1. CASE ~CrossFeature(q, m) BY <2>1, SinglesAreProven
  <2>2. CASE CrossFeature(q, m)
    <3>1. CrossFeature(e, m) BY <1>3, <2>2 DEF CrossFeature
    <3>2. RequiredProofs(q, m, TRUE, TRUE) = RequiredProofs(e, m, TRUE, TRUE)
      BY <2>2, <3>1 DEF RequiredProofs
    <3> QED BY <1>4, <3>2, EligibleMeans
  <2> QED BY <2>1, <2>2
<1> QED BY <1>1, <1>5, <1>6, <1>7, EligibleMeans

-----------------------------------------------------------------------------
(***************************************************************************)
(* A request comes from one of four entry points, and what is asked of it  *)
(* is what its kind of caller may ask.                                     *)
(***************************************************************************)
LEMMA Asked ==
  ASSUME NEW r \in Requests
  PROVE  /\ r.entry \in {"service", "worker", "api", "hosted"}
         /\ r.entry = "service" => r.stage \in {"auto", "L4", "L5", "L5-W", "L5-T"}
         /\ r.entry = "api" => r.stage \in StageNames
BY DEF Requests

(***************************************************************************)
(* Only a worker that was asked for a trace runs the pipeline to L5-T.     *)
(***************************************************************************)
LEMMA TraceIsAskedFor ==
  ASSUME TargetIsDue, target = "L5-T"
  PROVE  request.stage = "L5-T" /\ request.entry = "worker"
<1>1. "L5-T" \notin StageNames BY DEF StageNames
<1>2. request.entry \in {"worker", "api"}
  BY <1>1, Asked DEF TargetIsDue
<1>3. capStage(Requested(request), recommendStage(request.profile)) = "L5-T"
  BY <1>2 DEF TargetIsDue, Admitted
<1>4. Requested(request) = "L5-T" BY <1>1, <1>3, Capped
<1>5. GatewayStage(request) = "L5-T" BY <1>4 DEF Requested
<1> QED BY <1>2, <1>5 DEF GatewayStage

(***************************************************************************)
(* No stage is run that is above the one recommended.                      *)
(***************************************************************************)
LEMMA NotAboveRecommended ==
  ASSUME TargetIsDue, target \in StageNames, request.entry # "service"
  PROVE  Index(target) <= Index(recommendStage(request.profile))
<1>1. CASE request.entry = "hosted" BY <1>1 DEF TargetIsDue
<1>2. CASE request.entry \in {"worker", "api"}
  <2>1. target = capStage(Requested(request), recommendStage(request.profile))
    BY <1>2 DEF TargetIsDue, Admitted
  <2> QED BY <2>1, Capped
<1> QED BY <1>1, <1>2, Asked DEF TargetIsDue

(***************************************************************************)
(* A recovery that ends without an answer has nothing to account for.      *)
(***************************************************************************)
LEMMA NoAnswerNoClaim ==
  ASSUME at' = "done", answer'.ok = FALSE, EverythingIsProven'
  PROVE  RecInv'
BY DEF RecInv, StageIsDue, AnswerIsTrue, LevelIsEarned, ReportIsTrue, StageIsExplained,
       StageNames

(***************************************************************************)
(* finish, for a level, a code and metrics that agree with one another.    *)
(***************************************************************************)
LEMMA FinishIsTrue ==
  ASSUME TargetIsDue, UNCHANGED <<request, target>>, NEW l, NEW c, NEW m, Finish(l, c, m),
         c.kind = "synthesized" <=> l \in {"L5-W", "L5-T"},
         l = "L5-T" => target = "L5-T",
         l \in {"L4", "L4.5"} => m.split < program'.vm,
         target \notin {"L0", "L1", "L2", "L3"} => CountsAreTrue(c, m),
         target \in StageNames \ {"L5"} => Rank(l) <= Rank(target),
         l = "L5-W" => c.states = 0 /\ ~c.refers /\ Proven(evidence')
  PROVE  RecInv'
<1>1. /\ at' = "done" /\ level' = l /\ code' = c /\ metrics' = m
      /\ request' = request /\ target' = target
  BY DEF Finish
<1>2. EverythingIsProven' BY <1>1 DEF EverythingIsProven, Proven, IsClosed
<1>3. PICK a : a = answer' OBVIOUS
<1>4. CASE a.ok = FALSE BY <1>1, <1>2, <1>3, <1>4, NoAnswerNoClaim
<1>5. CASE a.ok # FALSE
  <2>1. \A why, exit : Failed(why, exit).ok = FALSE BY DEF Failed
  <2>2. request.entry \in {"service", "worker", "api", "hosted"} BY Asked DEF TargetIsDue
  <2>3. /\ a.level = l /\ a.executed = target
        /\ ~a.runtime => l = "L5-W"
        /\ CountsAreTrue(c, m) /\ (l = "L5-W" => c.states = 0) =>
             a.after = c.states \/ m.split = 0
        /\ request.entry # "service" => (a.executed # a.requested => a.warned)
    <3>1. CASE request.entry = "service"
      <4>1. a = Versioned(l, m) BY <1>3, <3>1 DEF Finish
      <4>2. /\ a.level = l /\ a.executed = target /\ a.runtime = (l # "L5-W")
            /\ a.after = IF l = "L5-W" THEN 0
                         ELSE IF m.split # None THEN m.split ELSE m.states
        BY <4>1 DEF Versioned
      <4> QED BY <3>1, <4>2 DEF CountsAreTrue
    <3>2. CASE request.entry \in {"worker", "api"}
      <4>1. a \in {Completed(l, m), Failed("OUTPUT_SIZE_EXCEEDED", None)}
        BY <1>3, <3>2 DEF Finish
      <4>2. a = Completed(l, m) BY <1>5, <2>1, <4>1
      <4>3. /\ a.level = l /\ a.executed = target /\ a.runtime = TRUE /\ a.after = m.states
            /\ a.requested = Requested(request) /\ a.warned = (target # Requested(request))
        BY <4>2 DEF Completed
      <4> QED BY <4>3 DEF CountsAreTrue
    <3>3. CASE request.entry = "hosted"
      <4>1. a \in {Adapted(l, m), Failed("OUTPUT_TOO_LARGE", 413)}
        BY <1>3, <3>3 DEF Finish
      <4>2. PICK x, y : x = Adapted(l, m) /\ y = Failed("OUTPUT_TOO_LARGE", 413) OBVIOUS
      <4>3. y.ok = FALSE BY <2>1, <4>2
      <4>4. a = Adapted(l, m) BY <1>5, <4>1, <4>2, <4>3
      <4>5. /\ a.level = l /\ a.executed = target /\ a.runtime = TRUE /\ a.after = m.states
            /\ a.requested = request.stage
            /\ a.warned = (Admitted(request) # request.stage \/ target # Admitted(request))
        BY <4>4 DEF Adapted
      <4>6. a.executed # a.requested => a.warned BY <4>5
      <4> QED BY <4>5, <4>6 DEF CountsAreTrue
    <3> QED BY <2>2, <3>1, <3>2, <3>3
  <2>4. LevelIsEarned'
    BY <1>1, TraceIsAskedFor DEF LevelIsEarned
  <2>5. ReportIsTrue' BY <1>1, <1>3, <2>3 DEF ReportIsTrue
  <2>6. StageIsExplained'
    BY <1>1, <1>3, <2>3, NotAboveRecommended DEF StageIsExplained
  <2> QED BY <1>1, <1>2, <2>4, <2>5, <2>6 DEF RecInv, StageIsDue, AnswerIsTrue, StageNames
<1> QED BY <1>4, <1>5

-----------------------------------------------------------------------------
(***************************************************************************)
(* Of at most eight refusals the first one that holds is given, and none   *)
(* when none of them holds.                                                *)
(***************************************************************************)
LEMMA FirstRefusal ==
  ASSUME NEW n \in 1..8, NEW refusals, DOMAIN refusals = 1..n
  PROVE  \/ FirstOf(refusals) = None /\ \A i \in 1..n : ~refusals[i][1]
         \/ \E i \in 1..n : refusals[i][1] /\ FirstOf(refusals) = refusals[i][2]
<1>1. PICK holding : holding = {i \in DOMAIN refusals : refusals[i][1]} OBVIOUS
<1>2. FirstOf(refusals) =
        IF holding = {} THEN None
        ELSE refusals[CHOOSE i \in holding : \A k \in holding : i <= k][2]
  BY <1>1 DEF FirstOf
<1>3. CASE holding = {} BY <1>1, <1>2, <1>3
<1>4. CASE holding # {}
  <2>1. holding \subseteq 1..8 BY <1>1
  <2>2. \E i \in holding : \A k \in holding : i <= k
    <3> SUFFICES ASSUME \A i \in holding : \E k \in holding : ~(i <= k) PROVE FALSE OBVIOUS
    <3>1. 1 \notin holding BY <2>1
    <3>2. 2 \notin holding BY <2>1, <3>1
    <3>3. 3 \notin holding BY <2>1, <3>1, <3>2
    <3>4. 4 \notin holding BY <2>1, <3>1, <3>2, <3>3
    <3>5. 5 \notin holding BY <2>1, <3>1, <3>2, <3>3, <3>4
    <3>6. 6 \notin holding BY <2>1, <3>1, <3>2, <3>3, <3>4, <3>5
    <3>7. 7 \notin holding BY <2>1, <3>1, <3>2, <3>3, <3>4, <3>5, <3>6
    <3>8. 8 \notin holding BY <2>1, <3>1, <3>2, <3>3, <3>4, <3>5, <3>6, <3>7
    <3>9. PICK h \in holding : h \in 1..8 BY <1>4, <2>1
    <3> QED BY <3>1, <3>2, <3>3, <3>4, <3>5, <3>6, <3>7, <3>8, <3>9
  <2>3. PICK i : i = CHOOSE j \in holding : \A k \in holding : j <= k OBVIOUS
  <2>4. i \in holding BY <2>2, <2>3
  <2>5. FirstOf(refusals) = refusals[i][2] BY <1>2, <1>4, <2>3
  <2> QED BY <1>1, <2>4, <2>5
<1> QED BY <1>3, <1>4

(***************************************************************************)
(* What a list of refusals gives is none or a failure, and it is none only *)
(* when no condition of the list holds.                                    *)
(***************************************************************************)
LEMMA Refused ==
  ASSUME Assumptions, NEW n \in 1..8, NEW refusals, DOMAIN refusals = 1..n,
         \A i \in 1..n : refusals[i][2] \in Failure
  PROVE  /\ FirstOf(refusals) # None => FirstOf(refusals).ok = FALSE
         /\ FirstOf(refusals) = None => \A i \in 1..n : ~refusals[i][1]
<1>1. \A f \in Failure : f # None /\ f.ok = FALSE BY DEF Assumptions, Failure
<1> QED BY <1>1, FirstRefusal

(***************************************************************************)
(* What Failed makes is a failure.                                         *)
(***************************************************************************)
LEMMA IsFailure ==
  ASSUME NEW why \in Reasons, NEW exit \in Nat \cup {None}
  PROVE  Failed(why, exit) \in Failure
BY DEF Failed, Failure

(***************************************************************************)
(* A request that is not refused: the serverless endpoint has looked at    *)
(* the stage it asks for.                                                  *)
(***************************************************************************)
LEMMA RefusalMeans ==
  ASSUME Assumptions, NEW r \in Requests
  PROVE  /\ Refusal(r) # None => Refusal(r).ok = FALSE
         /\ Refusal(r) = None /\ r.entry = "hosted" => r.stage \in StageNames
<1>1. CASE r.entry = "service"
  <2> DEFINE s == << <<r.path = "missing", Failed("FILE_NOT_FOUND", 2)>>,
             <<r.path = "inaccessible", Failed("FILE_ACCESS_ERROR", 2)>>,
             <<r.path = "directory", Failed("NOT_A_REGULAR_FILE", 2)>>,
             <<r.path # "none" /\ r.size = "over", Failed("INPUT_TOO_LARGE", 7)>>,
             <<r.path # "none" /\ ~r.readable, Failed("FILE_READ_ERROR", 2)>>,
             <<r.text = "none", Failed("MISSING_INPUT", 2)>>,
             <<r.text = "over", Failed("INPUT_TOO_LARGE", 7)>>,
             <<r.text = "binary", Failed("BINARY_OR_BYTECODE_INPUT", 4)>> >>
  <2>1. Refusal(r) = FirstOf(s) BY <1>1 DEF Refusal, ServiceRefusal
  <2>2. DOMAIN s = 1..8 OBVIOUS
  <2>3. /\ s[1][2] \in Failure /\ s[2][2] \in Failure /\ s[3][2] \in Failure
        /\ s[4][2] \in Failure /\ s[5][2] \in Failure /\ s[6][2] \in Failure
        /\ s[7][2] \in Failure /\ s[8][2] \in Failure
    <3>1. /\ s[1][2] = Failed("FILE_NOT_FOUND", 2)
          /\ s[2][2] = Failed("FILE_ACCESS_ERROR", 2)
          /\ s[3][2] = Failed("NOT_A_REGULAR_FILE", 2)
          /\ s[4][2] = Failed("INPUT_TOO_LARGE", 7)
          /\ s[5][2] = Failed("FILE_READ_ERROR", 2)
          /\ s[6][2] = Failed("MISSING_INPUT", 2)
          /\ s[7][2] = Failed("INPUT_TOO_LARGE", 7)
          /\ s[8][2] = Failed("BINARY_OR_BYTECODE_INPUT", 4)
      OBVIOUS
    <3>2. /\ Failed("FILE_NOT_FOUND", 2) \in Failure
          /\ Failed("FILE_ACCESS_ERROR", 2) \in Failure
          /\ Failed("NOT_A_REGULAR_FILE", 2) \in Failure
          /\ Failed("INPUT_TOO_LARGE", 7) \in Failure
          /\ Failed("FILE_READ_ERROR", 2) \in Failure
          /\ Failed("MISSING_INPUT", 2) \in Failure
          /\ Failed("INPUT_TOO_LARGE", 7) \in Failure
          /\ Failed("BINARY_OR_BYTECODE_INPUT", 4) \in Failure
      BY IsFailure DEF Reasons
    <3> QED BY <3>1, <3>2
  <2> HIDE DEF s
  <2>4. \A i \in 1..8 : s[i][2] \in Failure BY <2>3
  <2>5. 8 \in 1..8 OBVIOUS
  <2> QED BY <1>1, <2>1, <2>2, <2>4, <2>5, Refused
<1>2. CASE r.entry \in {"worker", "api"}
  <2> DEFINE s == << <<~r.sound, Failed("CORE_BASELINE_VIOLATION", None)>>,
             <<~r.valid, Failed("INVALID_REQUEST", None)>>,
             <<r.text = "absent", Failed("INPUT_NOT_FOUND", None)>>,
             <<r.text = "none", Failed("MISSING_SOURCE", None)>>,
             <<r.text = "over", Failed("INPUT_SIZE_EXCEEDED", None)>>,
             <<~r.matches, Failed("INPUT_SHA256_MISMATCH", None)>> >>
  <2>1. Refusal(r) = FirstOf(s) BY <1>2 DEF Refusal, WorkerRefusal
  <2>2. DOMAIN s = 1..6 OBVIOUS
  <2>3. /\ s[1][2] \in Failure /\ s[2][2] \in Failure /\ s[3][2] \in Failure
        /\ s[4][2] \in Failure /\ s[5][2] \in Failure /\ s[6][2] \in Failure
    <3>1. /\ s[1][2] = Failed("CORE_BASELINE_VIOLATION", None)
          /\ s[2][2] = Failed("INVALID_REQUEST", None)
          /\ s[3][2] = Failed("INPUT_NOT_FOUND", None)
          /\ s[4][2] = Failed("MISSING_SOURCE", None)
          /\ s[5][2] = Failed("INPUT_SIZE_EXCEEDED", None)
          /\ s[6][2] = Failed("INPUT_SHA256_MISMATCH", None)
      OBVIOUS
    <3>2. /\ Failed("CORE_BASELINE_VIOLATION", None) \in Failure
          /\ Failed("INVALID_REQUEST", None) \in Failure
          /\ Failed("INPUT_NOT_FOUND", None) \in Failure
          /\ Failed("MISSING_SOURCE", None) \in Failure
          /\ Failed("INPUT_SIZE_EXCEEDED", None) \in Failure
          /\ Failed("INPUT_SHA256_MISMATCH", None) \in Failure
      BY IsFailure DEF Reasons
    <3> QED BY <3>1, <3>2
  <2> HIDE DEF s
  <2>4. \A i \in 1..6 : s[i][2] \in Failure BY <2>3
  <2>5. 6 \in 1..8 OBVIOUS
  <2> QED BY <1>2, <2>1, <2>2, <2>4, <2>5, Refused
<1>3. CASE r.entry = "hosted"
  <2> DEFINE s == << <<~r.post, Failed("METHOD_NOT_ALLOWED", 405)>>,
             <<~r.authorized, Failed("UNAUTHORIZED", 401)>>,
             <<r.text = "none", Failed("MISSING_SOURCE", 400)>>,
             <<r.text = "over", Failed("SOURCE_TOO_LARGE", 413)>>,
             <<r.stage \notin StageNames, Failed("INVALID_STAGE", 400)>> >>
  <2>1. Refusal(r) = FirstOf(s) BY <1>3 DEF Refusal, HostedRefusal
  <2>2. DOMAIN s = 1..5 OBVIOUS
  <2>3. /\ s[1][2] \in Failure /\ s[2][2] \in Failure /\ s[3][2] \in Failure
        /\ s[4][2] \in Failure /\ s[5][2] \in Failure
    <3>1. /\ s[1][2] = Failed("METHOD_NOT_ALLOWED", 405)
          /\ s[2][2] = Failed("UNAUTHORIZED", 401)
          /\ s[3][2] = Failed("MISSING_SOURCE", 400)
          /\ s[4][2] = Failed("SOURCE_TOO_LARGE", 413)
          /\ s[5][2] = Failed("INVALID_STAGE", 400)
      OBVIOUS
    <3>2. /\ Failed("METHOD_NOT_ALLOWED", 405) \in Failure
          /\ Failed("UNAUTHORIZED", 401) \in Failure
          /\ Failed("MISSING_SOURCE", 400) \in Failure
          /\ Failed("SOURCE_TOO_LARGE", 413) \in Failure
          /\ Failed("INVALID_STAGE", 400) \in Failure
      BY IsFailure DEF Reasons
    <3> QED BY <3>1, <3>2
  <2>4. ~s[5][1] => r.stage \in StageNames OBVIOUS
  <2> HIDE DEF s
  <2>5. \A i \in 1..5 : s[i][2] \in Failure BY <2>3
  <2>6. 5 \in 1..8 OBVIOUS
  <2>7. /\ FirstOf(s) # None => FirstOf(s).ok = FALSE
        /\ FirstOf(s) = None => \A i \in 1..5 : ~s[i][1]
    BY <2>2, <2>5, <2>6, Refused
  <2>8. 5 \in 1..5 OBVIOUS
  <2> QED BY <2>1, <2>4, <2>7, <2>8
<1> QED BY <1>1, <1>2, <1>3, Asked

-----------------------------------------------------------------------------
(***************************************************************************)
(* Before the last stage no level is one under which a program is          *)
(* replaced, and each is one the stage asked for allows.                   *)
(***************************************************************************)
LEMMA LevelsBefore ==
  ASSUME NEW stage \in StageNames, NEW l \in Before(stage)
  PROVE  l \in {"L0", "L1", "L2", "L3", "L3.5", "L4"}
BY DEF StageNames, Before

(***************************************************************************)
(* Nothing is replaced as a whole while a stage is still to come.          *)
(***************************************************************************)
LEMMA StillUnproven ==
  ASSUME RecInv, at \in StageNames
  PROVE  level # "L5-W"
<1>1. PICK s, l : s = at /\ l = level OBVIOUS
<1>2. l \in {"L0", "L1", "L2", "L3", "L3.5", "L4"}
  BY <1>1, LevelsBefore DEF RecInv, StageIsDue
<1> QED BY <1>1, <1>2

(***************************************************************************)
(* Initially nothing is claimed.                                           *)
(***************************************************************************)
LEMMA RecInit == Init => RecInv
BY DEF Init, RecInv, StageIsDue, StageNames, EverythingIsProven, AnswerIsTrue,
       LevelIsEarned, ReportIsTrue, StageIsExplained

(***************************************************************************)
(* A request is refused, or the pipeline begins with the stage that the    *)
(* entry point admits.                                                     *)
(***************************************************************************)
LEMMA ReceiveKeeps ==
  ASSUME Assumptions, RecInv, NEW r \in Requests, Receive(r)
  PROVE  RecInv'
<1>1. /\ at = "request" /\ request' = r /\ answer' = Refusal(r)
      /\ UNCHANGED <<program, level, code, metrics, evidence>>
  BY DEF Receive
<1>2. level = "L0" /\ code = StaticCode(0) /\ metrics = NoMetrics BY <1>1 DEF RecInv
<1>3. EverythingIsProven' BY <1>1, <1>2 DEF EverythingIsProven
<1>4. CASE Refusal(r) # None
  <2>1. at' = "done" BY <1>4 DEF Receive
  <2>2. answer'.ok = FALSE BY <1>1, <1>4, RefusalMeans
  <2> QED BY <1>3, <2>1, <2>2, NoAnswerNoClaim
<1>5. CASE Refusal(r) = None
  <2>1. at' = "L0" /\ target' = Admitted(r) BY <1>5 DEF Receive
  <2>2. PICK t : t = Admitted(r) OBVIOUS
  <2>3. r.entry = "service" => t \in {"L4", "L5", "L5-W"}
    BY <2>2 DEF Admitted, ServiceStage
  <2>4. r.entry = "hosted" => /\ r.stage \in StageNames /\ t \in StageNames
                             /\ Index(t) <= Index(recommendStage(r.profile))
    <3>1. SUFFICES ASSUME r.entry = "hosted"
                   PROVE  /\ r.stage \in StageNames /\ t \in StageNames
                          /\ Index(t) <= Index(recommendStage(r.profile))
      OBVIOUS
    <3>2. r.stage \in StageNames BY <1>5, <3>1, RefusalMeans
    <3>3. Requested(r) = r.stage
      BY <3>1, <3>2 DEF Requested, GatewayStage, StageNames
    <3>4. t = capStage(r.stage, recommendStage(r.profile))
      BY <2>2, <3>1, <3>3 DEF Admitted
    <3> QED BY <3>2, <3>4, Capped
  <2>5. TargetIsDue' BY <1>1, <2>1, <2>2, <2>3, <2>4 DEF TargetIsDue
  <2>6. t \in StageNames => Index("L0") <= Index(t) BY StageIndex, StageOf
  <2>7. StageIsDue'
    BY <1>1, <1>2, <2>1, <2>2, <2>5, <2>6 DEF StageIsDue, Before, StaticCode
  <2>8. AnswerIsTrue'
    BY <2>1 DEF AnswerIsTrue, LevelIsEarned, ReportIsTrue, StageIsExplained
  <2> QED BY <1>3, <2>1, <2>7, <2>8 DEF RecInv, StageNames
<1> QED BY <1>4, <1>5

(***************************************************************************)
(* An exception ends the recovery with no answer.                          *)
(***************************************************************************)
LEMMA ThrowKeeps ==
  ASSUME RecInv, NEW why, Throw(why)
  PROVE  RecInv'
<1>1. /\ at \in StageNames /\ at' = "done"
      /\ UNCHANGED <<request, target, program, level, code, metrics, evidence>>
  BY DEF Throw
<1>2. request.entry \in {"service", "worker", "api", "hosted"}
  BY <1>1, Asked DEF RecInv, StageIsDue, TargetIsDue
<1>3. \E w, exit : answer' = Failed(w, exit)
  <2>1. CASE request.entry = "service" BY <2>1 DEF Throw
  <2>2. CASE request.entry \in {"worker", "api"} BY <2>2 DEF Throw
  <2>3. CASE request.entry = "hosted" BY <2>3 DEF Throw
  <2> QED BY <1>2, <2>1, <2>2, <2>3
<1>4. answer'.ok = FALSE BY <1>3 DEF Failed
<1>5. EverythingIsProven' BY <1>1, StillUnproven DEF EverythingIsProven
<1> QED BY <1>1, <1>4, <1>5, NoAnswerNoClaim

(***************************************************************************)
(* The serverless endpoint starts over, one stage lower.                   *)
(***************************************************************************)
LEMMA FallBackKeeps ==
  ASSUME RecInv, FallBack
  PROVE  RecInv'
<1>1. at \in StageNames /\ request.entry = "hosted" /\ request' = request
  BY DEF FallBack
<1>2. TargetIsDue BY <1>1 DEF RecInv, StageIsDue
<1>3. CASE target = "L0"
  <2>1. /\ at' = "done" /\ answer' = Failed("STRUCTURE_TOO_DEEP", 500)
        /\ UNCHANGED <<target, program, level, code, metrics, evidence>>
    BY <1>3 DEF FallBack
  <2>2. answer'.ok = FALSE BY <2>1 DEF Failed
  <2>3. EverythingIsProven' BY <1>1, <2>1, StillUnproven DEF EverythingIsProven
  <2> QED BY <2>1, <2>2, <2>3, NoAnswerNoClaim
<1>4. CASE target # "L0"
  <2>1. /\ at' = "L0" /\ level' = "L0" /\ code' = StaticCode(0) /\ metrics' = NoMetrics
        /\ target' = STAGES[Index(target) - 1]
    BY <1>4 DEF FallBack
  <2>2. PICK t : t = target OBVIOUS
  <2>3. t \in StageNames \ {"L0"} BY <1>1, <1>2, <1>4, <2>2 DEF TargetIsDue
  <2>4. /\ STAGES[Index(t) - 1] \in StageNames
        /\ Index(STAGES[Index(t) - 1]) = Index(t) - 1
    <3>1. t \in {"L1", "L2", "L3", "L4", "L5"} BY <2>3 DEF StageNames
    <3> QED BY <3>1, StageIndex DEF STAGES, StageNames
  <2>5. PICK u : u = target' OBVIOUS
  <2>6. u \in StageNames /\ Index(u) = Index(t) - 1 BY <2>1, <2>2, <2>4, <2>5
  <2>7. PICK q \in StageNames : q = recommendStage(request.profile) BY Recommended
  <2>8. Index(t) \in 1..6 /\ Index(u) \in 1..6 /\ Index(q) \in 1..6
    BY <2>3, <2>6, <2>7, StageOf
  <2>9. Index(t) <= Index(q) BY <1>1, <1>2, <2>2, <2>7 DEF TargetIsDue
  <2>10. Index(u) <= Index(q) BY <2>6, <2>8, <2>9
  <2>11. TargetIsDue'
    BY <1>1, <1>2, <2>5, <2>6, <2>7, <2>10 DEF TargetIsDue
  <2>12. Index("L0") <= Index(u) BY <2>8, StageIndex
  <2>13. StageIsDue'
    BY <2>1, <2>5, <2>11, <2>12 DEF StageIsDue, Before, StaticCode
  <2>14. EverythingIsProven' /\ AnswerIsTrue'
    BY <2>1 DEF EverythingIsProven, AnswerIsTrue, LevelIsEarned, ReportIsTrue,
                StageIsExplained
  <2> QED BY <2>1, <2>13, <2>14 DEF RecInv, StageNames
<1> QED BY <1>3, <1>4

-----------------------------------------------------------------------------
(***************************************************************************)
(* A stage that was not the one asked for gives way to the next.           *)
(***************************************************************************)
LEMMA GoesOn ==
  ASSUME RecInv, NEW stage \in StageNames, NEW next \in StageNames, at = stage, at' = next,
         Index(next) = Index(stage) + 1, target # stage, UNCHANGED <<request, target>>,
         level' \in Before(next), code'.kind = "static", program'.vm \in Nat,
         next # "L5" => code' = StaticCode(program'.vm) /\ metrics' = NoMetrics,
         next = "L5" => /\ metrics' \in Metrics /\ CountsAreTrue(code', metrics')
                        /\ level' = "L4" => metrics'.split < program'.vm
  PROVE  RecInv'
<1>1. TargetIsDue /\ (target \in StageNames => Index(stage) <= Index(target))
  BY DEF RecInv, StageIsDue
<1>2. TargetIsDue' BY <1>1 DEF TargetIsDue
<1>3. PICK t : t = target /\ t = target' OBVIOUS
<1>4. ASSUME t \in StageNames PROVE Index(next) <= Index(t)
  <2>1. Index(stage) \in 1..6 /\ Index(t) \in 1..6 BY <1>4, StageOf
  <2>2. STAGES[Index(stage)] = stage /\ STAGES[Index(t)] = t BY <1>4, StageOf
  <2>3. Index(t) # Index(stage) BY <1>3, <2>2
  <2> QED BY <1>1, <1>3, <1>4, <2>1, <2>3
<1>5. next # "L0"
  <2>1. Index(stage) \in 1..6 BY StageOf
  <2> QED BY <2>1, StageIndex
<1>6. StageIsDue' BY <1>2, <1>3, <1>4, <1>5 DEF StageIsDue
<1>7. PICK l : l = level' OBVIOUS
<1>8. l # "L5-W" BY <1>7, LevelsBefore
<1>9. EverythingIsProven' BY <1>7, <1>8 DEF EverythingIsProven
<1>10. AnswerIsTrue'
  BY DEF StageNames, AnswerIsTrue, LevelIsEarned, ReportIsTrue, StageIsExplained
<1> QED BY <1>6, <1>9, <1>10 DEF RecInv, StageNames

(***************************************************************************)
(* A stage before the separation, whatever level it gives.                 *)
(***************************************************************************)
LEMMA EarlyStage ==
  ASSUME RecInv, NEW stage \in {"L0", "L1", "L2", "L3"}, NEW next \in {"L1", "L2", "L3", "L4"},
         Index(next) = Index(stage) + 1, at = stage, UNCHANGED <<request, target>>,
         NEW l \in Before(next), stage # "L3" => Rank(l) <= Rank(stage),
         NEW vm \in Nat, program'.vm = vm,
         GoOnOrFinish(stage, next, l, StaticCode(vm), NoMetrics)
  PROVE  RecInv'
<1>1. TargetIsDue /\ metrics = NoMetrics BY DEF RecInv, StageIsDue, StageNames
<1>2. StaticCode(vm).kind = "static" BY DEF StaticCode
<1>3. l \in {"L0", "L1", "L2", "L3"} BY DEF Before
<1>4. CASE target = stage
  <2>1. Finish(l, StaticCode(vm), NoMetrics) BY <1>4 DEF GoOnOrFinish
  <2>2. Rank(l) <= Rank(stage) BY <1>3, LevelRank
  <2> QED BY <1>1, <1>2, <1>3, <1>4, <2>1, <2>2, FinishIsTrue
<1>5. CASE target # stage
  <2>1. /\ at' = next /\ level' = l /\ code' = StaticCode(vm) /\ UNCHANGED metrics
    BY <1>5 DEF GoOnOrFinish
  <2>2. stage \in StageNames /\ next \in StageNames /\ next # "L5" BY DEF StageNames
  <2> QED BY <1>1, <1>2, <1>5, <2>1, <2>2, GoesOn
<1> QED BY <1>4, <1>5

(***************************************************************************)
(* The input is parsed: the dispatcher, if there is one, is whole.         *)
(***************************************************************************)
LEMMA ParseInputKeeps == ASSUME Assumptions, RecInv, ParseInput PROVE RecInv'
<1>1. PICK vm \in 0..maxStates, detected \in BOOLEAN :
        /\ program' = [vm |-> vm, detected |-> detected]
        /\ GoOnOrFinish("L0", "L1", "L0", StaticCode(vm), NoMetrics)
  BY DEF ParseInput
<1>2. vm \in Nat BY DEF Assumptions
<1>3. at = "L0" /\ UNCHANGED <<request, target>> BY DEF ParseInput
<1>4. "L0" \in Before("L1") /\ Rank("L0") <= Rank("L0") BY LevelRank DEF Before
<1>5. program'.vm = vm BY <1>1
<1> QED BY <1>1, <1>2, <1>3, <1>4, <1>5, StageIndex, EarlyStage

(***************************************************************************)
(* Normalization may raise the level to L1.                                *)
(***************************************************************************)
LEMMA NormalizeKeeps == ASSUME RecInv, Normalize PROVE RecInv'
<1>1. PICK l \in {level, "L1"} : GoOnOrFinish("L1", "L2", l, code, NoMetrics)
  BY DEF Normalize
<1>2. at = "L1" /\ UNCHANGED <<request, target, program>> BY DEF Normalize
<1>3. PICK vm : vm = program.vm /\ vm = program'.vm BY <1>2
<1>4. vm \in Nat /\ code = StaticCode(vm) /\ level = "L0"
  BY <1>2, <1>3 DEF RecInv, StageIsDue, StageNames, Before
<1>5. l \in Before("L2") /\ Rank(l) <= Rank("L1") BY <1>1, <1>4, LevelRank DEF Before
<1>6. GoOnOrFinish("L1", "L2", l, StaticCode(vm), NoMetrics) BY <1>1, <1>4
<1> QED BY <1>2, <1>3, <1>4, <1>5, <1>6, StageIndex, EarlyStage

(***************************************************************************)
(* String recovery may raise the level to L2.                              *)
(***************************************************************************)
LEMMA RecoverStringsKeeps == ASSUME RecInv, RecoverStrings PROVE RecInv'
<1>1. PICK l \in {level, "L2"} : GoOnOrFinish("L2", "L3", l, code, NoMetrics)
  BY DEF RecoverStrings
<1>2. at = "L2" /\ UNCHANGED <<request, target, program>> BY DEF RecoverStrings
<1>3. PICK vm : vm = program.vm /\ vm = program'.vm BY <1>2
<1>4. vm \in Nat /\ code = StaticCode(vm) /\ level \in {"L0", "L1"}
  BY <1>2, <1>3 DEF RecInv, StageIsDue, StageNames, Before
<1>5. l \in Before("L3") /\ Rank(l) <= Rank("L2") BY <1>1, <1>4, LevelRank DEF Before
<1>6. GoOnOrFinish("L2", "L3", l, StaticCode(vm), NoMetrics) BY <1>1, <1>4
<1> QED BY <1>2, <1>3, <1>4, <1>5, <1>6, StageIndex, EarlyStage

(***************************************************************************)
(* Alias recovery raises the level to L3, or leaves what is below L2.      *)
(***************************************************************************)
LEMMA RecoverAliasesKeeps == ASSUME RecInv, RecoverAliases PROVE RecInv'
<1>1. PICK l \in {"L3"} \cup ({level} \ {"L2"}) :
        GoOnOrFinish("L3", "L4", l, code, NoMetrics)
  BY DEF RecoverAliases
<1>2. at = "L3" /\ UNCHANGED <<request, target, program>> BY DEF RecoverAliases
<1>3. PICK vm : vm = program.vm /\ vm = program'.vm BY <1>2
<1>4. vm \in Nat /\ code = StaticCode(vm) /\ level \in {"L0", "L1", "L2"}
  BY <1>2, <1>3 DEF RecInv, StageIsDue, StageNames, Before
<1>5. l \in Before("L4") BY <1>1, <1>4 DEF Before
<1>6. GoOnOrFinish("L3", "L4", l, StaticCode(vm), NoMetrics) BY <1>1, <1>4
<1> QED BY <1>2, <1>3, <1>4, <1>5, <1>6, StageIndex, EarlyStage

(***************************************************************************)
(* The level of a split is L4 only when states were extracted.             *)
(***************************************************************************)
LEMMA SplitLevelIsEarned ==
  ASSUME level \in Before("L4"), NEW rebuilt \in BOOLEAN, NEW remaining
  PROVE  /\ SplitLevel(rebuilt, remaining) \in Before("L5")
         /\ SplitLevel(rebuilt, remaining) = "L4" => remaining < program.vm
BY DEF SplitLevel, Before

(***************************************************************************)
(* The dispatcher is split: the metrics that are reported are those of the *)
(* code that goes on, unless all of its states were extracted.             *)
(***************************************************************************)
LEMMA SeparateKeeps == ASSUME Assumptions, RecInv, Separate PROVE RecInv'
<1>1. at = "L4" /\ UNCHANGED <<request, target, program>> BY DEF Separate
<1>2. /\ TargetIsDue /\ level \in Before("L4") /\ program.vm \in Nat
      /\ code = StaticCode(program.vm) /\ metrics = NoMetrics
  BY <1>1 DEF RecInv, StageIsDue, StageNames
<1>3. PICK vm : vm = program.vm /\ vm = program'.vm BY <1>1
<1>4. vm \in Nat BY <1>2, <1>3
<1>5. \A c, m, l :
        /\ c.kind = "static" /\ m \in Metrics /\ CountsAreTrue(c, m)
        /\ l \in Before("L5") /\ (l = "L4" => m.split < vm)
        /\ IF target = "L4" THEN Finish(l, c, m)
           ELSE at' = "L5" /\ level' = l /\ code' = c /\ metrics' = m
        => RecInv'
  <2> SUFFICES ASSUME NEW c, NEW m, NEW l, c.kind = "static", m \in Metrics,
                      CountsAreTrue(c, m), l \in Before("L5"), l = "L4" => m.split < vm,
                      IF target = "L4" THEN Finish(l, c, m)
                      ELSE at' = "L5" /\ level' = l /\ code' = c /\ metrics' = m
               PROVE  RecInv'
    OBVIOUS
  <2>1. l \in {"L0", "L1", "L3", "L3.5", "L4"} BY DEF Before
  <2>2. CASE target = "L4"
    <3>1. Finish(l, c, m) BY <2>2
    <3>2. Rank(l) <= Rank("L4") BY <2>1, LevelRank
    <3> QED BY <1>1, <1>2, <1>3, <2>1, <2>2, <3>1, <3>2, FinishIsTrue
  <2>3. CASE target # "L4"
    <3>1. at' = "L5" /\ level' = l /\ code' = c /\ metrics' = m BY <2>3
    <3>2. "L4" \in StageNames /\ "L5" \in StageNames BY DEF StageNames
    <3>3. Index("L5") = Index("L4") + 1 BY StageIndex
    <3> QED BY <1>1, <1>3, <1>4, <2>3, <3>1, <3>2, <3>3, GoesOn
  <2> QED BY <2>2, <2>3
<1>6. CASE vm = 0
  <2>1. PICK c, m, l : c = code /\ m = metrics /\ l = level OBVIOUS
  <2>2. IF target = "L4" THEN Finish(l, c, m)
        ELSE at' = "L5" /\ level' = l /\ code' = c /\ metrics' = m
    BY <1>3, <1>6, <2>1 DEF Separate, GoOnOrFinish
  <2>3. c = [kind |-> "static", states |-> 0, refers |-> 0 > 0, prints |-> None]
    BY <1>2, <1>3, <1>6, <2>1 DEF StaticCode
  <2>4. m = NoMetrics BY <1>2, <2>1
  <2>5. c.kind = "static" /\ m \in Metrics /\ CountsAreTrue(c, m)
    BY <2>3, <2>4 DEF NoMetrics, Metrics, CountsAreTrue
  <2>6. l \in Before("L5") /\ l # "L4" BY <1>2, <2>1 DEF Before
  <2> QED BY <1>5, <2>2, <2>5, <2>6
<1>7. CASE vm # 0
  <2>1. PICK rebuilt \in BOOLEAN, remaining \in 0..vm :
          LET m == [states |-> remaining, before |-> vm, cfg |-> TRUE,
                    split |-> remaining, eligible |-> FALSE]
              l == SplitLevel(rebuilt, remaining)
              c == [code EXCEPT !.states = IF remaining = 0 THEN vm ELSE remaining]
          IN IF target = "L4" THEN Finish(l, c, m)
             ELSE at' = "L5" /\ level' = l /\ code' = c /\ metrics' = m
    BY <1>3, <1>7 DEF Separate
  <2>2. PICK c, m, l :
          /\ c = [code EXCEPT !.states = IF remaining = 0 THEN vm ELSE remaining]
          /\ m = [states |-> remaining, before |-> vm, cfg |-> TRUE,
                  split |-> remaining, eligible |-> FALSE]
          /\ l = SplitLevel(rebuilt, remaining)
    OBVIOUS
  <2>3. IF target = "L4" THEN Finish(l, c, m)
        ELSE at' = "L5" /\ level' = l /\ code' = c /\ metrics' = m
    BY <2>1, <2>2
  <2>4. c.kind = "static" /\ c.states = (IF remaining = 0 THEN vm ELSE remaining)
    BY <1>2, <1>3, <2>2 DEF StaticCode
  <2>5. remaining \in Nat BY <1>4, <2>1
  <2>6. m \in Metrics BY <1>4, <2>2, <2>5 DEF Metrics
  <2>7. m.states = remaining /\ m.split = remaining BY <2>2
  <2>8. CountsAreTrue(c, m) BY <2>4, <2>7 DEF CountsAreTrue
  <2>9. l \in Before("L5") /\ (l = "L4" => remaining < vm)
    BY <1>2, <1>3, <2>2, SplitLevelIsEarned
  <2> QED BY <1>5, <2>3, <2>4, <2>6, <2>7, <2>8, <2>9
<1> QED BY <1>6, <1>7

-----------------------------------------------------------------------------
(***************************************************************************)
(* What is known when the last stage begins.                               *)
(***************************************************************************)
LEMMA AtTheLastStage ==
  ASSUME RecInv, at = "L5"
  PROVE  /\ TargetIsDue /\ target \notin StageNames \ {"L5"}
         /\ level \in {"L0", "L1", "L3", "L3.5", "L4"}
         /\ code.kind = "static" /\ metrics \in Metrics /\ CountsAreTrue(code, metrics)
         /\ level = "L4" => metrics.split < program.vm
<1>1. PICK t : t = target OBVIOUS
<1>2. "L5" \in StageNames BY DEF StageNames
<1>3. t \in StageNames => Index("L5") <= Index(t)
  BY <1>1, <1>2 DEF RecInv, StageIsDue
<1>4. t \notin StageNames \ {"L5"}
  BY <1>3, StageIndex DEF StageNames
<1> QED BY <1>1, <1>2, <1>4 DEF RecInv, StageIsDue, Before

(***************************************************************************)
(* The static code is put out with the level it has earned.                *)
(***************************************************************************)
LEMMA KeepStaticKeeps == ASSUME RecInv, KeepStatic PROVE RecInv'
<1>1. at = "L5" /\ UNCHANGED <<request, target, program>> BY DEF KeepStatic
<1>2. PICK l, c, m : l = level /\ c = code /\ m = metrics OBVIOUS
<1>3. Finish(l, c, m) BY <1>2 DEF KeepStatic
<1>4. /\ TargetIsDue /\ target \notin StageNames \ {"L5"}
      /\ l \in {"L0", "L1", "L3", "L3.5", "L4"}
      /\ c.kind = "static" /\ CountsAreTrue(c, m)
      /\ l = "L4" => m.split < program'.vm
  BY <1>1, <1>2, AtTheLastStage
<1> QED BY <1>1, <1>3, <1>4, FinishIsTrue

(***************************************************************************)
(* The second gate lets code pass only when it has let go of the           *)
(* dispatcher.                                                             *)
(***************************************************************************)
LEMMA PostGateAsks ==
  ASSUME NEW e, NEW detached, FinalEligible(PostGate(Verify(e, TRUE), detached))
  PROVE  detached
<1>1. PICK g : g = Verify(e, TRUE).gate OBVIOUS
<1>2. "detached" \in DOMAIN g BY <1>1 DEF Verify
<1>3. FinalEligible([g EXCEPT !.detached = detached]) BY <1>1 DEF PostGate
<1>4. [g EXCEPT !.detached = detached].detached = detached BY <1>2
<1> QED BY <1>3, <1>4 DEF FinalEligible

(***************************************************************************)
(* The judgement at the end, on any evidence.                              *)
(***************************************************************************)
LEMMA SynthesizeKeeps ==
  ASSUME Assumptions, RecInv, NEW e \in Evidence, Synthesize(e)
  PROVE  RecInv'
<1>1. at = "L5" /\ evidence' = e /\ UNCHANGED <<request, target, program>>
  BY DEF Synthesize
<1>2. PICK made \in {"code", "empty", "throws"}, refers \in BOOLEAN : Judge(e, made, refers)
  BY DEF Synthesize
<1>3. PICK l, c, k, new : /\ l = level /\ c = code /\ k = metrics
                          /\ new = NewCode(e, refers)
  OBVIOUS
<1>4. PICK v : v = Verify(e, TRUE).eligible OBVIOUS
<1>5. PICK m, vetoed : /\ m = [k EXCEPT !.eligible = v]
                       /\ vetoed = [m EXCEPT !.eligible = FALSE]
  OBVIOUS
<1>6. /\ TargetIsDue /\ target \notin StageNames \ {"L5"}
      /\ l \in {"L0", "L1", "L3", "L3.5", "L4"}
      /\ c.kind = "static" /\ k \in Metrics /\ CountsAreTrue(c, k)
      /\ l = "L4" => k.split < program'.vm
  BY <1>1, <1>3, AtTheLastStage
<1>7. m.states = k.states /\ m.split = k.split /\ vetoed.states = k.states /\ vetoed.split = k.split
  BY <1>5, <1>6 DEF Metrics
<1>8. CountsAreTrue(c, m) /\ CountsAreTrue(c, vetoed) BY <1>6, <1>7 DEF CountsAreTrue
<1>9. PICK p : p = Partial(e) OBVIOUS
<1>10. p = l \/ (l = "L4" /\ p = "L4.5") BY <1>3, <1>9 DEF Partial
<1>11. new.kind = "synthesized" /\ new.states = 0 BY <1>3 DEF NewCode
<1>12. PICK r : r = Replaced(m) OBVIOUS
<1>13. CountsAreTrue(new, r) BY <1>11, <1>12 DEF Replaced, CountsAreTrue
<1>14. \/ \E s \in {m, vetoed} : Finish(p, c, s)
       \/ Finish(l, c, m)
       \/ target = "L5-T" /\ Finish("L5-T", new, r)
       \/ /\ v /\ Finish("L5-W", new, r)
          /\ FinalEligible(PostGate(Verify(e, TRUE), ~new.refers))
  BY <1>2, <1>3, <1>4, <1>5, <1>9, <1>12 DEF Judge
<1>15. CASE \E s \in {m, vetoed} : Finish(p, c, s)
  <2>1. PICK s \in {m, vetoed} : Finish(p, c, s) BY <1>15
  <2>2. CountsAreTrue(c, s) /\ s.split = k.split BY <1>7, <1>8
  <2>3. p \in {"L0", "L1", "L3", "L3.5", "L4", "L4.5"} BY <1>6, <1>10
  <2>4. p \in {"L4", "L4.5"} => s.split < program'.vm BY <1>6, <1>10, <2>2
  <2> QED BY <1>1, <1>6, <2>1, <2>2, <2>3, <2>4, FinishIsTrue
<1>16. CASE Finish(l, c, m)
  BY <1>1, <1>6, <1>7, <1>8, <1>16, FinishIsTrue
<1>17. CASE target = "L5-T" /\ Finish("L5-T", new, r)
  BY <1>1, <1>6, <1>11, <1>13, <1>17, FinishIsTrue
<1>18. CASE /\ v /\ Finish("L5-W", new, r)
            /\ FinalEligible(PostGate(Verify(e, TRUE), ~new.refers))
  <2>1. ~new.refers BY <1>18, PostGateAsks
  <2>2. Proven(evidence') BY <1>1, <1>4, <1>18, EligibleIsProven
  <2> QED BY <1>1, <1>6, <1>11, <1>13, <1>18, <2>1, <2>2, FinishIsTrue
<1> QED BY <1>14, <1>15, <1>16, <1>17, <1>18

-----------------------------------------------------------------------------
(***************************************************************************)
(* Every step keeps the invariant.                                         *)
(***************************************************************************)
LEMMA RecKeeps == ASSUME Assumptions PROVE RecInv /\ [Next]_vars => RecInv'
<1> SUFFICES ASSUME RecInv, [Next]_vars PROVE RecInv' OBVIOUS
<1>1. CASE \E r \in Requests : Receive(r) BY <1>1, ReceiveKeeps
<1>2. CASE \E why \in {"SYNTAX_PARSE_FAILURE", "INTERNAL_RECOVERY_EXCEPTION"} : Throw(why)
  BY <1>2, ThrowKeeps
<1>3. CASE FallBack BY <1>3, FallBackKeeps
<1>4. CASE ParseInput BY <1>4, ParseInputKeeps
<1>5. CASE Normalize BY <1>5, NormalizeKeeps
<1>6. CASE RecoverStrings BY <1>6, RecoverStringsKeeps
<1>7. CASE RecoverAliases BY <1>7, RecoverAliasesKeeps
<1>8. CASE Separate BY <1>8, SeparateKeeps
<1>9. CASE KeepStatic BY <1>9, KeepStaticKeeps
<1>10. CASE \E e \in Evidence : Synthesize(e) BY <1>10, SynthesizeKeeps
<1>11. CASE UNCHANGED vars
  BY <1>11 DEF vars, RecInv, StageIsDue, TargetIsDue, CountsAreTrue, EverythingIsProven,
               AnswerIsTrue, LevelIsEarned, ReportIsTrue, StageIsExplained
<1> QED
  BY <1>1, <1>2, <1>3, <1>4, <1>5, <1>6, <1>7, <1>8, <1>9, <1>10, <1>11 DEF Next

(***************************************************************************)
(* A program is replaced as a whole only when everything that makes it     *)
(* safe is proven, whatever the analyzers find, and a trace never makes a  *)
(* program eligible (pipeline.js, final-admission-gate.js).                *)
(***************************************************************************)
THEOREM Replacement == ASSUME Assumptions PROVE Spec => []ReplacementIsProven
<1>1. OracleCannotPromote BY TraceDoesNotPromote DEF OracleCannotPromote
<1>2. Init => RecInv BY RecInit
<1>3. RecInv /\ [Next]_vars => RecInv' BY RecKeeps
<1>4. RecInv => ReplacementIsProven BY <1>1 DEF RecInv, ReplacementIsProven
<1> QED BY <1>2, <1>3, <1>4, PTL DEF Spec

(***************************************************************************)
(* The level of an answer is what was done, the report says no more, and   *)
(* a lower stage than the one asked for is explained, at every entry point *)
(* (pipeline.js, recovery-service.js, worker-executor.js, api/recovery.js). *)
(***************************************************************************)
THEOREM Answer == ASSUME Assumptions PROVE Spec => []AnswerIsTrue
<1>1. Init => RecInv BY RecInit
<1>2. RecInv /\ [Next]_vars => RecInv' BY RecKeeps
<1>3. RecInv => AnswerIsTrue BY DEF RecInv
<1> QED BY <1>1, <1>2, <1>3, PTL DEF Spec
=============================================================================
