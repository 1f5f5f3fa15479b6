------------------------------ MODULE Recovery ------------------------------
(***************************************************************************)
(* One recovery, from the request to the answer.  The service of the       *)
(* command line (recovery-service.js), the worker (worker-executor.js),    *)
(* which serves the product API through the gateway, or the serverless     *)
(* endpoint (api/recovery.js) refuses a request or runs the pipeline       *)
(* (pipeline.js), whose stages L0 to L5 rewrite the code and raise its     *)
(* level until the stage that was admitted.  What an analysis finds in the *)
(* program is chosen where the code computes it.                           *)
(*                                                                         *)
(* Of the code that is put out, the model keeps whether it is still the    *)
(* program that was put in ("static": rewritten, but complete) or one made *)
(* up from a trace or from a lifted graph ("synthesized"), how many states *)
(* of the dispatcher are left in it, and whether it names the variable the *)
(* dispatcher branches on.  Of code emitted from a graph it keeps what the  *)
(* code prints.                                                            *)
(***************************************************************************)
EXTENDS Admission

CONSTANTS
  Evidence,          \* what the analyzers may find (see Admission)
  Profiles,          \* what the preflight may measure
  maxStates,         \* dispatchers have 1 to maxStates states
  baselineStates     \* fewer remaining states than this are level L4 (610)

VARIABLES
  request,   \* entry point, stage asked for, and the input
  target,    \* targetStage of the pipeline
  at,        \* the stage that is next
  program,   \* what format detection and the dispatcher analysis found
  level,     \* currentLevel
  code,      \* currentAst
  metrics,   \* what finish is told
  evidence,  \* what the completeness verifier was given
  answer     \* what the caller gets

vars == <<request, target, at, program, level, code, metrics, evidence, answer>>

STAGES == <<"L0", "L1", "L2", "L3", "L4", "L5">>

StageNames == {"L0", "L1", "L2", "L3", "L4", "L5"}

\* stage: what the caller asks for; a worker takes "auto" for L5.
Requests ==
  [entry : {"service"}, stage : {"auto", "L4", "L5", "L5-W", "L5-T"},
   path : {"none", "missing", "inaccessible", "directory", "file"},
   size : {"ok", "over"}, readable : BOOLEAN,
   text : {"none", "ok", "over", "binary"}]
  \cup
  [entry : {"worker"}, stage : {"auto", "L5-W", "L5-T"} \cup StageNames,
   sound : BOOLEAN, valid : BOOLEAN, text : {"none", "absent", "ok", "over"},
   matches : BOOLEAN, profile : Profiles]
  \cup
  [entry : {"api"}, stage : StageNames, sound : {TRUE}, valid : {TRUE},
   text : {"ok"}, matches : {TRUE}, profile : Profiles]
  \cup
  [entry : {"hosted"}, stage : StageNames \cup {"L5-W"}, post : BOOLEAN,
   authorized : BOOLEAN, text : {"none", "ok", "over"}, profile : Profiles]

NoMetrics == [states |-> 0, before |-> 0, cfg |-> FALSE, split |-> None, eligible |-> FALSE]

StaticCode(vm) ==
  [kind |-> "static", states |-> vm, refers |-> vm > 0, prints |-> None]

Init ==
  /\ request = None /\ target = None /\ program = None
  /\ at = "request"
  /\ level = "L0"
  /\ code = StaticCode(0)
  /\ metrics = NoMetrics
  /\ evidence = None /\ answer = None

-----------------------------------------------------------------------------
(* The request.                                                            *)

Failed(why, exit) == [ok |-> FALSE, why |-> why, exit |-> exit]

\* Why a request may be refused.
Reasons ==
  {"FILE_NOT_FOUND", "FILE_ACCESS_ERROR", "NOT_A_REGULAR_FILE", "INPUT_TOO_LARGE",
   "FILE_READ_ERROR", "MISSING_INPUT", "BINARY_OR_BYTECODE_INPUT",
   "CORE_BASELINE_VIOLATION", "INVALID_REQUEST", "INPUT_NOT_FOUND", "MISSING_SOURCE",
   "INPUT_SIZE_EXCEEDED", "INPUT_SHA256_MISMATCH", "METHOD_NOT_ALLOWED", "UNAUTHORIZED",
   "SOURCE_TOO_LARGE", "INVALID_STAGE"}

Failure == [ok : {FALSE}, why : Reasons, exit : Nat \cup {None}]

\* The first refusal whose condition holds, as the early returns stand.
FirstOf(refusals) ==
  LET holding == {i \in DOMAIN refusals : refusals[i][1]}
  IN IF holding = {} THEN None
     ELSE refusals[CHOOSE i \in holding : \A k \in holding : i <= k][2]

\* RecoveryService.recover up to the pipeline.
ServiceRefusal(r) ==
  LET fromFile == r.path # "none" IN
  FirstOf(<< <<r.path = "missing", Failed("FILE_NOT_FOUND", 2)>>,
             <<r.path = "inaccessible", Failed("FILE_ACCESS_ERROR", 2)>>,
             <<r.path = "directory", Failed("NOT_A_REGULAR_FILE", 2)>>,
             <<fromFile /\ r.size = "over", Failed("INPUT_TOO_LARGE", 7)>>,
             <<fromFile /\ ~r.readable, Failed("FILE_READ_ERROR", 2)>>,
             <<r.text = "none", Failed("MISSING_INPUT", 2)>>,
             <<r.text = "over", Failed("INPUT_TOO_LARGE", 7)>>,
             <<r.text = "binary", Failed("BINARY_OR_BYTECODE_INPUT", 4)>> >>)

\* The stage the service asks of the pipeline: L5-T is not one it knows.
ServiceStage(stage) == IF stage \in {"L4", "L5-W"} THEN stage ELSE "L5"

\* The worker's constructor and executeJobSync up to the pipeline.
WorkerRefusal(r) ==
  FirstOf(<< <<~r.sound, Failed("CORE_BASELINE_VIOLATION", None)>>,
             <<~r.valid, Failed("INVALID_REQUEST", None)>>,
             <<r.text = "absent", Failed("INPUT_NOT_FOUND", None)>>,
             <<r.text = "none", Failed("MISSING_SOURCE", None)>>,
             <<r.text = "over", Failed("INPUT_SIZE_EXCEEDED", None)>>,
             <<~r.matches, Failed("INPUT_SHA256_MISMATCH", None)>> >>)

\* The serverless handler up to the pipeline.
HostedRefusal(r) ==
  FirstOf(<< <<~r.post, Failed("METHOD_NOT_ALLOWED", 405)>>,
             <<~r.authorized, Failed("UNAUTHORIZED", 401)>>,
             <<r.text = "none", Failed("MISSING_SOURCE", 400)>>,
             <<r.text = "over", Failed("SOURCE_TOO_LARGE", 413)>>,
             <<r.stage \notin StageNames, Failed("INVALID_STAGE", 400)>> >>)

recommendStage(p) ==
  CASE p.bytes > 1200000 \/ p.tokens > 350000 \/ p.maxLineLength > 1200000 -> "L2"
    [] OTHER ->
  CASE p.bytes > 640000 \/ p.tokens > 190000 \/ p.maxDepth > 1000 -> "L3"
    [] OTHER ->
  CASE p.bytes > 320000 \/ p.tokens > 100000 \/ p.maxDepth > 350 -> "L4"
    [] OTHER -> "L5"

Index(stage) == CHOOSE i \in 1..Len(STAGES) : STAGES[i] = stage

capStageNever(requested, recommended) == requested   \* defect

\* L5-W and L5-T are not among the stages and are never capped.
capStage(requested, recommended) ==
  IF requested \notin StageNames THEN requested
  ELSE IF Index(recommended) < Index(requested) THEN recommended ELSE requested

\* The gateway reads requestedStage of the options; the server sends stage.
GatewayStage(r) == IF r.entry = "api" THEN "auto" ELSE r.stage

Requested(r) == IF GatewayStage(r) = "auto" THEN "L5" ELSE GatewayStage(r)

\* The stage the pipeline is first run to.
Admitted(r) ==
  IF r.entry = "service" THEN ServiceStage(r.stage)
  ELSE capStage(Requested(r), recommendStage(r.profile))

Refusal(r) ==
  CASE r.entry = "service"         -> ServiceRefusal(r)
    [] r.entry \in {"worker", "api"} -> WorkerRefusal(r)
    [] r.entry = "hosted"          -> HostedRefusal(r)

Receive(r) ==
  /\ at = "request"
  /\ request' = r
  /\ answer' = Refusal(r)
  /\ IF Refusal(r) # None
     THEN at' = "done" /\ UNCHANGED target
     ELSE at' = "L0" /\ target' = Admitted(r)
  /\ UNCHANGED <<program, level, code, metrics, evidence>>

-----------------------------------------------------------------------------
(* finish, and what the caller makes of its report.                        *)

VersionedByVerdict(l, m) ==   \* defect: the verdict stands for what was done
  [ok |-> TRUE, level |-> l, eligible |-> m.eligible, before |-> m.before,
   after |-> IF m.split # None THEN m.split ELSE m.states,
   runtime |-> ~m.eligible,
   requested |-> request.stage, executed |-> target, warned |-> FALSE]

\* buildVersionedReport.
Versioned(l, m) ==
  [ok |-> TRUE, level |-> l, eligible |-> l = "L5-W",
   before |-> m.before,
   after |-> IF l = "L5-W" THEN 0 ELSE IF m.split # None THEN m.split ELSE m.states,
   runtime |-> l # "L5-W",
   requested |-> request.stage, executed |-> target, warned |-> FALSE]

\* The completed response of the worker.
Completed(l, m) ==
  [ok |-> TRUE, level |-> l, eligible |-> m.eligible,
   before |-> IF m.cfg THEN m.before ELSE baselineStates,
   after |-> m.states, runtime |-> TRUE,
   requested |-> Requested(request), executed |-> target,
   warned |-> target # Requested(request)]

\* The serverless response: a warning when the stage was capped and one when
\* the pipeline had to be run again to a lower one.
Adapted(l, m) ==
  [ok |-> TRUE, level |-> l, eligible |-> m.eligible,
   before |-> m.before, after |-> m.states, runtime |-> TRUE,
   requested |-> request.stage, executed |-> target,
   warned |-> Admitted(request) # request.stage \/ target # Admitted(request)]

\* The pipeline is done with level l, code c and metrics m.
Finish(l, c, m) ==
  /\ at' = "done"
  /\ level' = l /\ code' = c /\ metrics' = m
  /\ answer' \in
       CASE request.entry = "service" -> {Versioned(l, m)}
         [] request.entry \in {"worker", "api"} ->
              {Completed(l, m), Failed("OUTPUT_SIZE_EXCEEDED", None)}
         [] request.entry = "hosted" ->
              {Adapted(l, m), Failed("OUTPUT_TOO_LARGE", 413)}

\* It goes on to the next stage, or is done when this one was asked for.
GoOnOrFinish(stage, next, l, c, m) ==
  IF target = stage THEN Finish(l, c, m)
  ELSE at' = next /\ level' = l /\ code' = c /\ UNCHANGED <<metrics, answer>>

\* An exception of the parser, of a limit or of any stage before the oracle.
Throw(why) ==
  /\ at \in StageNames
  /\ why = "SYNTAX_PARSE_FAILURE" => at = "L0"
  /\ at' = "done"
  /\ answer' = CASE request.entry = "service" ->
                      Failed(why, IF why = "SYNTAX_PARSE_FAILURE" THEN 3 ELSE 5)
                 [] request.entry \in {"worker", "api"} -> Failed("EXECUTION_ERROR", None)
                 [] request.entry = "hosted" -> Failed("RECOVERY_ERROR", 500)
  /\ UNCHANGED <<request, target, program, level, code, metrics, evidence>>

\* The stack overflows: the serverless endpoint starts over, one stage lower.
FallBack ==
  /\ at \in StageNames /\ request.entry = "hosted"
  /\ IF target = "L0"
     THEN /\ at' = "done" /\ answer' = Failed("STRUCTURE_TOO_DEEP", 500)
          /\ UNCHANGED <<target, program, level, code, metrics, evidence>>
     ELSE /\ target' = STAGES[Index(target) - 1]
          /\ at' = "L0" /\ level' = "L0"
          /\ code' = StaticCode(0)
          /\ metrics' = NoMetrics
          /\ program' = None /\ evidence' = None
          /\ UNCHANGED answer
  /\ UNCHANGED request

-----------------------------------------------------------------------------
(* The stages.  vm: the dispatcher's states, 0 when there is none;         *)
(* detected: the format is known and has an adapter.                       *)

ParseInput ==
  /\ at = "L0"
  /\ \E vm \in 0..maxStates, detected \in BOOLEAN :
       /\ program' = [vm |-> vm, detected |-> detected]
       /\ GoOnOrFinish("L0", "L1", "L0", StaticCode(vm), NoMetrics)
  /\ UNCHANGED <<request, target, evidence>>

Normalize ==
  /\ at = "L1"
  /\ \E l \in {level, "L1"} : GoOnOrFinish("L1", "L2", l, code, NoMetrics)
  /\ UNCHANGED <<request, target, program, evidence>>

\* Only an adapter inlines strings.
RecoverStrings ==
  /\ at = "L2"
  /\ \E l \in {level} \cup IF program.detected THEN {"L2"} ELSE {} :
       GoOnOrFinish("L2", "L3", l, code, NoMetrics)
  /\ UNCHANGED <<request, target, program, evidence>>

RecoverAliases ==
  /\ at = "L3"
  /\ \E l \in {"L3"} \cup ({level} \ {"L2"}) : GoOnOrFinish("L3", "L4", l, code, NoMetrics)
  /\ UNCHANGED <<request, target, program, evidence>>

SplitLevelAnyway(rebuilt, remaining) ==   \* defect: rebuilding is enough
  IF ~rebuilt THEN level ELSE IF remaining < baselineStates THEN "L4" ELSE "L3.5"

\* The level of a split: nothing rebuilt, rebuilt only, or states extracted.
SplitLevel(rebuilt, remaining) ==
  IF ~rebuilt THEN level
  ELSE IF remaining < program.vm /\ remaining < baselineStates THEN "L4" ELSE "L3.5"

\* States are extracted whether functions are rebuilt or not (see Separation).
\* When none remain the search tree is left as it was, and the loop always is.
Separate ==
  /\ at = "L4"
  /\ IF program.vm = 0
     THEN GoOnOrFinish("L4", "L5", level, code, metrics)
     ELSE \E rebuilt \in BOOLEAN :
          \E remaining \in 0..program.vm :
            LET m == [states |-> remaining, before |-> program.vm, cfg |-> TRUE,
                      split |-> remaining, eligible |-> FALSE]
                l == SplitLevel(rebuilt, remaining)
                c == [code EXCEPT !.states = IF remaining = 0 THEN program.vm ELSE remaining]
            IN IF target = "L4" THEN Finish(l, c, m)
               ELSE /\ at' = "L5" /\ level' = l /\ code' = c /\ metrics' = m
                    /\ UNCHANGED answer
  /\ UNCHANGED <<request, target, program, evidence>>

-----------------------------------------------------------------------------
(* L5: the cleanup passes, then the oracle and the judgement.  Whatever    *)
(* throws here leaves the static code and what was assigned before.        *)

Partial(e) == IF level = "L4" /\ e.covered THEN "L4.5" ELSE level

\* The gate again, now about the code that was synthesized.
PostGate(verdict, detached) == [verdict.gate EXCEPT !.detached = detached]

Replaced(m) == [states |-> 0, before |-> 0, cfg |-> FALSE, split |-> None,
                eligible |-> m.eligible]

\* Without a dispatcher or a known format, without a trace that printed, or
\* with an exception on the way to the verdict, the static code is put out.
KeepStatic ==
  /\ at = "L5"
  /\ Finish(level, code, metrics)
  /\ UNCHANGED <<request, target, program, evidence>>

\* The code that was made up: from the graph that was lifted, or the trace.
NewCode(e, refers) ==
  [kind |-> "synthesized", states |-> 0, refers |-> refers /\ program.vm > 0,
   prints |-> IF Verify(e, TRUE).emitted /\ target # "L5-T"
              THEN Prints(Graph(e.mixed.profile)) ELSE None]

\* A verdict on evidence e.  made: the synthesis made code, none ("empty")
\* or threw; refers: what it made names the dispatcher's variable.
JudgeOnce(e, made, refers) ==   \* defect: the second gate is not asked
  LET verdict == Verify(e, TRUE)
      m == [metrics EXCEPT !.eligible = verdict.eligible]
  IN IF verdict.eligible /\ target # "L5-T" /\ made = "code"
     THEN Finish("L5-W", NewCode(e, refers), Replaced(m))
     ELSE Finish(Partial(e), code, m)

Judge(e, made, refers) ==
  LET verdict == Verify(e, TRUE)
      new     == NewCode(e, refers)
      m       == [metrics EXCEPT !.eligible = verdict.eligible]
      vetoed  == [m EXCEPT !.eligible = FALSE]
      judged  == target = "L5-T" \/ verdict.eligible
  IN \/ ~judged /\ Finish(Partial(e), code, m)
     \/ judged /\ made # "code" /\ Finish(level, code, m)
     \/ made = "code" /\ target = "L5-T" /\ Finish("L5-T", new, Replaced(m))
     \/ /\ judged /\ made = "code" /\ target # "L5-T"
        /\ IF FinalEligible(PostGate(verdict, ~new.refers))
           THEN Finish("L5-W", new, Replaced(m))
           ELSE Finish(Partial(e), code, vetoed)

\* A graph that was lifted, and nothing else, always makes code.
Synthesize(e) ==
  /\ at = "L5"
  /\ program.vm > 0 \/ program.detected
  /\ evidence' = e
  /\ \E made \in {"code", "empty", "throws"}, refers \in BOOLEAN :
       /\ Verify(e, TRUE).emitted /\ target # "L5-T" => made = "code"
       /\ Judge(e, made, refers)
  /\ UNCHANGED <<request, target, program>>

Next ==
  \/ \E r \in Requests : Receive(r)
  \/ \E why \in {"SYNTAX_PARSE_FAILURE", "INTERNAL_RECOVERY_EXCEPTION"} : Throw(why)
  \/ FallBack
  \/ ParseInput \/ Normalize \/ RecoverStrings \/ RecoverAliases \/ Separate
  \/ KeepStatic
  \/ \E e \in Evidence : Synthesize(e)

Spec == Init /\ [][Next]_vars

\* None is neither a refusal nor a report on a closure factory.
Assumptions ==
  /\ maxStates \in Nat /\ baselineStates \in Nat
  /\ Evidence \subseteq Findings
  /\ None \notin Failure
  /\ \A e \in Evidence, eligible \in BOOLEAN :
       e.mixed.kind = "factory" => MixedReport(e, eligible) # None

-----------------------------------------------------------------------------
(* Properties.                                                             *)

Levels == <<"L0", "L1", "L2", "L3", "L3.5", "L4", "L4.5", "L5", "L5-T", "L5-W">>

Rank(l) == CHOOSE i \in 1..Len(Levels) : Levels[i] = l

\* A program is replaced as a whole (L5-W) only by code that no longer names
\* the dispatcher's variable, and only when nothing makes the program open,
\* before the transformations or after, and a closure factory, if it is one,
\* was understood: its table does not escape, its captures are not dynamic and
\* its state was seen to change
\* (docs/recovery-levels.md; pipeline.js, FinalAdmissionGate).
EverythingIsProven ==
  level = "L5-W" =>
    /\ ~code.refers
    /\ evidence.walk = {} /\ evidence.env = {} /\ evidence.preEnv = {}
    /\ evidence.mixed.kind = "factory" =>
         LET p == evidence.mixed.profile
         IN p.table /\ p.counter /\ p.invocations > 0 /\ ~p.tampered /\ ~p.dynamic

\* The level names what was done: code made up from a trace is never put out
\* under another name than L5-T, and only to a caller who asked for it; a
\* program keeps its own code at every other level but L5-W; and L4 means
\* that states of the dispatcher were extracted (pipeline.js).
LevelIsEarned ==
  at = "done" /\ answer.ok =>
    /\ code.kind = "synthesized" <=> level \in {"L5-W", "L5-T"}
    /\ level = "L5-T" => request.stage = "L5-T" /\ request.entry = "worker"
    /\ level \in {"L4", "L4.5"} => metrics.split < program.vm

\* The report does not claim more than was done: the states left, from stage
\* L4 on, are those of the code, unless every one of them was extracted and the
\* dispatcher left standing; no protection runtime left means that the code was
\* replaced under proof (recovery-service.js, buildVersionedReport;
\* worker-executor.js).
ReportIsTrue ==
  at = "done" /\ answer.ok =>
    /\ target \notin {"L0", "L1", "L2", "L3"} =>
         answer.after = code.states \/ metrics.split = 0
    /\ ~answer.runtime => level = "L5-W" /\ code.kind = "synthesized"

\* A stage lower than the one asked for is explained, is never above what the
\* preflight recommends, and is never answered with more than it reaches, the
\* runs that overflowed the stack included (docs/native-engine.md:55, "A cap
\* is explicit and never represented as a full L5 recovery").
StageIsExplained ==
  at = "done" /\ answer.ok /\ answer.executed \in StageNames =>
    /\ answer.executed # "L5" => Rank(answer.level) <= Rank(answer.executed)
    /\ request.entry # "service" =>
         /\ answer.executed # answer.requested => answer.warned
         /\ Index(answer.executed) <= Index(recommendStage(request.profile))

\* The oracle can veto, it cannot promote (final-admission-gate.js:20): what
\* the trace printed makes no program eligible that would not be so with a
\* trace that says nothing in particular.
OracleCannotPromote ==
  at = "request" =>
    \A e \in Evidence :
      Verify(e, TRUE).eligible => Verify([e EXCEPT !.shape = "other"], TRUE).eligible

\* A program is replaced on proof, of which the oracle's word is no part.
ReplacementIsProven == EverythingIsProven /\ OracleCannotPromote

\* An answer is true: its level is what was done, its report says no more,
\* and a lower stage than the one asked for is explained.
AnswerIsTrue == LevelIsEarned /\ ReportIsTrue /\ StageIsExplained

\* The report records the stage that was requested (docs/native-engine.md:55,
\* "The result report records the requested, admitted, and executed stages").
RequestedStageIsRecorded ==
  at = "done" /\ answer.ok /\ request.entry = "api" => answer.requested = request.stage

\* What replaces a program prints what the program prints: its own values, not
\* those the analyzer was written with (docs/recovery-levels.md, "hardcoded
\* numeric guesses").
ReplacementSaysTheSame ==
  level = "L5-W" /\ code.prints # None =>
    code.prints = Prints([evidence.mixed.profile.own EXCEPT !.arity = evidence.mixed.profile.widest])

=============================================================================
