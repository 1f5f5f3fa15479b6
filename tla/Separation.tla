----------------------------- MODULE Separation -----------------------------
(***************************************************************************)
(* Stage L4: functions are separated from the dispatcher they share.       *)
(*                                                                         *)
(* A protected program is one loop over a state variable.  A tree of       *)
(* comparisons leads to the block of the state, which does something, may  *)
(* make a closure (a helper is called with the state the closure begins    *)
(* at) and sets the state variable.  The analyzers read a flow graph off   *)
(* the tree (cfg/dispatcher.js, cfg/cfg.js), find the states functions may *)
(* begin at (dispatcher-entry-analyzer.js, closure-analyzer.js) and follow *)
(* each through the graph (cfg/multi-entry-cfg.js).  The transformation    *)
(* (closure-splitter.js) writes each function as structured code, puts it  *)
(* where its closure was made, and prunes the tree                         *)
(* (residual-dispatcher.js).                                               *)
(*                                                                         *)
(* The module runs that once, on every program over a few states, and says *)
(* what a program does before and after: the sequence of its effects, for  *)
(* given outcomes of the tests on the way.                                 *)
(***************************************************************************)
EXTENDS Naturals, Sequences, FiniteSets, SequencesExt

CONSTANTS
  States,        \* the states of the dispatcher, an interval 1..n
  Programs,      \* the programs: root and blocks
  maxRebuilt,    \* functions of more states are not rebuilt (40 in the code)
  maxSteps,      \* bound: blocks a comparison of two runs looks at
  Nothing

VARIABLES
  program,   \* [root: the state it begins at, block: State -> Block]
  stage,     \* what has been done
  reach,     \* entry -> the states its function reaches
  bodies,    \* entry -> the code it is rebuilt as, for those that are
  tree,      \* the search tree of the dispatcher
  original   \* the tree before it is pruned

vars == <<program, stage, reach, bodies, tree, original>>

-----------------------------------------------------------------------------
(* Programs.  A block is [makes, next]: the state a closure it makes begins *)
(* at, or Nothing, and where it goes: "goto" a state, "branch" on a test,   *)
(* "dynamic" (computed, to a state nobody can read off), or "exit".         *)

Leaf(s) == [leaf |-> s, whole |-> TRUE]

Node(at, low, high) == [at |-> at, low |-> low, high |-> high]

IsLeaf(t) == "leaf" \in DOMAIN t

\* if state < at then low else high, over lo..hi.
RECURSIVE Trees(_, _)
Trees(lo, hi) ==
  IF lo = hi THEN {Leaf(lo)}
  ELSE UNION {{Node(at, l, h) : l \in Trees(lo, at - 1), h \in Trees(at, hi)} :
                at \in (lo + 1)..hi}

RECURSIVE Lookup(_, _)
Lookup(t, s) ==
  IF IsLeaf(t) THEN t ELSE IF s < t.at THEN Lookup(t.low, s) ELSE Lookup(t.high, s)

Init ==
  /\ program \in Programs
  /\ tree \in Trees(1, Cardinality(States))
  /\ original = tree
  /\ stage = "discover"
  /\ reach = <<>> /\ bodies = <<>>

-----------------------------------------------------------------------------
(* The flow graph: an edge per transition that is a number in the code.     *)

Edges(p) ==
  UNION {LET n == p.block[s].next IN
         CASE n.kind = "goto"   -> {[from |-> s, to |-> n.to, type |-> "UNCONDITIONAL"]}
           [] n.kind = "branch" -> {[from |-> s, to |-> n.yes, type |-> "CONDITIONAL_TRUE"],
                                    [from |-> s, to |-> n.no, type |-> "CONDITIONAL_FALSE"]}
           [] OTHER             -> {} : s \in States}

Successors(p, s) == {e.to : e \in {d \in Edges(p) : d.from = s}}

Predecessors(p, s) == {e.from : e \in {d \in Edges(p) : d.to = s}}

\* The states the calls of closure helpers name.
Constructed(p) == {p.block[s].makes : s \in States} \ {Nothing}

\* The states a function may begin at: the root call's, those of closures,
\* and every number the state variable is set to on its own.
Entries(p) ==
  {p.root} \cup Constructed(p)
  \cup {p.block[s].next.to : s \in {x \in States : p.block[x].next.kind = "goto"}}

\* The worklist of MultiEntryCFGAnalyzer.analyze.
RECURSIVE Follow(_, _, _)
Follow(p, worklist, visited) ==
  IF worklist = <<>> THEN visited
  ELSE LET s == Head(worklist) IN
       IF s \in visited THEN Follow(p, Tail(worklist), visited)
       ELSE Follow(p, Tail(worklist) \o SetToSeq(Successors(p, s)), visited \cup {s})

Discover ==
  /\ stage = "discover"
  /\ reach' = [e \in Entries(program) |-> Follow(program, <<e>>, {})]
  /\ stage' = "rebuild"
  /\ UNCHANGED <<program, bodies, tree, original>>

Owners(s) == {e \in DOMAIN reach : s \in reach[e]}

Classified(class) ==
  {s \in States : CASE class = "EXCLUSIVE"  -> Cardinality(Owners(s)) = 1
                    [] class = "SHARED"     -> Cardinality(Owners(s)) > 1
                    [] class = "UNRESOLVED" -> Owners(s) = {}}

-----------------------------------------------------------------------------
(* Dominators and loops of a function, as the analyzer computes them.       *)

\* One round over the states of the function.
Round(p, e, dom) ==
  FoldSeq(LAMBDA s, d :
    LET preds == Predecessors(p, s) \cap reach[e] IN
    IF s = e \/ preds = {} THEN d
    ELSE [d EXCEPT ![s] = {s} \cup {x \in reach[e] : \A q \in preds : x \in d[q]}],
    dom, SetToSeq(reach[e]))

RECURSIVE Rounds(_, _, _)
Rounds(p, e, dom) ==
  IF Round(p, e, dom) = dom THEN dom ELSE Rounds(p, e, Round(p, e, dom))

DominatorsOnce(p, e) ==   \* defect: what a later state changes is not seen
  Round(p, e, [s \in reach[e] |-> IF s = e THEN {e} ELSE reach[e]])

Dominators(p, e) ==
  Rounds(p, e, [s \in reach[e] |-> IF s = e THEN {e} ELSE reach[e]])

\* A dominator that dominates no other one.
ImmediateDominators(p, e) ==
  LET dom == Dominators(p, e) IN
  [s \in reach[e] \ {e} |->
     {d \in dom[s] \ {s} : \A other \in dom[s] \ {s, d} : d \notin dom[other]}]

\* Tarjan's components; k: the numbers given, low: the links, stack, and the
\* components found, those of one state only if it leads to itself.
RECURSIVE Connect(_, _, _, _), ConnectAll(_, _, _, _)
Connect(p, e, s, k) ==
  LET n     == Cardinality(DOMAIN k.index)
      begun == [k EXCEPT !.index = (s :> n) @@ @, !.low = (s :> n) @@ @,
                         !.stack = Append(@, s)]
      all   == ConnectAll(p, e, <<s, SetToSeq(Successors(p, s) \cap reach[e])>>, begun)
      from  == CHOOSE i \in 1..Len(all.stack) : all.stack[i] = s
      part  == {all.stack[i] : i \in from..Len(all.stack)}
  IN IF all.low[s] # all.index[s] THEN all
     ELSE [all EXCEPT !.stack = SubSeq(@, 1, from - 1),
                      !.found = IF Cardinality(part) > 1 \/ s \in Successors(p, s)
                                THEN @ \cup {part} ELSE @]

\* The successors of at[1] that are listed in at[2], in turn.
ConnectAll(p, e, at, k) ==
  IF at[2] = <<>> THEN k
  ELSE LET s    == at[1]
           t    == Head(at[2])
           Lower(r, v) == [r EXCEPT !.low[s] = IF v < @ THEN v ELSE @]
           next == IF t \notin DOMAIN k.index
                   THEN LET r == Connect(p, e, t, k) IN Lower(r, r.low[t])
                   ELSE IF t \in ToSet(k.stack) THEN Lower(k, k.index[t]) ELSE k
       IN ConnectAll(p, e, <<s, Tail(at[2])>>, next)

Components(p, e) ==
  FoldSeq(LAMBDA s, k : IF s \in DOMAIN k.index THEN k ELSE Connect(p, e, s, k),
          [index |-> <<>>, low |-> <<>>, stack |-> <<>>, found |-> {}],
          SetToSeq(reach[e])).found

-----------------------------------------------------------------------------
(* The code a function is rebuilt as: blocks that run one after the other,  *)
(* and then nothing or a test with the code of either outcome.              *)

Code(run, cases) == [run |-> run, cases |-> cases]

RECURSIVE WalkStraight(_, _, _)
WalkStraight(p, s, visited) ==   \* defect: the test goes with the assignment
  LET next == p.block[s].next
  IN IF s \in visited THEN [code |-> Code(<<>>, <<>>), visited |-> visited]
     ELSE IF next.kind \in {"exit", "dynamic"}
     THEN [code |-> Code(<<s>>, <<>>), visited |-> visited \cup {s}]
     ELSE LET rest == WalkStraight(p, IF next.kind = "goto" THEN next.to ELSE next.yes,
                                   visited \cup {s})
          IN [rest EXCEPT !.code.run = <<s>> \o @]

\* The walk of reconstructFunctionBody: a block is written where it is first
\* met, and nothing stands for it anywhere else.
RECURSIVE Walk(_, _, _)
Walk(p, s, visited) ==
  LET next == p.block[s].next
      seen == visited \cup {s}
  IN
  CASE s \in visited -> [code |-> Code(<<>>, <<>>), visited |-> visited]
    [] s \notin visited /\ next.kind = "goto" ->
         LET rest == Walk(p, next.to, seen)
         IN [rest EXCEPT !.code.run = <<s>> \o @]
    [] s \notin visited /\ next.kind = "branch" ->
         LET yes == Walk(p, next.yes, seen)
             no  == Walk(p, next.no, yes.visited)
         IN [code |-> Code(<<s>>, <<yes.code, no.code>>), visited |-> no.visited]
    [] OTHER -> [code |-> Code(<<s>>, <<>>), visited |-> seen]

Rebuild ==
  /\ stage = "rebuild"
  /\ bodies' = [e \in {x \in DOMAIN reach : Cardinality(reach[x]) <= maxRebuilt} |->
                  Walk(program, e, {}).code]
  /\ stage' = "compress"
  /\ UNCHANGED <<program, reach, tree, original>>

-----------------------------------------------------------------------------
(* The dispatcher that is left.                                             *)

ExtractableUnchecked == Classified("EXCLUSIVE")   \* defect: whoever leads to them

\* States of one function that no state of no function or of several leads to.
Extractable ==
  {s \in Classified("EXCLUSIVE") : Predecessors(program, s) \subseteq Classified("EXCLUSIVE")}

\* pruneTree.  Where one side of a comparison goes, the other takes its place,
\* a block with its first statement alone: prunedElse[0].
RECURSIVE Prune(_, _)
Prune(t, gone) ==
  IF IsLeaf(t) THEN IF t.leaf \in gone THEN Nothing ELSE t
  ELSE LET low       == Prune(t.low, gone)
           high      == Prune(t.high, gone)
           Only(sub) == IF IsLeaf(sub) THEN [sub EXCEPT !.whole = FALSE] ELSE sub
       IN CASE low = Nothing /\ high = Nothing -> Nothing
            [] low = Nothing /\ high # Nothing -> Only(high)
            [] low # Nothing /\ high = Nothing -> Only(low)
            [] OTHER -> Node(t.at, low, high)

\* A tree of which nothing is left is kept as it was.
Compress ==
  /\ stage = "compress"
  /\ LET pruned == Prune(tree, Extractable)
     IN tree' = IF pruned = Nothing THEN tree ELSE pruned
  /\ stage' = "done"
  /\ UNCHANGED <<program, reach, bodies, original>>

RECURSIVE Leaves(_)
Leaves(t) == IF IsLeaf(t) THEN {t} ELSE Leaves(t.low) \cup Leaves(t.high)

\* The rewriting of the calls that make closures: what becomes of the one at
\* `site` (Main or a block) for the function that begins at e.  It looks at
\* the code that is still there, so at no block that was pruned.
Main == 0

Rewired(site, e) ==
  /\ e \in DOMAIN bodies
  /\ site = Main \/ \E l \in Leaves(tree) : l.leaf = site /\ l.whole

Next == Discover \/ Rebuild \/ Compress

Spec == Init /\ [][Next]_vars

-----------------------------------------------------------------------------
(* What a program does: the blocks it runs, for given outcomes of the tests *)
(* on the way, and "end" when it ends within maxSteps blocks.               *)

End == 0

Outcomes == [1..maxSteps -> BOOLEAN]

\* The dispatcher with tree t, from state q, when k tests have been made.  Of
\* a block that was cut, the assignment of the next state is gone.
RECURSIVE Dispatched(_, _, _, _, _)
Dispatched(t, q, outcome, k, left) ==
  LET leaf == Lookup(t, q)
      next == program.block[leaf.leaf].next
      From(x, n) == <<leaf.leaf>> \o Dispatched(t, x, outcome, n, left - 1)
  IN
  CASE left = 0            -> <<>>
    [] left > 0 /\ ~leaf.whole -> From(q, k)
    [] OTHER ->
  CASE next.kind = "exit"   -> <<leaf.leaf, End>>
    [] next.kind = "branch" -> From(IF outcome[k + 1] THEN next.yes ELSE next.no, k + 1)
    [] OTHER                -> From(next.to, k)

\* Code that was rebuilt.
RECURSIVE Executed(_, _, _)
Executed(code, outcome, k) ==
  IF code.cases = <<>> THEN code.run \o <<End>>
  ELSE code.run \o Executed(code.cases[IF outcome[k + 1] THEN 1 ELSE 2], outcome, k + 1)

Trace(events) ==
  SubSeq(events, 1, IF Len(events) <= maxSteps THEN Len(events) ELSE maxSteps)

Before(e, outcome) == Trace(Dispatched(original, e, outcome, 0, maxSteps))

Rebuilt(e, outcome) == Trace(Executed(bodies[e], outcome, 0))

\* What the function that begins at e, made at `site`, does now.
After(site, e, outcome) ==
  IF Rewired(site, e) THEN Rebuilt(e, outcome)
  ELSE Trace(Dispatched(tree, e, outcome, 0, maxSteps))

-----------------------------------------------------------------------------
\* The states reached from s along paths that keep out of `avoid`: they are in
\* every set that holds s and all successors of its members.
Reached(s, avoid) ==
  LET closed == {c \in SUBSET (States \ avoid) :
                   /\ s \in c
                   /\ \A y \in c : Successors(program, y) \ avoid \subseteq c}
  IN {x \in States \ avoid : closed # {} /\ \A c \in closed : x \in c}

Dominates(e, d, s) == s \notin Reached(e, {d})

\* The analyses compute what they are named for: a state is owned by the
\* functions whose entries lead to it, the dominators of a state are the
\* states on every path to it, its immediate dominator is the one all others
\* dominate, and the components are the sets of states that lead to one
\* another (multi-entry-cfg.js).
AnalysesAreExact ==
  stage = "rebuild" =>
    /\ \A e \in DOMAIN reach : reach[e] = Reached(e, {})
    /\ \A e \in DOMAIN reach :
         LET dom    == Dominators(program, e)
             idom   == ImmediateDominators(program, e)
             Mutual(s) == {x \in Reached(s, {}) : s \in Reached(x, {})}
         IN
         /\ \A s \in reach[e] : dom[s] = {d \in reach[e] : Dominates(e, d, s)}
         /\ \A s \in reach[e] \ {e} :
              idom[s] = {d \in dom[s] \ {s} : \A o \in dom[s] \ {s} : o \in dom[d]}
         /\ Components(program, e) =
              {Mutual(s) : s \in {x \in reach[e] : \/ Mutual(x) # {x}
                                                   \/ x \in Successors(program, x)}}

\* A function in which every state is reached in one way only, and whose
\* states all go on by numbers, does as rebuilt what it did.
PlainTree(e) ==
  /\ Predecessors(program, e) \cap reach[e] = {}
  /\ \A s \in reach[e] :
       /\ Cardinality({d \in Edges(program) : d.to = s /\ d.from \in reach[e]}) <= 1
       /\ program.block[s].next.kind # "dynamic"

TreeFunctionsAreKept ==
  stage = "compress" =>
    \A e \in DOMAIN bodies :
      PlainTree(e) => \A o \in Outcomes : Rebuilt(e, o) = Before(e, o)

\* A state that no function or more than one needs stays in the dispatcher
\* and is still found under its number, and so does every state it is left
\* for by a number.
SharedStatesStay ==
  stage = "done" =>
    \A s \in Classified("SHARED") \cup Classified("UNRESOLVED") :
      \A x \in {s} \cup Successors(program, s) : Lookup(tree, x).leaf = x

\* What is taken out does what it did, and what stays is found.
PartsAreKept == TreeFunctionsAreKept /\ SharedStatesStay

\* States the program may come to, computed transitions and closures included.
RECURSIVE Live(_)
Live(found) ==
  LET Goes(s) == Successors(program, s)
                 \cup (IF program.block[s].next.kind = "dynamic"
                       THEN {program.block[s].next.to} ELSE {})
                 \cup ({program.block[s].makes} \ {Nothing})
      more == found \cup UNION {Goes(s) : s \in found}
  IN IF more = found THEN found ELSE Live(more)

\* What docs/recovery-levels.md promises of level L4 ("unresolvable transitions
\* preserved", "zero silent corruption"): the program does what it did.
NothingIsLost ==
  stage = "done" =>
    \A o \in Outcomes :
      /\ After(Main, program.root, o) = Before(program.root, o)
      /\ \A s \in Live({program.root}) :
           LET e == program.block[s].makes
           IN e # Nothing => After(s, e, o) = Before(e, o)
=============================================================================
