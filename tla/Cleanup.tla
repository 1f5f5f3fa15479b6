------------------------------- MODULE Cleanup -------------------------------
(***************************************************************************)
(* The first half of stage L5 and the end of the pipeline: constants are   *)
(* folded (evaluator/constant-evaluator.js) and propagated, dead branches  *)
(* and empty statements dropped (transforms/cleanup.js), each over the     *)
(* whole tree (ast/visitor.js), until nothing changes; then the tree is    *)
(* written as text.  One action per pass.                                  *)
(***************************************************************************)
EXTENDS LuaMeaning

CONSTANTS
  Sources,      \* the programs, as tokens
  maxPasses     \* rounds of the passes (5 in the pipeline)

VARIABLES
  source,    \* the program that was put in
  chunk,     \* its tree
  pass,      \* rounds begun
  step,      \* the pass that is next
  changed,   \* whether this round changed the tree
  text       \* what is put out

cleanupVars == <<source, chunk, pass, step, changed, text>>

Mapped(n, F(_)) ==
  [n EXCEPT !.parts = [i \in DOMAIN @ |-> [j \in DOMAIN @[i] |-> F(@[i][j])]]]

Unread ==
  /\ chunk = Nothing
  /\ pass = 0 /\ step = "parse" /\ changed = TRUE
  /\ text = <<>>

CleanupInit == source \in Sources /\ Unread

ParseSource ==
  /\ step = "parse"
  /\ chunk' = Parse(source)
  /\ step' = IF chunk' = Nothing THEN "done" ELSE "round"
  /\ UNCHANGED <<source, pass, changed, text>>

-----------------------------------------------------------------------------
(* The evaluator.  The node itself is what it gives for null.               *)

NumberNode(n) == Node("NumericLiteral", ToString(n), <<>>)

BooleanNode(b) == Node("BooleanLiteral", IF b THEN "true" ELSE "false", <<>>)

EvalUnary(n) ==
  LET arg == n.parts[1][1]
  IN CASE n.label = "-" /\ Is(arg, {"NumericLiteral"}) -> NumberNode(-NumberOf[arg.label])
       [] n.label = "not" /\ Is(arg, {"BooleanLiteral"}) -> BooleanNode(arg.label = "false")
       [] n.label = "not" /\ Is(arg, {"NilLiteral"}) -> BooleanNode(TRUE)
       [] n.label = "not"
          /\ Is(arg, {"NumericLiteral", "StringLiteral", "TableConstructor"}) ->
            BooleanNode(FALSE)
       [] n.label = "#" /\ Is(arg, {"StringLiteral"}) -> NumberNode(LengthOf(arg.label))
       [] OTHER -> n

\* Two numbers.  A quotient or a power that is no integer is out of the model.
EvalNumbers(n, l, r) ==
  CASE n.label \in {"+", "-", "*"} -> NumberNode(Calculated(n.label, l, r))
    [] n.label = "/" /\ r # 0 /\ Modulo(l, r) = 0 -> NumberNode(Divide(l, r))
    [] n.label = "%" /\ r # 0 -> NumberNode(Modulo(l, r))
    [] n.label = "^" /\ (r >= 0 \/ l \in {-1, 1}) -> NumberNode(Power(l, r))
    [] n.label \in {"<", "<=", ">", ">="} -> BooleanNode(Compared(n.label, l, r))
    [] n.label = "==" -> BooleanNode(l = r)
    [] n.label = "~=" -> BooleanNode(l # r)
    [] OTHER -> n

\* Two literals, not both numbers, between == and ~=.
EvalEquality(n, left, right) ==
  LET types == {left.type, right.type}
      isEq  == n.label = "=="
  IN CASE Cardinality(types) = 1 /\ types \subseteq Literals ->
            BooleanNode(isEq <=> left.label = right.label)
       [] types \in {{"NilLiteral", t} : t \in Literals}
                    \cup {{"NumericLiteral", "StringLiteral"},
                          {"BooleanLiteral", "NumericLiteral"}} -> BooleanNode(~isEq)
       [] OTHER -> n

EvalBinary(n) ==
  LET left  == n.parts[1][1]
      right == n.parts[2][1]
  IN CASE Is(left, {"NumericLiteral"}) /\ Is(right, {"NumericLiteral"}) ->
            EvalNumbers(n, NumberOf[left.label], NumberOf[right.label])
       [] n.label = ".." /\ Is(left, {"StringLiteral"}) /\ Is(right, {"StringLiteral"}) ->
            Node("StringLiteral",
                 StringWords[LengthOf(left.label) + LengthOf(right.label) + 1], <<>>)
       [] n.label \in {"==", "~="} -> EvalEquality(n, left, right)
       [] OTHER -> n

StaticallyTruthy(n) ==
  \/ n.type = "BooleanLiteral" /\ n.label = "true"
  \/ Is(n, {"NumericLiteral", "StringLiteral", "TableConstructor", "FunctionExpression"})

StaticallyFalsy(n) ==
  n.type = "NilLiteral" \/ (n.type = "BooleanLiteral" /\ n.label = "false")

EvalLogical(n) ==
  LET left  == n.parts[1][1]
      right == n.parts[2][1]
  IN CASE StaticallyTruthy(left) -> IF n.label = "and" THEN right ELSE left
       [] StaticallyFalsy(left)  -> IF n.label = "and" THEN left ELSE right
       [] OTHER -> n

TryEvaluate(n) ==
  CASE n.type = "UnaryExpression"   -> EvalUnary(n)
    [] n.type = "BinaryExpression"  -> EvalBinary(n)
    [] n.type = "LogicalExpression" -> EvalLogical(n)
    [] OTHER -> n

RECURSIVE Folded(_)
Folded(n) == TryEvaluate(Mapped(n, LAMBDA c : Folded(c)))

-----------------------------------------------------------------------------
(* The passes.                                                             *)

\* The groups of a node that are a body, where a clause of an if statement has
\* one too and what follows "else" is none.
Bodies(n) ==
  CASE n.type \in {"Chunk", "DoStatement", "RepeatStatement"} -> {1}
    [] n.type \in {"WhileStatement", "FunctionExpression"} -> {2}
    [] n.type \in {"NumericForStatement", "GenericForStatement", "LocalFunctionStatement",
                   "FunctionDeclaration"} -> {3}
    [] n.type = "IfStatement" -> {i \in DOMAIN n.parts : i % 2 = 0}
    [] OTHER -> {}

\* The literals the local statements of a body give to names, the last for
\* each.
Given(body) ==
  LET Noted(consts, n, i) ==
        IF i <= Len(n.parts[2]) /\ Is(n.parts[2][i], Literals)
        THEN (n.parts[1][i].label :> n.parts[2][i]) @@ consts ELSE consts
  IN FoldLeft(LAMBDA consts, n :
       IF n.type # "LocalStatement" THEN consts
       ELSE FoldLeft(LAMBDA c, i : Noted(c, n, i), consts, [i \in DOMAIN n.parts[1] |-> i]),
       <<>>, body)

\* Of these, the ones that no assignment of the same body sets.
ConstantsEver(body) == Given(body)   \* defect: assignments are not looked at

Constants(body) ==
  LET reassigned == UNION {{NameOf(v) : v \in ToSet(n.parts[1])} :
                             n \in {m \in ToSet(body) : m.type = "AssignmentStatement"}}
      kept == DOMAIN Given(body) \ reassigned
  IN [x \in kept |-> Given(body)[x]]

\* Where an identifier stays: what a local statement lists, what is assigned
\* to, and the name of a member.
Stays(parent, group) ==
  \/ parent.type = "LocalStatement"
  \/ parent.type = "AssignmentStatement" /\ group = 1
  \/ parent.type = "MemberExpression" /\ group = 2

RECURSIVE Substituted(_, _)
Substituted(n, consts) ==
  [n EXCEPT !.parts =
     [i \in DOMAIN @ |-> [j \in DOMAIN @[i] |->
        LET c == Substituted(@[i][j], consts)
        IN IF c.type = "Identifier" /\ c.label \in DOMAIN consts /\ ~Stays(n, i)
           THEN consts[c.label] ELSE c]]]

\* Blocks from the outside in.
RECURSIVE Propagated(_)
Propagated(n) ==
  LET Inside(i) ==
        IF i \notin Bodies(n) THEN n.parts[i]
        ELSE LET consts == Constants(n.parts[i])
             IN IF DOMAIN consts = {} THEN n.parts[i]
                ELSE [j \in DOMAIN n.parts[i] |-> Substituted(n.parts[i][j], consts)]
  IN Mapped([n EXCEPT !.parts = [i \in DOMAIN @ |-> Inside(i)]], LAMBDA c : Propagated(c))

Empty == Node("EmptyStatement", "", <<>>)

\* What an if statement with its first condition decided becomes.
DecidedWithoutElse(n) ==   \* defect: what else would run is dropped
  LET test == n.parts[1][1]
  IN CASE test.type = "BooleanLiteral" /\ test.label = "true"  -> n.parts[2]
       [] test.type = "BooleanLiteral" /\ test.label = "false" -> <<Empty>>
       [] OTHER -> <<n>>

Decided(n) ==
  LET test == n.parts[1][1]
  IN CASE test.type = "BooleanLiteral" /\ test.label = "true"  -> n.parts[2]
       [] test.type = "BooleanLiteral" /\ test.label = "false" ->
            IF Len(n.parts) > 3 THEN <<[n EXCEPT !.parts = SubSeq(@, 3, Len(@))]>>
            ELSE IF Len(n.parts) = 3 /\ n.parts[3] # <<>> THEN n.parts[3] ELSE <<Empty>>
       [] OTHER -> <<n>>

\* Inside out; what several statements replace, they are spliced into.
RECURSIVE Pruned(_)
Pruned(n) ==
  LET inner == [n EXCEPT !.parts = [i \in DOMAIN @ |->
                  FoldLeft(LAMBDA all, c : all \o Pruned(c), <<>>, @[i])]]
  IN IF n.type = "IfStatement" THEN Decided(inner) ELSE <<inner>>

IsEmpty(n) == n = Empty \/ (n.type = "DoStatement" /\ n.parts[1] = <<>>)

\* A clause of an if statement is no node of its own and keeps its own.
RECURSIVE Emptied(_)
Emptied(n) ==
  LET inner == Mapped(n, LAMBDA c : Emptied(c))
  IN [inner EXCEPT !.parts = [i \in DOMAIN @ |->
        IF i \in Bodies(n) /\ n.type # "IfStatement"
        THEN SelectSeq(@[i], LAMBDA c : ~IsEmpty(c)) ELSE @[i]]]

-----------------------------------------------------------------------------
(* CleanupPasses.run, and finish.                                          *)

BeginRound ==
  /\ step = "round"
  /\ IF changed /\ pass < maxPasses
     THEN pass' = pass + 1 /\ changed' = FALSE /\ step' = "propagate"
     ELSE step' = "generate" /\ UNCHANGED <<pass, changed>>
  /\ UNCHANGED <<source, chunk, text>>

Pass(from, to, tree) ==
  /\ step = from
  /\ chunk' = tree
  /\ changed' = (changed \/ tree # chunk)
  /\ step' = to
  /\ UNCHANGED <<source, pass, text>>

PropagateLocalConstants == Pass("propagate", "fold", Propagated(chunk))

FoldConstants == Pass("fold", "branches", Folded(chunk))

EliminateDeadBranches == Pass("branches", "empty", Pruned(chunk)[1])

EliminateEmptyBlocks == Pass("empty", "round", Emptied(chunk))

PutOut ==
  /\ step = "generate"
  /\ text' = Tokens(Generate(chunk))
  /\ step' = "done"
  /\ UNCHANGED <<source, chunk, pass, changed>>

CleanUp ==
  \/ BeginRound
  \/ PropagateLocalConstants \/ FoldConstants
  \/ EliminateDeadBranches \/ EliminateEmptyBlocks
  \/ PutOut

CleanupNext == ParseSource \/ CleanUp

CleanupSpec == CleanupInit /\ [][CleanupNext]_cleanupVars

-----------------------------------------------------------------------------
(* What the text must keep.                                                *)

RECURSIVE Nodes(_)
Nodes(n) ==
  {n} \cup UNION {UNION {Nodes(c) : c \in ToSet(n.parts[i])} : i \in DOMAIN n.parts}

Calls == {"CallExpression", "MethodCallExpression"}

\* A tree up to what means nothing: parentheses but around a list of values,
\* empty statements, an empty "else", and -1 as a number or as a minus.
RECURSIVE Plain(_)
Plain(n) ==
  LET inner == Mapped(n, LAMBDA c : Plain(c))
      full  == [inner EXCEPT !.paren = @ /\ n.type \in Calls \cup {"VarargLiteral"},
                  !.parts = [i \in DOMAIN @ |-> SelectSeq(@[i], LAMBDA c : c # Empty)]]
      count == Len(full.parts)
  IN CASE n.type = "NumericLiteral" /\ NumberOf[n.label] < 0 ->
            Node("UnaryExpression", "-", <<<<NumberNode(-NumberOf[n.label])>>>>)
       [] n.type = "IfStatement" /\ count % 2 = 1 /\ full.parts[count] = <<>> ->
            [full EXCEPT !.parts = Front(@)]
       [] OTHER -> full

\* Names that are written by their name: parameters, loop variables, the names
\* of functions, methods and fields.
Binders(n) ==
  CASE n.type \in {"LocalFunctionStatement", "FunctionDeclaration"} ->
         {n.parts[1][1]} \cup ToSet(n.parts[2])
    [] n.type \in {"FunctionExpression", "NumericForStatement", "GenericForStatement",
                   "TableKeyString"} -> ToSet(n.parts[1])
    [] n.type = "MethodCallExpression" -> ToSet(n.parts[2])
    [] OTHER -> {}

\* Statements a and b that the text runs together: b after a bare return, or
\* beginning with a parenthesis after an expression.
RunTogether(a, b) ==
  \/ a.type = "ReturnStatement" /\ a.parts[1] = <<>>
  \/ /\ a.type \in {"LocalStatement", "AssignmentStatement", "CallStatement",
                     "ReturnStatement", "RepeatStatement"}
     /\ Last(a.parts) # <<>>
     /\ Written(b)[1] = "("

\* What the generator cannot write so that it is read as it was.
Unwritable(n) ==
  LET base(types) == n.parts[1][1].type \in types
  IN \/ /\ <<n.type, n.label>> \in {<<"UnaryExpression", "-">>, <<"BinaryExpression", "^">>}
        /\ Text(n.parts[1][1], IF n.label = "-" THEN 70 ELSE 81)[1] = "-"
     \/ /\ n.type \in Calls \cup {"MemberExpression", "IndexExpression"}
        /\ base(Literals \cup {"TableConstructor"})
     \/ n.type = "BinaryExpression" /\ BinaryPrecedence(n.label) = 0
     \/ n.type \in Calls /\ n.paren
     \/ n.type = "MemberExpression" /\ n.label = ":"
     \/ \E b \in Binders(n) : b.type \notin {"Identifier", "MemberExpression"}
     \/ \E i \in Bodies(n) \cup (IF n.type = "IfStatement" THEN DOMAIN n.parts ELSE {}) :
          LET body == SelectSeq(n.parts[i], LAMBDA c : c # Empty)
          IN \E j \in 1..(Len(body) - 1) : RunTogether(body[j], body[j + 1])

\* The text that is put out is read as the tree it was written from, with its
\* precedence, its calls, its blocks and their order (lua-generator.js:202-372
\* against parser.js), but for the forms the generator has no text for: a
\* minus before a minus or before a power, a literal that is called or
\* indexed, an operator that is none, a call in parentheses, a method that is
\* declared, a name that propagation made a literal, and statements that run
\* together.
TextIsTheTree ==
  step = "done" /\ chunk # Nothing /\ (\A n \in Nodes(chunk) : ~Unwritable(n)) =>
    Plain(Parse(text)) = Plain(chunk)

-----------------------------------------------------------------------------
(* What a pass must keep.                                                  *)

\* Whether something happens when an expression is evaluated.
Acts(n) ==
  \E c \in Nodes(n) : c.type \in Calls \cup {"MemberExpression", "IndexExpression",
                                            "BinaryExpression", "UnaryExpression"}

\* Folding decides an operand that acts, or puts in the place of one value the
\* several of a call.
FoldingLoses(n) ==
  LET inner == Mapped(n, LAMBDA c : Folded(c))
      found == TryEvaluate(inner)
  IN /\ n.type \in {"UnaryExpression", "LogicalExpression"}
     /\ found # inner
     /\ \/ inner.parts[1][1].type = "TableConstructor" /\ Acts(inner.parts[1][1])
        \/ found.type \in Calls \cup {"VarargLiteral"} /\ ~found.paren

\* A name of a body that stands for more than its literal where it is used: it
\* is bound or set elsewhere, is the name of a field, or comes before.
Shared(name, body) ==
  LET all == UNION {Nodes(n) : n \in ToSet(body)} \cup Nodes(chunk)
      declares == {n \in all : n.type = "LocalStatement"
                                /\ \E v \in ToSet(n.parts[1]) : v.label = name}
  IN \/ Cardinality(declares) > 1
     \/ \E n \in all : \/ \E b \in Binders(n) : NameOf(b) = name
                       \/ /\ n.type = "AssignmentStatement" /\ n \notin ToSet(body)
                          /\ \E v \in ToSet(n.parts[1]) : NameOf(v) = name
     \/ \E i, j \in DOMAIN body : /\ i < j /\ body[j] \in declares
                                  /\ \E c \in Nodes(body[i]) : NameOf(c) = name

PropagationLoses(n) ==
  \E i \in Bodies(n) : \E name \in DOMAIN Constants(n.parts[i]) : Shared(name, n.parts[i])

\* What is spliced into a block declares a name there.
PruningLoses(n) ==
  n.type = "IfStatement" /\ Decided(n) # <<n>>
    /\ \E c \in ToSet(Decided(n)) : c.type \in {"LocalStatement", "LocalFunctionStatement"}

Loses(n) ==
  CASE step = "propagate" -> PropagationLoses(n)
    [] step = "fold"      -> FoldingLoses(n)
    [] step = "branches"  -> PruningLoses(n)
    [] OTHER              -> FALSE

\* A pass leaves what the program does as it is: calls and their order,
\* arguments, what is returned, errors (cleanup.js:62-194,
\* constant-evaluator.js:57-240).  It may lose it where a table whose making
\* acts is a condition, where a call takes the place of one value, where a
\* name is bound, set or used in a way the flat search for constants does not
\* see, and where a branch that declares locals is spliced.
MeaningStays ==
  step \in {"propagate", "fold", "branches", "empty"} /\ chunk' # chunk
    /\ (\A n \in Nodes(chunk) : ~Loses(n)) =>
  Meaning(chunk') = Meaning(chunk)

PassesKeepMeaning == [][MeaningStays]_cleanupVars

\* A program that comes out of the passes does what it did, as
\* docs/recovery-levels.md:15 has it ("dead branches pruned ... Preserved
\* semantics").
MeaningIsKept ==
  step = "done" /\ chunk # Nothing =>
    Cardinality({Meaning(Parse(words)) : words \in {source, text}}) = 1
=============================================================================
