---------------------------- MODULE Environment ----------------------------
(***************************************************************************)
(* EnvironmentAccessAnalyzer (analysis/environment-access-analyzer.js):    *)
(* what a program looks up in the global environment, by name or through   *)
(* the table it was handed, and whether the program is closed.  The two    *)
(* walks of the code, for what is written and what is read, take the same  *)
(* way through the tree, and each folds in place the keys and values it    *)
(* has to know: Walk gives what it comes by and the tree it leaves.        *)
(*                                                                         *)
(* A node that the code knows again by its identity, wherever folding      *)
(* moves it, has a role: the function that is handed the environment, and  *)
(* the argument that hands it over.                                        *)
(***************************************************************************)
EXTENDS Cleanup

CONSTANTS
  Readings,       \* the programs, as tokens
  accessorName,   \* the function that an adapter found to decode strings,
  stringTable     \* and the strings it gives

VARIABLES
  vmEnv,     \* the parameter that is handed the environment, if any
  found,     \* what is declared and written
  report,    \* what is looked up, and whether the program is closed
  parsed     \* history: the tree before the analysis

environmentVars == <<cleanupVars, vmEnv, found, report, parsed>>

SafeBuiltins ==
  {"assert", "collectgarbage", "error", "getmetatable", "ipairs", "next", "pairs",
   "pcall", "print", "rawequal", "rawget", "rawset", "select", "setmetatable",
   "tonumber", "tostring", "type", "unpack", "xpcall", "_VERSION", "coroutine",
   "table", "string", "math", "os", "io", "debug", "bit", "bit32", "warn", "newproxy"}

DynamicBuiltins == {"setfenv", "getfenv", "load", "loadstring", "loadfile", "dofile"}

NamesOf(nodes) == {NameOf(n) : n \in ToSet(nodes)}

ParametersOf(n) ==
  CASE n.type = "FunctionExpression" -> NamesOf(n.parts[1])
    [] n.type \in {"LocalFunctionStatement", "FunctionDeclaration"} -> NamesOf(n.parts[2])
    [] OTHER -> {}

LoopVariables(n) ==
  IF Is(n, {"NumericForStatement", "GenericForStatement"}) THEN NamesOf(n.parts[1])
  ELSE {}

Declares(n) ==
  IF Is(n, {"LocalStatement", "LocalFunctionStatement"}) THEN NamesOf(n.parts[1]) ELSE {}

-----------------------------------------------------------------------------
(* The table of the globals: who is handed it, and what is a key of it.    *)

Indexes(s) == [i \in DOMAIN s |-> i]

\* All nodes with their places, a node before what is in it.
RECURSIVE Placed(_, _)
Placed(n, path) ==
  LET Member_(i, j) == Placed(n.parts[i][j], Append(path, <<i, j>>))
      Group(i) == FoldLeft(LAMBDA all, j : all \o Member_(i, j), <<>>, Indexes(n.parts[i]))
  IN FoldLeft(LAMBDA all, i : all \o Group(i), <<[node |-> n, path |-> path]>>,
              Indexes(n.parts))

RECURSIVE IsEnvExpr(_)
IsEnvExpr(n) ==
  CASE n.type = "Identifier"        -> n.label \in {"_ENV", "_G"}
    [] n.type = "CallExpression"    -> NameOf(n.parts[1][1]) \in {"getfenv", "_ENV"}
    [] n.type = "LogicalExpression" -> IsEnvExpr(n.parts[1][1]) \/ IsEnvExpr(n.parts[2][1])
    [] OTHER                        -> FALSE

NoBinding == ""

\* Calls of a function written out with the environment as first argument: the
\* first parameter of the first one's function is the environment.
BindingCalls(tree) ==
  LET Binds(p) ==
        LET n == p.node IN
        /\ n.type = "CallExpression" /\ n.parts[2] # <<>>
        /\ IsEnvExpr(n.parts[2][1])
        /\ n.parts[1][1].type = "FunctionExpression" /\ n.parts[1][1].parts[1] # <<>>
  IN SelectSeq(Placed(tree, <<>>), Binds)

RoleOf(n) == IF "role" \in DOMAIN n THEN n.role ELSE "none"

\* The tree with a role for the node at a place.
RECURSIVE WithRole(_, _, _)
WithRole(n, path, role) ==
  IF path = <<>>
  THEN [type |-> n.type, label |-> n.label, parts |-> n.parts, paren |-> n.paren, role |-> role]
  ELSE [n EXCEPT !.parts[Head(path)[1]][Head(path)[2]] = WithRole(@, Tail(path), role)]

\* What _findVmEnvBinding finds: the parameter, and its nodes in the tree.
FindVmEnvBinding(tree) ==
  LET calls == BindingCalls(tree)
      Part(i) == Append(calls[1].path, <<i, 1>>)
  IN IF calls = <<>> THEN [param |-> NoBinding, tree |-> tree]
     ELSE [param |-> NameOf(calls[1].node.parts[1][1].parts[1][1]),
           tree  |-> WithRole(WithRole(tree, Part(1), "function"), Part(2), "argument")]

IsEnvTable(n, inVm, shadowed) ==
  \/ /\ n.type = "Identifier" /\ n.label \notin shadowed
     /\ n.label \in {"_ENV", "_G"} \cup (IF inVm THEN {vmEnv} ELSE {})
  \/ n.type = "CallExpression" /\ NameOf(n.parts[1][1]) = "getfenv"

Key(kind, value) == [kind |-> kind, value |-> value]

Static(name) == Key("STATIC_STRING", name)

\* What fold leaves in the tree at the node it is called for: the nodes below
\* it are replaced by what they come to, it is not.
Settled(n) == Mapped(n, LAMBDA c : Folded(c))

KeyGiven(settled, folded, constants) ==
  CASE folded.type = "NumericLiteral" -> Key("NUMERIC_INDEX", "")
    [] folded.type = "StringLiteral"  -> Static(StringOf(folded.label))
    [] settled.type = "Identifier" /\ settled.label \in DOMAIN constants ->
         Static(constants[settled.label])
    [] /\ settled.type = "CallExpression" /\ NameOf(settled.parts[1][1]) = accessorName
       /\ Len(settled.parts[2]) = 1 /\ settled.parts[2][1].type = "NumericLiteral"
       /\ NumberOf[settled.parts[2][1].label] \in DOMAIN stringTable ->
         Static(stringTable[NumberOf[settled.parts[2][1].label]])
    [] OTHER -> Key("DYNAMIC_EXPR", "")

ResolveKey(n, constants) ==
  LET settled == Settled(n) IN KeyGiven(settled, TryEvaluate(settled), constants)

-----------------------------------------------------------------------------
(* The way through the tree.  A scope is what is declared in the blocks     *)
(* around a place, and the strings that variables were last set to there.   *)

\* What a variable is set to: a string, or what the key of the environment
\* it is taken from.  The value is settled.
StringGiven(init, inVm, scope) ==
  ResolveKey(IF /\ init.type = "IndexExpression"
                /\ IsEnvTable(init.parts[1][1], inVm, scope.shadowed)
             THEN init.parts[2][1] ELSE init,
             scope.constants)

Without(constants, names) == [x \in DOMAIN constants \ names |-> constants[x]]

ScopeFromStale(scope, n, inVm) ==   \* defect: what is not a string leaves the last one
  LET Set(s, i) ==
        LET key == IF i \in DOMAIN n.parts[2] THEN StringGiven(n.parts[2][i], inVm, s)
                   ELSE Key("UNRESOLVED", "")
        IN IF n.parts[1][i].type # "Identifier" \/ key.kind # "STATIC_STRING" THEN s
           ELSE [s EXCEPT !.constants = n.parts[1][i].label :> key.value @@ @]
  IN IF n.type = "AssignmentStatement"
     THEN FoldLeft(Set, scope, Indexes(n.parts[1]))
     ELSE [shadowed  |-> scope.shadowed \cup Declares(n),
           constants |-> Without(scope.constants, Declares(n))]

\* The scope from a statement of a block on.
ScopeFrom(scope, n, inVm) ==
  LET Set(s, i) ==
        LET target == n.parts[1][i]
            key    == IF i \in DOMAIN n.parts[2] THEN StringGiven(n.parts[2][i], inVm, s)
                      ELSE Key("UNRESOLVED", "")
        IN IF target.type # "Identifier" THEN s
           ELSE IF key.kind = "STATIC_STRING"
           THEN [s EXCEPT !.constants = target.label :> key.value @@ @]
           ELSE [s EXCEPT !.constants = Without(@, {target.label})]
  IN IF n.type = "AssignmentStatement"
     THEN FoldLeft(Set, scope, Indexes(n.parts[1]))
     ELSE [shadowed  |-> scope.shadowed \cup Declares(n),
           constants |-> Without(scope.constants, Declares(n))]

\* computeChildShadowed.
ShadowedIn(n, shadowed) ==
  IF RoleOf(n) = "function" THEN shadowed \ {vmEnv}
  ELSE shadowed \cup ParametersOf(n) \cup LoopVariables(n)

IsBody(n, i) ==
  i \in Bodies(n) \/ (n.type = "IfStatement" /\ i = Len(n.parts) /\ i % 2 = 1)

\* A statement of a block as the walk enters it: the values that variables are
\* set to have been resolved.
ValuesSettled(n) ==
  IF n.type # "AssignmentStatement" THEN n
  ELSE [n EXCEPT !.parts[2] = [j \in DOMAIN @ |->
          IF j \in DOMAIN n.parts[1] /\ n.parts[1][j].type = "Identifier"
          THEN Settled(@[j]) ELSE @[j]]]

\* A node as the walk leaves it before what is in it: what is read resolves the
\* keys of the environment, what is written those that are set and that of a
\* function that is called.
KeysSettled(n, v, reading) ==
  LET KeySettled(x) ==
        IF x.type = "IndexExpression" /\ IsEnvTable(x.parts[1][1], v.inVm, v.scope.shadowed)
        THEN [x EXCEPT !.parts[2][1] = Settled(@)] ELSE x
      Group(i) == [n EXCEPT !.parts[i] = [j \in DOMAIN @ |-> KeySettled(@[j])]]
  IN IF reading THEN KeySettled(n)
     ELSE IF Is(n, {"CallExpression", "AssignmentStatement"}) THEN Group(1) ELSE n

\* The tree that is left, and every place the walk comes by with the node that
\* is there then and what is known: [node, parent, path, inVm, scope, list,
\* block], list being the statements of the block it is in and block the length
\* of the path to its statement there.
RECURSIVE Walk(_, _, _)

\* What the walk makes of node c of a group, from the scope there.
WithNode(sofar, scope, below) ==
  [scope |-> scope, nodes |-> Append(sofar.nodes, below.tree), all |-> sofar.all \o below.all]

WalkNode(sofar, c, scope, place, reading) ==
  WithNode(sofar, scope,
           Walk(c, [place EXCEPT !.scope = [scope EXCEPT !.shadowed = ShadowedIn(c, @)]], reading))

WalkStatement(sofar, c, place, reading) ==
  WalkNode(sofar, c, ScopeFrom(sofar.scope, c, place.inVm), place, reading)

WithGroup(sofar, i, group) ==
  [tree |-> [sofar.tree EXCEPT !.parts[i] = group.nodes], all |-> group.all]

\* The node is as the walk leaves it, and so is what is known there.
WalkInto(node, at, reading) ==
  LET Place(i, j) ==
        [at EXCEPT !.parent = node, !.path = Append(@, <<i, j>>),
                   !.list  = IF IsBody(node, i) THEN node.parts[i] ELSE @,
                   !.block = IF IsBody(node, i) THEN Len(at.path) + 1 ELSE @]
      Group(sofar, i) ==
        WithGroup(sofar, i,
          FoldLeft(LAMBDA s, j : WalkStatement(s, ValuesSettled(node.parts[i][j]), Place(i, j),
                                               reading),
                   [scope |-> at.scope, nodes |-> <<>>, all |-> sofar.all],
                   Indexes(node.parts[i])))
  IN FoldLeft(Group, [tree |-> node, all |-> <<[at EXCEPT !.node = node]>>], Indexes(node.parts))

WalkAt(n, at, reading) == WalkInto(KeysSettled(n, at, reading), at, reading)

Walk(n, at, reading) ==
  IF RoleOf(n) = "argument" THEN [tree |-> n, all |-> <<>>]
  ELSE WalkAt(n, [at EXCEPT !.inVm = @ \/ RoleOf(n) = "function"], reading)

WalkFrom(tree, reading) ==
  Walk(tree, [node |-> Nothing, parent |-> Nothing, path |-> <<>>, inVm |-> FALSE,
              scope |-> [shadowed |-> {}, constants |-> <<>>], list |-> <<>>, block |-> 0],
       reading)

\* What the place v has as the key of the environment, if it is one.
EnvKey(n, v) ==
  IF n.type \notin {"IndexExpression", "MemberExpression"}
     \/ ~IsEnvTable(n.parts[1][1], v.inVm, v.scope.shadowed) THEN Key("NONE", "")
  ELSE IF n.type = "MemberExpression" THEN Static(NameOf(n.parts[2][1]))
  ELSE ResolveKey(n.parts[2][1], v.scope.constants)

-----------------------------------------------------------------------------
(* What the program writes: _detectEnvMutations.                            *)

CollectLocals(tree) ==
  UNION {Declares(n) \cup ParametersOf(n) \cup LoopVariables(n) : n \in Nodes(tree)}

ReplacesEnvironment(v) ==
  LET base == v.node.parts[1][1]
  IN /\ v.node.type = "CallExpression"
     /\ \/ /\ base.type = "Identifier"
           /\ \/ base.label = "setfenv"
              \/ /\ base.label \in DOMAIN v.scope.constants
                 /\ v.scope.constants[base.label] = "setfenv"
        \/ base.type = "IndexExpression" /\ EnvKey(base, v) = Static("setfenv")

\* The keys of the environment that an assignment sets.
WrittenKeys(v, locals) ==
  LET KeyOf(t) == IF t.type = "Identifier"
                  THEN IF t.label \in locals \cup v.scope.shadowed THEN Key("NONE", "")
                       ELSE Static(t.label)
                  ELSE EnvKey(t, v)
  IN IF v.node.type # "AssignmentStatement" THEN {}
     ELSE {KeyOf(t) : t \in ToSet(v.node.parts[1])}

-----------------------------------------------------------------------------
(* What it reads: the main walk.                                            *)

\* The part of its parent that a place is.
GroupOf(v) == Last(v.path)[1]

IsProperty(v) ==
  <<v.parent.type, GroupOf(v)>> \in
    ({"MemberExpression", "MethodCallExpression"} \X {2})
    \cup ({"TableKey", "TableKeyString"} \X {1})

IsDeclaration(v) ==
  <<v.parent.type, GroupOf(v)>> \in
    {"LocalStatement", "LocalFunctionStatement"} \X {1}

\* The state variables of the loops that look like a dispatcher
\* (DispatcherAnalyzer.findDispatchers).
StateVars(tree) ==
  {n.parts[1][1].label : n \in
     {m \in Nodes(tree) : /\ m.type = "WhileStatement" /\ m.parts[1][1].type = "Identifier"
                          /\ m.parts[2] # <<>> /\ m.parts[2][1].type = "IfStatement"}}

\* What a state variable is set to, so that the loop ends.
LeavesDispatcher(v, stateVars) ==
  LET j == Last(v.path)[2]
  IN /\ v.parent.type = "AssignmentStatement" /\ GroupOf(v) = 2
     /\ j \in DOMAIN v.parent.parts[1]
     /\ v.parent.parts[1][j].type = "Identifier"
     /\ v.parent.parts[1][j].label \in stateVars

\* How a variable is used in an expression or statement: as an argument of a
\* call that only looks at it, or otherwise.
RECURSIVE UsesOf(_, _, _)
UsesOf(x, n, pure) ==
  LET Inside(nodes, p) == UNION {UsesOf(x, c, p) : c \in ToSet(nodes)}
      base == n.parts[1][1]
      looks == \/ NameOf(base) \in {"string", "type", "tonumber", "tostring"}
               \/ /\ base.type = "MemberExpression" /\ NameOf(base.parts[1][1]) = "string"
                  /\ NameOf(base.parts[2][1]) = "len"
  IN CASE n.type = "Identifier" -> IF n.label # x THEN {}
                                   ELSE IF pure THEN {"looked at"} ELSE {"escapes"}
       [] n.type = "CallExpression" ->
            Inside(n.parts[2], looks) \cup (IF NameOf(base) = x THEN {"escapes"} ELSE {})
       [] n.type = "ReturnStatement" -> {"escapes"}
       [] OTHER -> UNION {Inside(n.parts[i], pure) : i \in DOMAIN n.parts}

\* What a variable is set to and, to the end of the block or until it is set
\* again, only looked at.
IsInternalNonEscapingAccess(v) ==
  LET list    == v.list
      i       == v.path[v.block][2]
      stmt    == list[i]
      inside  == v.path[v.block + 1]
      vars    == stmt.parts[1]
      target  == IF inside[1] = 2 /\ inside[2] <= Len(vars) THEN vars[inside[2]] ELSE vars[1]
      Sets(s) == s.type = "AssignmentStatement" /\ NameOf(target) \in NamesOf(s.parts[1])
      ends    == {k \in i + 1..Len(list) : Sets(list[k])}
      last    == IF ends = {} THEN Len(list) ELSE Min(ends) - 1
  IN /\ v.block \in 1..Len(v.path) - 1
     /\ Is(stmt, {"AssignmentStatement", "LocalStatement"})
     /\ (inside[1] = 2 /\ inside[2] <= Len(vars)) \/ Len(vars) = 1
     /\ target.type = "Identifier"
     /\ UNION {UsesOf(target.label, list[k], FALSE) : k \in i + 1..last} = {"looked at"}

\* A key of the environment that is looked up at v, by its name or through the
\* table; found is what the program writes, sofar what the walk has found.
ClassOf(key, v, sofar) ==
  CASE key \in DynamicBuiltins -> "DYNAMIC_ENVIRONMENT_ACCESS"
    [] key \in SafeBuiltins ->
         IF sofar.environmentReplaced \/ found.dynamicWrite \/ key \in found.mutated
         THEN "UNKNOWN_EXTERNAL_GLOBAL" ELSE "KNOWN_SAFE_BUILTIN"
    [] key \notin DynamicBuiltins \cup SafeBuiltins
       /\ (\/ key \in found.mutated
           \/ LeavesDispatcher(v, found.stateVars)
           \/ v.node.type # "Identifier" /\ IsInternalNonEscapingAccess(v)) ->
         "KNOWN_INTERNAL_BINDING"
    [] OTHER -> "UNKNOWN_EXTERNAL_GLOBAL"

Access(key, class) == [key |-> key, class |-> class]

WithAccess(sofar, key, class) ==
  [accesses |-> sofar.accesses \cup {Access(key, class)},
   environmentReplaced |-> \/ sofar.environmentReplaced
                           \/ key = "setfenv" /\ class = "DYNAMIC_ENVIRONMENT_ACCESS"]

WithName(v, sofar) ==
  LET name == v.node.label
  IN IF IsProperty(v) \/ IsDeclaration(v) THEN sofar
     ELSE WithAccess(sofar, name,
            IF name \in found.locals \cup v.scope.shadowed THEN "KNOWN_INTERNAL_BINDING"
            ELSE ClassOf(name, v, sofar))

WithIndex(v, sofar) ==
  LET key == EnvKey(v.node, v)
  IN CASE key.kind \in {"NONE", "NUMERIC_INDEX"} -> sofar
       [] key.kind = "STATIC_STRING" ->
            WithAccess(sofar, key.value, ClassOf(key.value, v, sofar))
       [] OTHER -> WithAccess(sofar, "", "DYNAMIC_ENVIRONMENT_ACCESS")

WithMember(v, sofar) ==
  LET key == EnvKey(v.node, v)
  IN IF key.kind = "NONE" THEN sofar
     ELSE WithAccess(sofar, key.value, ClassOf(key.value, v, sofar))

Classified(visits) ==
  FoldLeft(LAMBDA sofar, v :
             CASE v.node.type = "Identifier"       -> WithName(v, sofar)
               [] v.node.type = "IndexExpression"  -> WithIndex(v, sofar)
               [] v.node.type = "MemberExpression" -> WithMember(v, sofar)
               [] OTHER -> sofar,
           [accesses |-> {}, environmentReplaced |-> found.replaced], visits)

Report(walk) ==
  [accesses |-> walk.accesses,
   isClosed |-> /\ ~walk.environmentReplaced /\ ~found.dynamicWrite
                /\ \A a \in walk.accesses :
                     a.class \in {"KNOWN_SAFE_BUILTIN", "KNOWN_INTERNAL_BINDING"}]

-----------------------------------------------------------------------------
(* analyze, in its order.                                                   *)

NoneFound == [locals |-> {}, stateVars |-> {}, mutated |-> {},
              dynamicWrite |-> FALSE, replaced |-> FALSE]

NoReport == [accesses |-> {}, isClosed |-> FALSE]

NothingFound == vmEnv = NoBinding /\ found = NoneFound /\ report = NoReport /\ parsed = Nothing

EnvironmentInit ==
  /\ source \in Readings
  /\ Unread
  /\ NothingFound

Then(stage, next) ==
  /\ step = stage
  /\ step' = next
  /\ UNCHANGED <<source, pass, changed, text>>

BindEnvironment ==
  /\ Then("round", "bound")
  /\ LET binding == FindVmEnvBinding(chunk)
     IN vmEnv' = binding.param /\ chunk' = binding.tree
  /\ parsed' = chunk
  /\ UNCHANGED <<found, report>>

Found(locals, stateVars, visits, keys) ==
  [locals       |-> locals,
   stateVars    |-> stateVars,
   mutated      |-> {k.value : k \in {m \in keys : m.kind = "STATIC_STRING"}},
   dynamicWrite |-> Key("DYNAMIC_EXPR", "") \in keys,
   replaced     |-> \E v \in visits : ReplacesEnvironment(v)]

FoundIn(locals, visits) ==
  Found(locals, StateVars(chunk), visits, UNION {WrittenKeys(v, locals) : v \in visits})

\* The keys that are set and the values of variables are folded in the tree.
DetectMutations ==
  /\ Then("bound", "written")
  /\ LET walk == WalkFrom(chunk, FALSE)
     IN chunk' = walk.tree /\ found' = FoundIn(CollectLocals(chunk), ToSet(walk.all))
  /\ UNCHANGED <<vmEnv, report, parsed>>

\* And all keys of the environment.
Classify ==
  /\ Then("written", "analyzed")
  /\ LET walk == WalkFrom(chunk, TRUE)
     IN chunk' = walk.tree /\ report' = Report(Classified(walk.all))
  /\ UNCHANGED <<vmEnv, found, parsed>>

Analyze == BindEnvironment \/ DetectMutations \/ Classify

-----------------------------------------------------------------------------
(* What a report must be right about.                                       *)

\* What the walk does not look at: names that folding has dropped from the
\* tree, names in the argument that hands over the environment, a name as a key
\* in a table, a method of the environment, a builtin that a global function is
\* declared as, the environment under another name, and a key that is a
\* variable set elsewhere than before it, in a block around it.
Overlooked(all) ==
  LET Identifiers(tree) == SelectSeq(Placed(tree, <<>>), LAMBDA p : p.node.type = "Identifier")
      Env(n, v) == IsEnvTable(n, v.inVm, v.scope.shadowed)
      Precedes(u, p) == /\ Len(u) <= Len(p) /\ IsPrefix(Front(u), p)
                        /\ Last(u)[1] = p[Len(u)][1] /\ Last(u)[2] < p[Len(u)][2]
      Sets(x) == {v \in all : /\ v.node.type = "AssignmentStatement"
                              /\ x \in NamesOf(v.node.parts[1])}
  IN \/ Len(Identifiers(parsed)) # Len(Identifiers(chunk))
     \/ \E a \in {n \in Nodes(chunk) : RoleOf(n) = "argument"} : \E n \in Nodes(a) :
          n.type = "Identifier" /\ n.label \notin {"_ENV", "_G", "getfenv"}
     \/ \E v \in all :
          LET n == v.node IN
          \/ n.type = "Identifier" /\ v.parent.type = "TableKey" /\ GroupOf(v) = 1
          \/ n.type = "MethodCallExpression" /\ Env(n.parts[1][1], v)
          \/ /\ n.type = "FunctionDeclaration"
             /\ \E c \in Nodes(n.parts[1][1]) : c.label \in SafeBuiltins
          \/ /\ n.type = "Identifier" /\ Env(n, v)
             /\ v.parent.type \notin
                  {"IndexExpression", "MemberExpression", "FunctionExpression"}
          \/ /\ n.type = "IndexExpression" /\ Env(n.parts[1][1], v)
             /\ n.parts[2][1].type = "Identifier"
             /\ \E u \in Sets(n.parts[2][1].label) : ~Precedes(u.path, v.path)

\* A run that looks up what the report names, and leaves builtins as they were.
IsAsReported(end) ==
  /\ end.reads \subseteq {a.key : a \in report.accesses}
  /\ \A a \in report.accesses :
       a.class = "KNOWN_SAFE_BUILTIN" => a.key \notin DOMAIN end.globals

\* A program that is found closed, when it runs as it was before the analysis,
\* looks up nothing in the environment that the report does not name, by
\* whatever way it comes to the key (environment-access-analyzer.js:88-90,
\* 117-644), and no name that the report gives as a builtin's is one the
\* program has set (:105-112).  Not looked at are the forms of Overlooked, with
\* which it may.
ClosedIsClosed ==
  report.isClosed /\ ~Overlooked(ToSet(WalkFrom(chunk, TRUE).all)) =>
    IsAsReported(Exec(parsed.parts[1], <<>>, Started))
=============================================================================
