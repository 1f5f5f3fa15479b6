----------------------------- MODULE LuaMeaning -----------------------------
(***************************************************************************)
(* What a program does, for the part of Lua that the programs in question  *)
(* use: the calls of functions from outside that it makes, with their      *)
(* arguments, its assignments to globals, and how it ends.  This is the    *)
(* language's, not the repository's: it says what the rewriting of a       *)
(* program must keep.                                                      *)
(*                                                                         *)
(* A state is [cells, globals, reads, log, halt, returned, calls]; an      *)
(* environment gives the cell of each name in scope, "..." included, whose *)
(* cell holds a sequence.  globals is what the program has set in the      *)
(* global environment, reads what it has looked up there and not set.      *)
(* External functions return the numbers 1 and 2.  A loop runs maxRounds   *)
(* rounds at most, and the call after maxCalls calls is an error.  A field *)
(* that is set is seen to be set; a table keeps what it was made with.     *)
(***************************************************************************)
EXTENDS LuaText

CONSTANTS
  External,     \* the functions from outside
  maxRounds,    \* bound: the rounds of a loop
  maxCalls      \* bound: the calls a program makes

Value(kind, v) == [kind |-> kind, v |-> v]

Nil == Value("nil", "")

Boolean(b) == Value("boolean", IF b THEN "true" ELSE "false")

Number(n) == Value("number", ToString(n))

Truth(v) == v # Nil /\ v # Boolean(FALSE)

Adjusted(vs) == IF vs = <<>> THEN Nil ELSE vs[1]

Started == [cells |-> <<>>, globals |-> <<>>, reads |-> {}, log |-> <<>>, halt |-> "no",
            returned |-> <<>>, calls |-> 0]

Halted(st) == st.halt # "no"

Result(vs, st) == [vs |-> vs, st |-> st]

Error(st) == Result(<<Nil>>, [st EXCEPT !.halt = "error"])

\* Names bound to new cells, missing values being nil.
Bound(names, vs, env, st) ==
  LET base == Len(st.cells)
  IN [env |-> [i \in ToSet(names) |-> base + CHOOSE k \in DOMAIN names :
                 names[k] = i /\ \A l \in DOMAIN names : names[l] = i => l <= k] @@ env,
      st  |-> [st EXCEPT !.cells =
                 @ \o [k \in DOMAIN names |-> IF k <= Len(vs) THEN vs[k] ELSE Nil]]]

Unary(op, v, st) ==
  CASE op = "not" -> Result(<<Boolean(~Truth(v))>>, st)
    [] op = "-" /\ v.kind = "number" -> Result(<<Number(-NumberOf[v.v])>>, st)
    [] op = "#" /\ v.kind = "string" -> Result(<<Number(LengthOf(v.v))>>, st)
    [] OTHER -> Error(st)

Modulo(l, r) == IF r > 0 THEN l % r ELSE -((-l) % (-r))

Divide(l, r) == IF r > 0 THEN l \div r ELSE (-l) \div (-r)

Power(l, r) == IF r >= 0 THEN l ^ r ELSE l ^ (-r)

Calculated(op, l, r) ==
  CASE op = "+" -> l + r [] op = "-" -> l - r [] op = "*" -> l * r
    [] op = "%" -> Modulo(l, r) [] op = "/" -> Divide(l, r) [] op = "^" -> Power(l, r)

Compared(op, l, r) ==
  CASE op = "<" -> l < r [] op = "<=" -> l <= r [] op = ">" -> l > r [] op = ">=" -> l >= r

Same(l, r) == l.kind = r.kind /\ l.kind \notin {"table", "function"} /\ l = r

Joined(l, r) ==
  IF "number" \in {l.kind, r.kind} \/ Digits \in {l.v, r.v} THEN Digits
  ELSE StringWords[LengthOf(l.v) + LengthOf(r.v) + 1]

Binary(op, l, r, st) ==
  CASE op = "==" -> Result(<<Boolean(Same(l, r))>>, st)
    [] op = "~=" -> Result(<<Boolean(~Same(l, r))>>, st)
    [] op \in {"+", "-", "*", "%", "/", "^"} /\ l.kind = "number" /\ r.kind = "number" ->
         Result(<<Number(Calculated(op, NumberOf[l.v], NumberOf[r.v]))>>, st)
    [] op \in {"<", "<=", ">", ">="} /\ l.kind = "number" /\ r.kind = "number" ->
         Result(<<Boolean(Compared(op, NumberOf[l.v], NumberOf[r.v]))>>, st)
    [] op \in {"<", "<=", ">", ">="} /\ l.kind = "string" /\ r.kind = "string" ->
         Result(<<Boolean(Compared(op, LengthOf(l.v), LengthOf(r.v)))>>, st)
    [] op = ".." /\ {l.kind, r.kind} \subseteq {"number", "string"} ->
         Result(<<Value("string", Joined(l, r))>>, st)
    [] OTHER -> Error(st)

\* The table of the globals, and the names it goes by.
GlobalTable == Value("environment", "")

TableNames == {"_ENV", "_G"}

\* A global the program has set, a function from outside, or nil.
Global(name, st) ==
  CASE name \in DOMAIN st.globals -> st.globals[name]
    [] name \in TableNames \ DOMAIN st.globals -> GlobalTable
    [] name \in External \ DOMAIN st.globals -> Value("external", name)
    [] OTHER -> Nil

LookedUp(name, st) ==
  IF name \in DOMAIN st.globals \cup TableNames \cup {"getfenv"} THEN st
  ELSE [st EXCEPT !.reads = @ \cup {name}]

StringOf(w) == IF w \in DOMAIN Quoted THEN Quoted[w] ELSE w

RECURSIVE Eval(_, _, _)

\* A body is evaluated as a node of its own type.
Exec(statements, env, st) == Eval(Node("Block", "", <<statements>>), env, st).st

\* Every expression but the last gives one value.
RECURSIVE EvalAll(_, _, _)
EvalAll(nodes, env, st) ==
  IF nodes = <<>> \/ Halted(st) THEN Result(<<>>, st)
  ELSE LET first == Eval(nodes[1], env, st)
           rest  == EvalAll(Tail(nodes), env, first.st)
       IN IF Len(nodes) = 1 THEN first ELSE Result(<<Adjusted(first.vs)>> \o rest.vs, rest.st)

\* What a function gives when its body has ended.
AfterReturn(end) ==
  IF end.halt = "return"
  THEN Result(end.returned, [end EXCEPT !.halt = "no", !.returned = <<>>])
  ELSE Result(<<>>, end)

Apply(f, args, st) ==
  CASE Halted(st) -> Result(<<>>, st)
    [] ~Halted(st) /\ st.calls = maxCalls -> Error(st)
    [] ~Halted(st) /\ st.calls < maxCalls /\ f.kind = "external" ->
         Result(IF f.v = "getfenv" THEN <<GlobalTable>> ELSE <<Number(1), Number(2)>>,
                [st EXCEPT !.log = Append(@, <<f, args>>), !.calls = @ + 1])
    [] ~Halted(st) /\ st.calls < maxCalls /\ f.kind = "function" ->
         LET params == [i \in DOMAIN f.params |-> NameOf(f.params[i])]
             extra  == Value("values", SubSeq(args, Len(params) + 1, Len(args)))
             b      == Bound(Append(params, "..."),
                             [i \in 1..(Len(params) + 1) |->
                                IF i > Len(params) THEN extra
                                ELSE IF i <= Len(args) THEN args[i] ELSE Nil],
                             f.env, [st EXCEPT !.calls = @ + 1])
         IN AfterReturn(Exec(f.body, b.env, b.st))
    [] OTHER -> Error(st)

\* A table keeps its keys and values in order: a name, what an expression in
\* brackets gives, or none.
Constructed(fields, env, st) ==
  LET Filled(sofar, f) ==
        LET key  == IF f.type = "TableKey" THEN Eval(f.parts[1][1], env, sofar.st)
                    ELSE IF f.type = "TableKeyString"
                    THEN Result(<<Value("name", NameOf(f.parts[1][1]))>>, sofar.st)
                    ELSE Result(<<Nil>>, sofar.st)
            vs   == Eval(f.parts[Len(f.parts)][1], env, key.st)
            all  == IF f = Last(fields) /\ f.type = "TableValue" THEN vs.vs ELSE <<Adjusted(vs.vs)>>
        IN Result(sofar.vs \o [i \in DOMAIN all |-> <<Adjusted(key.vs), all[i]>>], vs.st)
      filled == FoldLeft(Filled, Result(<<>>, st), fields)
  IN Result(<<[kind |-> "table", fields |-> filled.vs]>>, filled.st)

\* What a table holds under a key; it keeps what its constructor gave it.
Indexed(base, key, st) ==
  IF base.kind = "environment" /\ key.kind \in {"name", "string"}
  THEN Result(<<Global(StringOf(key.v), st)>>, LookedUp(StringOf(key.v), st))
  ELSE IF base.kind # "table" THEN Error(st)
  ELSE Result(<<FoldLeft(LAMBDA v, f : IF f[1] = key THEN f[2] ELSE v, Nil, base.fields)>>, st)

Closure(n, params, body, env) ==
  [kind |-> "function", params |-> params, body |-> body, env |-> env]

Variable(name, env, st) ==
  IF name \in DOMAIN env THEN Result(<<st.cells[env[name]]>>, st)
  ELSE Result(<<Global(name, st)>>, LookedUp(name, st))

\* A variable outside is seen to be set, and so is a field.
Assigned(targets, vs, env, st) ==
  LET Seen(s, where, v) == [s EXCEPT !.log = Append(@, <<where, <<v>>>>)]
      Put(s, i) ==
        LET target == targets[i]
            v      == IF i <= Len(vs) THEN vs[i] ELSE Nil
            base   == Eval(target.parts[1][1], env, s)
            key    == IF target.type = "IndexExpression"
                      THEN Eval(target.parts[2][1], env, base.st)
                      ELSE Result(<<Value("name", NameOf(target.parts[2][1]))>>, base.st)
            Kept(name, after) == [after EXCEPT !.globals = name :> v @@ @]
        IN CASE target.type \in {"IndexExpression", "MemberExpression"} ->
                  LET k == Adjusted(key.vs) IN
                  IF base.vs # <<>> /\ base.vs[1].kind = "environment"
                     /\ k.kind \in {"name", "string"}
                  THEN Kept(StringOf(k.v), key.st) ELSE Seen(key.st, k, v)
             [] OTHER -> IF NameOf(target) \in DOMAIN env
                         THEN [s EXCEPT !.cells[env[NameOf(target)]] = v]
                         ELSE Kept(NameOf(target),
                                   Seen(s, Value("global", NameOf(target)), v))
  IN FoldLeft(Put, st, [i \in DOMAIN targets |-> i])

RECURSIVE Branch(_, _, _, _)
Branch(parts, i, env, st) ==
  LET test == Eval(parts[i][1], env, st)
  IN CASE i > Len(parts) -> st
       [] i = Len(parts) -> Exec(parts[i], env, st)
       [] OTHER -> IF Halted(test.st) THEN test.st
                   ELSE IF Truth(Adjusted(test.vs)) THEN Exec(parts[i + 1], env, test.st)
                   ELSE Branch(parts, i + 2, env, test.st)

\* A loop that has run its body, or goes on from there.
After(end, More(_)) ==
  CASE end.halt = "break" -> [end EXCEPT !.halt = "no"]
    [] end.halt \in {"no", "continue"} -> More([end EXCEPT !.halt = "no"])
    [] OTHER -> end

RECURSIVE Run(_, _, _), Repeated(_, _, _, _)
Repeated(n, env, st, rounds) ==
  LET test    == Eval(n.parts[1][1], env, st)
      body    == Run(n.parts[1], env, st)
      Until(end) == Eval(n.parts[2][1], body.env, end)
      More(end) == IF rounds = 1 THEN end ELSE Repeated(n, env, end, rounds - 1)
  IN IF n.type = "RepeatStatement"
     THEN After(body.st, LAMBDA end : IF Truth(Adjusted(Until(end).vs)) THEN Until(end).st
                                      ELSE After(Until(end).st, More))
     ELSE IF Halted(test.st) \/ ~Truth(Adjusted(test.vs)) THEN test.st
     ELSE After(Exec(n.parts[2], env, test.st), More)

\* The loop from i to last.
RECURSIVE Counted(_, _, _, _, _)
Counted(n, i, last, env, st) ==
  LET b == Bound(<<NameOf(n.parts[1][1])>>, <<Number(i)>>, env, st)
  IN IF i > last THEN st
     ELSE After(Exec(n.parts[3], b.env, b.st), LAMBDA end : Counted(n, i + 1, last, env, end))

\* The loop over what an iterator gives; it is its function, state and value.
RECURSIVE Iterated(_, _, _, _, _)
Round(n, it, given, env, rounds) ==
  LET names == [i \in DOMAIN n.parts[1] |-> NameOf(n.parts[1][i])]
      b     == Bound(names, given.vs, env, given.st)
  IN IF Halted(given.st) \/ Adjusted(given.vs) = Nil THEN given.st
     ELSE After(Exec(n.parts[3], b.env, b.st), LAMBDA end :
                  IF rounds = 1 THEN end
                  ELSE Iterated(n, [it EXCEPT ![3] = given.vs[1]], env, end, rounds - 1))

Iterated(n, it, env, st, rounds) ==
  Round(n, it, Apply(it[1], Tail(it), st), env, rounds)

\* A statement: the environment and the state after it.
Step(n, env, st) ==
  LET parts == n.parts
      Same_(s) == [env |-> env, st |-> s]
      names == [i \in DOMAIN parts[1] |-> NameOf(parts[1][i])]
      init  == EvalAll(parts[2], env, st)
  IN CASE n.type = "LocalStatement" -> Bound(names, init.vs, env, init.st)
       [] n.type = "AssignmentStatement" ->
            Same_(IF Halted(init.st) THEN init.st ELSE Assigned(parts[1], init.vs, env, init.st))
       [] n.type = "LocalFunctionStatement" ->
            LET b == Bound(names, <<>>, env, st)
            IN [b EXCEPT !.st.cells[b.env[names[1]]] = Closure(n, parts[2], parts[3], b.env)]
       [] n.type = "CallStatement" -> Same_(Eval(parts[1][1], env, st).st)
       [] n.type = "IfStatement" -> Same_(Branch(parts, 1, env, st))
       [] n.type \in {"WhileStatement", "RepeatStatement"} ->
            Same_(Repeated(n, env, st, maxRounds))
       [] n.type = "NumericForStatement" ->
            Same_(IF Halted(init.st) THEN init.st
                  ELSE IF \E i \in 1..2 : init.vs[i].kind # "number" THEN Error(init.st).st
                  ELSE Counted(n, NumberOf[init.vs[1].v], NumberOf[init.vs[2].v], env, init.st))
       [] n.type = "GenericForStatement" ->
            Same_(IF Halted(init.st) THEN init.st
                  ELSE Iterated(n, [i \in 1..3 |-> IF i <= Len(init.vs) THEN init.vs[i] ELSE Nil],
                                env, init.st, maxRounds))
       [] n.type = "FunctionDeclaration" ->
            Same_(Assigned(parts[1], <<Closure(n, parts[2], parts[3], env)>>, env, st))
       [] n.type = "DoStatement" -> Same_(Exec(parts[1], env, st))
       [] n.type = "ReturnStatement" ->
            LET all == EvalAll(parts[1], env, st)
            IN Same_(IF Halted(all.st) THEN all.st
                     ELSE [all.st EXCEPT !.halt = "return", !.returned = all.vs])
       [] n.type = "BreakStatement" -> Same_([st EXCEPT !.halt = "break"])
       [] n.type = "ContinueStatement" -> Same_([st EXCEPT !.halt = "continue"])
       [] n.type = "EmptyStatement" -> Same_(st)

Run(statements, env, st) ==
  IF statements = <<>> \/ Halted(st) THEN [env |-> env, st |-> st]
  ELSE LET after == Step(statements[1], env, st)
       IN Run(Tail(statements), after.env, after.st)

\* What an expression gives, before its parentheses.
Expanded(n, env, st) ==
  LET parts == n.parts
      left  == Eval(parts[1][1], env, st)
      one   == Adjusted(left.vs)
      right == Eval(parts[2][1], env, left.st)
  IN CASE n.type = "NumericLiteral" -> Result(<<Value("number", n.label)>>, st)
       [] n.type = "StringLiteral"  -> Result(<<Value("string", n.label)>>, st)
       [] n.type = "BooleanLiteral" -> Result(<<Value("boolean", n.label)>>, st)
       [] n.type = "Identifier"     -> Variable(n.label, env, st)
       [] n.type = "VarargLiteral"  ->
            Result(IF "..." \in DOMAIN env THEN st.cells[env["..."]].v ELSE <<>>, st)
       [] n.type = "UnaryExpression" ->
            IF Halted(left.st) THEN left ELSE Unary(n.label, one, left.st)
       [] n.type = "BinaryExpression" ->
            IF Halted(right.st) \/ Halted(left.st) THEN Result(<<>>, right.st)
            ELSE Binary(n.label, one, Adjusted(right.vs), right.st)
       [] n.type = "LogicalExpression" ->
            IF Halted(left.st) \/ (Truth(one) <=> n.label = "or") THEN Result(<<one>>, left.st)
            ELSE Result(<<Adjusted(right.vs)>>, right.st)
       [] n.type = "CallExpression" ->
            LET args == EvalAll(parts[2], env, left.st) IN Apply(one, args.vs, args.st)
       [] n.type = "MethodCallExpression" ->
            LET f    == Indexed(one, Value("name", NameOf(parts[2][1])), left.st)
                args == EvalAll(parts[3], env, f.st)
            IN Apply(Adjusted(f.vs), <<one>> \o args.vs, args.st)
       [] n.type = "MemberExpression" ->
            IF Halted(left.st) THEN left
            ELSE Indexed(one, Value("name", NameOf(parts[2][1])), left.st)
       [] n.type = "IndexExpression" ->
            IF Halted(right.st) THEN right ELSE Indexed(one, Adjusted(right.vs), right.st)
       [] n.type = "FunctionExpression" ->
            Result(<<Closure(n, parts[1], parts[2], env)>>, st)
       [] n.type = "TableConstructor" -> Constructed(parts[1], env, st)
       [] n.type = "NilLiteral" -> Result(<<Nil>>, st)
       [] n.type = "Block" -> Result(<<>>, Run(parts[1], env, st).st)

\* Parentheses leave one value.
Eval(n, env, st) ==
  IF Halted(st) THEN Result(<<>>, st)
  ELSE LET all == Expanded(n, env, st)
       IN IF n.paren THEN Result(<<Adjusted(all.vs)>>, all.st) ELSE all

\* What a program is seen to do.  A closure is seen as a function.
Meaning(chunk) ==
  LET end == Exec(chunk.parts[1], <<>>, Started)
      Seen(v) == IF v.kind = "function" THEN Value("function", "") ELSE v
      All(vs) == [i \in DOMAIN vs |-> Seen(vs[i])]
  IN IF chunk = Nothing THEN <<"no program">>
     ELSE <<[i \in DOMAIN end.log |-> <<end.log[i][1], All(end.log[i][2])>>],
            end.halt, All(end.returned)>>
=============================================================================
