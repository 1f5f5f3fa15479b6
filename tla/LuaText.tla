------------------------------- MODULE LuaText -------------------------------
(***************************************************************************)
(* Programs as text and as trees: what the lexer makes of what the         *)
(* generator writes (lexer/lexer.js, generator/lua-generator.js), and the  *)
(* tree the parser reads (parser/parser.js, ast/nodes.js).                 *)
(*                                                                         *)
(* A text is a sequence of words: a keyword, a name, a number, a string or *)
(* a mark, and the line breaks and spaces that matter.  What is inside a   *)
(* word is not looked at: a word is one token, but for two minus signs     *)
(* with nothing between them, which begin a comment.  Numbers are small    *)
(* integers and strings differ in their length alone.                      *)
(*                                                                         *)
(* A node is [type, label, parts, paren]: the name, operator or literal it *)
(* has, the groups of its children in the order of its fields, and         *)
(* inParens.  The groups, where they are not plain from the parser:        *)
(*   IfStatement          condition, body, condition, body, ..., else body *)
(*   a function           (its name,) parameters, body; label "..." if     *)
(*                        variadic                                         *)
(*   NumericForStatement  variable, start with end and step, body          *)
(***************************************************************************)
EXTENDS Integers, Sequences, FiniteSets, SequencesExt, TLC

CONSTANT maxNumber     \* bound: the numbers a program computes

Numbers == -maxNumber..maxNumber

NumberOf == [w \in {ToString(n) : n \in Numbers} |->
               CHOOSE n \in Numbers : ToString(n) = w]

StringWords == <<"''", "'a'", "'aa'", "'aaa'", "'aaaa'">>

\* A string that holds a number's digits.
Digits == "'digits'"

\* Strings that hold a name.
Quoted == "'print'" :> "print" @@ "'f'" :> "f" @@ "'setfenv'" :> "setfenv"

LengthOf(w) ==
  IF w = Digits THEN 2 ELSE (CHOOSE i \in DOMAIN StringWords : StringWords[i] = w) - 1

Keywords ==
  {"and", "break", "do", "else", "elseif", "end", "false", "for", "function",
   "if", "in", "local", "nil", "not", "or", "repeat", "return", "then", "true",
   "until", "while", "continue"}

Marks ==
  {"+", "-", "*", "/", "%", "^", "#", "==", "~=", "<=", ">=", "<", ">", "=",
   "(", ")", "{", "}", "[", "]", ";", ":", ",", ".", "..", "...",
   "+=", "-=", "*=", "/=", "..="}

Newline == "\n"

Space == " "

\* The type of a token: a keyword's or a mark's is the word itself.
TokenType(w) ==
  CASE w \in Keywords \cup Marks    -> w
    [] w \in DOMAIN NumberOf        -> "NUMBER"
    [] w \in ToSet(StringWords) \cup DOMAIN Quoted -> "STRING"
    [] OTHER                        -> "IDENT"

Node(type, label, parts) ==
  [type |-> type, label |-> label, parts |-> parts, paren |-> FALSE]

Is(node, types) == node.type \in types

Literals == {"NumericLiteral", "StringLiteral", "BooleanLiteral", "NilLiteral"}

-----------------------------------------------------------------------------
(* The lexer: tokenize, with skipComment.                                  *)

RECURSIVE Tokens(_)
Tokens(text) ==
  IF text = <<>> THEN <<>>
  ELSE IF Head(text) \in {Space, Newline} THEN Tokens(Tail(text))
  ELSE IF Len(text) > 1 /\ text[1] = "-" /\ text[2] = "-"
  THEN LET ends == {i \in DOMAIN text : text[i] = Newline} IN
       IF ends = {} THEN <<>>
       ELSE Tokens(SubSeq(text, CHOOSE i \in ends : \A j \in ends : i <= j, Len(text)))
  ELSE <<Head(text)>> \o Tokens(Tail(text))

-----------------------------------------------------------------------------
(* The parser.  Each operator reads the tokens s from position p and gives *)
(* the node, or nodes, and the position after them.  A ParseError is       *)
(* position 0, where nothing is found and nothing moves on.                *)

At(s, p) ==
  IF p = 0 THEN "ERROR" ELSE IF p > Len(s) THEN "EOF" ELSE TokenType(s[p])

Consume(s, p, type) == IF At(s, p) = type THEN p + 1 ELSE 0

Match(s, p, type) == IF At(s, p) = type THEN p + 1 ELSE p

Read(node, p) == [node |-> node, p |-> p]

Nothing == Node("Nothing", "", <<>>)

NothingRead == Read(Nothing, 0)

BlockEnds == {"EOF", "end", "elseif", "else", "until"}

CompoundOperators == {"+=", "-=", "*=", "/=", "..="}

\* A token's type without an equals sign.  That of a keyword is written in
\* capitals, which is a name like any other.
Operator(type) ==
  LET without == ("+=" :> "+") @@ ("-=" :> "-") @@ ("*=" :> "*") @@ ("/=" :> "/")
                 @@ ("..=" :> "..") @@ ("==" :> "=") @@ ("~=" :> "~") @@ ("<=" :> "<")
                 @@ (">=" :> ">")
  IN CASE type \in DOMAIN without -> without[type]
       [] type \in Keywords       -> "KEYWORD"
       [] OTHER                   -> type

BinaryPrecedence(op) ==
  CASE op = "or"  -> 1
    [] op = "and" -> 2
    [] op \in {"<", ">", "<=", ">=", "~=", "=="} -> 3
    [] op = ".."  -> 4
    [] op \in {"+", "-"} -> 5
    [] op \in {"*", "/", "%"} -> 6
    [] op = "^"   -> 8
    [] OTHER      -> 0

RightAssociative(op) == op \in {"..", "^"}

Name(s, p) ==
  IF At(s, p) = "IDENT" THEN Read(Node("Identifier", s[p], <<>>), p + 1) ELSE NothingRead

\* The rules that are read within others, by name.
RECURSIVE Rule(_, _, _, _)

\* One or more of what One(p) reads, between commas.
Listed(s, first, More(_)) ==
  IF At(s, first.p) # "," THEN Read(<<first.node>>, first.p)
  ELSE LET rest == More(first.p + 1) IN Read(<<first.node>> \o rest.node, rest.p)

Block(s, p) == Rule("block", s, p, 0)

SubExpression(s, p, least) == Rule("expression", s, p, least)

Expression(s, p) == SubExpression(s, p, 0)

PrefixExp(s, p) == Rule("prefix", s, p, 0)

FunctionBody(s, p) == Rule("function", s, p, 0)

TableConstructor(s, p) == Rule("table", s, p, 0)

RECURSIVE Names(_, _), Expressions(_, _)

Names(s, p) == Listed(s, Name(s, p), LAMBDA q : Names(s, q))

Expressions(s, p) == Listed(s, Expression(s, p), LAMBDA q : Expressions(s, q))

\* What is read at r becomes a node; what may end it is skipped.
Made(type, label, parts, p) == Read(Node(type, label, parts), p)

LocalVariables(s, p) ==
  LET names == Names(s, p)
      init  == IF At(s, names.p) = "=" THEN Expressions(s, names.p + 1)
               ELSE Read(<<>>, names.p)
  IN Made("LocalStatement", "", <<names.node, init.node>>, Match(s, init.p, ";"))

\* Parameters, where "..." ends the list.
RECURSIVE Parameters(_, _)
Parameters(s, p) ==
  IF At(s, p) = "..." THEN [node |-> <<>>, vararg |-> "...", p |-> p + 1]
  ELSE LET first == Name(s, p) IN
       IF At(s, first.p) # "," THEN [node |-> <<first.node>>, vararg |-> "", p |-> first.p]
       ELSE LET rest == Parameters(s, first.p + 1)
            IN [rest EXCEPT !.node = <<first.node>> \o @]

\* A function from its parameter list on, its nodes and whether it is variadic.
ParametersAndBody(s, p) ==
  LET open   == Consume(s, p, "(")
      params == IF At(s, open) = ")" THEN [node |-> <<>>, vararg |-> "", p |-> open]
                ELSE Parameters(s, open)
      body   == Block(s, Consume(s, params.p, ")"))
  IN [parts |-> <<params.node, body.node>>, vararg |-> params.vararg,
      p |-> Consume(s, body.p, "end")]

LocalFunction(s, p) ==
  LET name == Name(s, p)
      f    == FunctionBody(s, name.p)
  IN Made("LocalFunctionStatement", f.vararg, <<<<name.node>>>> \o f.parts, f.p)

\* mark: "." or, in the name of a declared method, ":".
Member(base, mark, name) == Node("MemberExpression", mark, <<<<base>>, <<name>>>>)

\* a.b.c, from what stands before the next dot.
RECURSIVE Path(_, _)
Path(s, r) ==
  IF At(s, r.p) # "." THEN r
  ELSE LET name == Name(s, r.p + 1) IN Path(s, Read(Member(r.node, ".", name.node), name.p))

FunctionDeclaration(s, p) ==
  LET path   == Path(s, Name(s, p))
      method == Name(s, path.p + 1)
      name   == IF At(s, path.p) = ":" THEN Read(Member(path.node, ":", method.node), method.p)
                ELSE path
      f      == FunctionBody(s, name.p)
  IN Made("FunctionDeclaration", f.vararg, <<<<name.node>>>> \o f.parts, f.p)

\* The clauses of an if statement from a condition on, to its end.
RECURSIVE Clauses(_, _)
Clauses(s, p) ==
  LET test == Expression(s, p)
      body == Block(s, Consume(s, test.p, "then"))
      mine == <<<<test.node>>, body.node>>
  IN CASE At(s, body.p) = "elseif" ->
            LET rest == Clauses(s, body.p + 1) IN Read(mine \o rest.node, rest.p)
       [] At(s, body.p) = "else" ->
            LET other == Block(s, body.p + 1)
            IN Read(mine \o <<other.node>>, Consume(s, other.p, "end"))
       [] OTHER -> Read(mine, Consume(s, body.p, "end"))

Loop(s, type, head, p) ==
  LET body == Block(s, Consume(s, p, "do"))
  IN Made(type, "", head \o <<body.node>>, Consume(s, body.p, "end"))

Field(s, p) ==
  LET key   == Expression(s, p + 1)
      value == Expression(s, Consume(s, Consume(s, key.p, "]"), "="))
      name  == Name(s, p)
      named == Expression(s, name.p + 1)
      plain == Expression(s, p)
  IN CASE At(s, p) = "[" ->
            Made("TableKey", "", <<<<key.node>>, <<value.node>>>>, value.p)
       [] At(s, p) = "IDENT" /\ At(s, p + 1) = "=" ->
            Made("TableKeyString", "", <<<<name.node>>, <<named.node>>>>, named.p)
       [] OTHER -> Made("TableValue", "", <<<<plain.node>>>>, plain.p)

\* A table constructor, its fields between commas or semicolons.
Fields(s, p) ==
  LET RECURSIVE Rest(_)
      Rest(q) ==
        IF At(s, q) \in {"}", "EOF", "ERROR"} THEN Read(<<>>, q)
        ELSE LET first == Field(s, q)
                 rest  == Rest(first.p + 1)
             IN IF At(s, first.p) \in {",", ";"} THEN Read(<<first.node>> \o rest.node, rest.p)
                ELSE Read(<<first.node>>, first.p)
      all == Rest(p + 1)
  IN Made("TableConstructor", "", <<all.node>>, Consume(s, all.p, "}"))

CallArgs(s, p) ==
  LET args  == Expressions(s, p + 1)
      table == TableConstructor(s, p)
  IN CASE At(s, p) = "(" -> IF At(s, p + 1) = ")" THEN Read(<<>>, p + 2)
                            ELSE Read(args.node, Consume(s, args.p, ")"))
       [] At(s, p) = "STRING" -> Read(<<Node("StringLiteral", s[p], <<>>)>>, p + 1)
       [] At(s, p) = "{" -> Read(<<table.node>>, table.p)
       [] OTHER -> Read(<<>>, 0)

\* The suffixes of what r read: [index], .name, :name(...), a call.
RECURSIVE Suffixed(_, _)
Suffixed(s, r) ==
  LET q     == r.p + 1
      index == Expression(s, q)
      name  == Name(s, q)
      margs == CallArgs(s, name.p)
      args  == CallArgs(s, r.p)
      base  == <<r.node>>
  IN CASE At(s, r.p) = "[" -> Suffixed(s, Made("IndexExpression", "", <<base, <<index.node>>>>,
                                               Consume(s, index.p, "]")))
       [] At(s, r.p) = "." -> Suffixed(s, Read(Member(r.node, ".", name.node), name.p))
       [] At(s, r.p) = ":" -> Suffixed(s, Made("MethodCallExpression", "",
                                               <<base, <<name.node>>, margs.node>>, margs.p))
       [] At(s, r.p) \in {"(", "STRING", "{"} ->
            Suffixed(s, Made("CallExpression", "", <<base, args.node>>, args.p))
       [] OTHER -> r

Prefix(s, p) ==
  LET inner == Expression(s, p + 1)
      word  == At(s, p)
  IN CASE word = "("     -> Suffixed(s, Read([inner.node EXCEPT !.paren = TRUE],
                                             Consume(s, inner.p, ")")))
       [] word = "IDENT" -> Suffixed(s, Name(s, p))
       [] OTHER          -> NothingRead

SimpleExpression(s, p) ==
  LET word == At(s, p)
      q    == p + 1
      arg  == SubExpression(s, q, 7)
      f    == FunctionBody(s, q)
      Literal(type) == Made(type, s[p], <<>>, q)
  IN CASE word \in {"not", "#", "-"}   -> Made("UnaryExpression", word, <<<<arg.node>>>>, arg.p)
       [] word = "NUMBER"              -> Literal("NumericLiteral")
       [] word = "STRING"              -> Literal("StringLiteral")
       [] word \in {"true", "false"}   -> Literal("BooleanLiteral")
       [] word = "nil"                 -> Literal("NilLiteral")
       [] word = "..."                 -> Literal("VarargLiteral")
       [] word = "{"                   -> TableConstructor(s, p)
       [] word = "function"            -> Made("FunctionExpression", f.vararg, f.parts, f.p)
       [] OTHER                        -> PrefixExp(s, p)

\* Operators of precedence `least` and above, to the right of what r read.
RECURSIVE Operands(_, _, _)
Operands(s, r, least) ==
  LET op    == At(s, r.p)
      prec  == BinaryPrecedence(op)
      right == SubExpression(s, r.p + 1, IF RightAssociative(op) THEN prec ELSE prec + 1)
      type  == IF op \in {"and", "or"} THEN "LogicalExpression" ELSE "BinaryExpression"
  IN IF prec = 0 \/ prec < least THEN r
     ELSE Operands(s, Made(type, op, <<<<r.node>>, <<right.node>>>>, right.p), least)

RECURSIVE Targets(_, _)
Targets(s, p) == Listed(s, PrefixExp(s, p), LAMBDA q : Targets(s, q))

\* x += y becomes x = x + y, and so does, with any token, x, z + y: after several
\* variables whatever comes is taken for the operator.
CallOrAssignment(s, p) ==
  LET targets == Targets(s, p)
      first   == targets.node[1]
      op      == At(s, targets.p)
      values  == Expressions(s, targets.p + 1)
      init    == IF op = "=" THEN values.node
                 ELSE [values.node EXCEPT ![1] =
                         Node("BinaryExpression", Operator(op), <<<<first>>, <<@>>>>)]
  IN IF op \in CompoundOperators \cup {"="} \/ (Len(targets.node) > 1 /\ targets.p # 0)
     THEN Made("AssignmentStatement", "", <<targets.node, init>>, Match(s, values.p, ";"))
     ELSE IF targets.p # 0 /\ Is(first, {"CallExpression", "MethodCallExpression"})
     THEN Made("CallStatement", "", <<<<first>>>>, Match(s, targets.p, ";"))
     ELSE NothingRead

ForStatement(s, p) ==
  LET first == Name(s, p)
      range == Expressions(s, first.p + 1)
      names == Names(s, p)
      iters == Expressions(s, Consume(s, names.p, "in"))
  IN IF At(s, first.p) # "="
     THEN Loop(s, "GenericForStatement", <<names.node, iters.node>>, iters.p)
     ELSE Loop(s, "NumericForStatement", <<<<first.node>>, range.node>>,
               IF Len(range.node) \in {2, 3} THEN range.p ELSE 0)

ReturnStatement(s, p) ==
  LET args == IF At(s, p) \in BlockEnds \cup {";"} THEN Read(<<>>, p) ELSE Expressions(s, p)
  IN Made("ReturnStatement", "", <<args.node>>, Match(s, args.p, ";"))

RepeatStatement(s, p) ==
  LET body == Block(s, p)
      test == Expression(s, Consume(s, body.p, "until"))
  IN Made("RepeatStatement", "", <<body.node, <<test.node>>>>, Match(s, test.p, ";"))

Statement(s, p) ==
  LET word == At(s, p)
      q    == p + 1
  IN CASE word = ";"        -> Made("EmptyStatement", "", <<>>, q)
       [] word = "local"    -> IF At(s, q) = "function" THEN LocalFunction(s, q + 1)
                               ELSE LocalVariables(s, q)
       [] word = "function" -> FunctionDeclaration(s, q)
       [] word = "if"       -> LET c == Clauses(s, q) IN Made("IfStatement", "", c.node, c.p)
       [] word = "while"    -> LET test == Expression(s, q)
                               IN Loop(s, "WhileStatement", <<<<test.node>>>>, test.p)
       [] word = "repeat"   -> RepeatStatement(s, q)
       [] word = "do"       -> Loop(s, "DoStatement", <<>>, p)
       [] word = "for"      -> ForStatement(s, q)
       [] word = "break"    -> Made("BreakStatement", "", <<>>, Match(s, q, ";"))
       [] word = "continue" -> Made("ContinueStatement", "", <<>>, Match(s, q, ";"))
       [] word = "return"   -> ReturnStatement(s, q)
       [] OTHER             -> CallOrAssignment(s, p)

ParseBlock(s, p) ==
  IF At(s, p) \in BlockEnds \cup {"ERROR"} THEN Read(<<>>, p)
  ELSE LET first == Statement(s, p)
           rest  == Block(s, first.p)
       IN Read(<<first.node>> \o rest.node, rest.p)

Rule(name, s, p, least) ==
  CASE name = "block"      -> ParseBlock(s, p)
    [] name = "expression" -> Operands(s, SimpleExpression(s, p), least)
    [] name = "prefix"     -> Prefix(s, p)
    [] name = "function"   -> ParametersAndBody(s, p)
    [] name = "table"      -> Fields(s, p)

\* A whole text: its chunk, or Nothing after a ParseError.
Parse(s) ==
  LET body == Block(s, 1)
  IN IF At(s, body.p) = "EOF" THEN Node("Chunk", "", <<body.node>>) ELSE Nothing

-----------------------------------------------------------------------------
(* The generator.  Precedences are tenfold, a tenth above is one more.     *)

Precedence(n) ==
  CASE n.type = "LogicalExpression" -> IF n.label = "or" THEN 10 ELSE 20
    [] n.type = "BinaryExpression"  -> 10 * BinaryPrecedence(n.label)
    [] n.type = "UnaryExpression"   -> 70
    [] OTHER -> 990

\* The name of a node that should be an identifier.
NameOf(n) == IF n.type = "Identifier" THEN n.label ELSE "undefined"

Separated(texts) ==
  FoldLeft(LAMBDA all, text : IF all = <<>> THEN text ELSE all \o <<",", Space>> \o text,
           <<>>, texts)

RECURSIVE Text(_, _), Written(_), WrittenBlock(_)

Each(nodes) == Separated([i \in DOMAIN nodes |-> Text(nodes[i], 0)])

WrittenParameters(n, params) ==
  LET names == [i \in DOMAIN params |-> <<NameOf(params[i])>>]
  IN <<"(">> \o Separated(IF n.label = "..." THEN Append(names, <<"...">>) ELSE names)
     \o <<")">>

WrittenFields(fields) ==
  LET Value(f) == Text(f.parts[Len(f.parts)][1], 0)
      Whole(f) == CASE f.type = "TableKey" -> <<"[">> \o Text(f.parts[1][1], 0) \o <<"]", "=">>
                                              \o Value(f)
                    [] f.type = "TableKeyString" -> <<NameOf(f.parts[1][1]), "=">> \o Value(f)
                    [] OTHER -> Value(f)
      compact  == Len(fields) <= 4 /\ \A i \in DOMAIN fields : fields[i].type = "TableValue"
  IN IF fields = <<>> THEN <<"{", "}">>
     ELSE IF compact THEN <<"{">> \o Separated([i \in DOMAIN fields |-> Value(fields[i])])
                          \o <<"}">>
     ELSE <<"{", Newline>>
          \o FoldLeft(LAMBDA all, f : IF all = <<>> THEN Whole(f)
                                      ELSE all \o <<",", Newline>> \o Whole(f), <<>>, fields)
          \o <<Newline, "}">>

\* exprToString without the parentheses of the place it is in.
Bare(n) ==
  LET prec   == Precedence(n)
      right  == n.label \in {"..", "^"}
      inner  == Text(n.parts[1][1], 990)
      base   == IF n.parts[1][1].type = "FunctionExpression" THEN <<"(">> \o inner \o <<")">>
                ELSE inner
      Call(args) == <<"(">> \o Each(args) \o <<")">>
  IN CASE n.type = "NumericLiteral" /\ NumberOf[n.label] < 0 ->
            <<"-", ToString(-NumberOf[n.label])>>
       [] n.type = "VarargLiteral" -> IF n.paren THEN <<"(", "...", ")">> ELSE <<"...">>
       [] n.type = "UnaryExpression" -> <<n.label>> \o Text(n.parts[1][1], prec)
       [] n.type \in {"BinaryExpression", "LogicalExpression"} ->
            Text(n.parts[1][1], IF right THEN prec + 1 ELSE prec)
            \o <<Space, n.label, Space>>
            \o Text(n.parts[2][1], IF right THEN prec ELSE prec + 1)
       [] n.type = "CallExpression" -> base \o Call(n.parts[2])
       [] n.type = "MethodCallExpression" ->
            base \o <<":", NameOf(n.parts[2][1])>> \o Call(n.parts[3])
       [] n.type = "MemberExpression" -> base \o <<".", NameOf(n.parts[2][1])>>
       [] n.type = "IndexExpression"  -> base \o <<"[">> \o Text(n.parts[2][1], 0) \o <<"]">>
       [] n.type = "FunctionExpression" ->
            <<"function">> \o WrittenParameters(n, n.parts[1]) \o <<Newline>>
            \o WrittenBlock(n.parts[2]) \o <<"end">>
       [] n.type = "TableConstructor" -> WrittenFields(n.parts[1])
       [] OTHER -> <<n.label>>

TextUnnested(n, outer) == Bare(n)   \* defect: precedence is not looked at

Text(n, outer) ==
  IF Precedence(n) < outer THEN <<"(">> \o Bare(n) \o <<")">> ELSE Bare(n)

WrittenBlock(statements) ==
  FoldLeft(LAMBDA all, n : all \o Written(n), <<>>, statements)

\* The clauses of an if statement, from the i-th group on.
RECURSIVE WrittenClauses(_, _)
WrittenClauses(parts, i) ==
  CASE i > Len(parts) -> <<>>
    [] i = Len(parts) -> IF parts[i] = <<>> THEN <<>>
                         ELSE <<"else", Newline>> \o WrittenBlock(parts[i])
    [] i < Len(parts) -> <<IF i = 1 THEN "if" ELSE "elseif">> \o Text(parts[i][1], 0)
                         \o <<"then", Newline>> \o WrittenBlock(parts[i + 1])
                         \o WrittenClauses(parts, i + 2)

\* A statement with its line breaks.
Written(n) ==
  LET parts == n.parts
      Body(i) == <<Newline>> \o WrittenBlock(parts[i]) \o <<"end">>
      Line(text) == text \o <<Newline>>
  IN
  CASE n.type = "LocalStatement" ->
         Line(<<"local">> \o Each(parts[1])
              \o IF parts[2] = <<>> THEN <<>> ELSE <<"=">> \o Each(parts[2]))
    [] n.type = "AssignmentStatement" -> Line(Each(parts[1]) \o <<"=">> \o Each(parts[2]))
    [] n.type = "LocalFunctionStatement" ->
         Line(<<"local", "function", NameOf(parts[1][1])>> \o WrittenParameters(n, parts[2])
              \o Body(3))
    [] n.type = "FunctionDeclaration" ->
         Line(<<"function">> \o Text(parts[1][1], 0) \o WrittenParameters(n, parts[2])
              \o Body(3))
    [] n.type = "CallStatement" -> Line(Text(parts[1][1], 0))
    [] n.type = "IfStatement" -> Line(WrittenClauses(parts, 1) \o <<"end">>)
    [] n.type = "WhileStatement" ->
         Line(<<"while">> \o Text(parts[1][1], 0) \o <<"do">> \o Body(2))
    [] n.type = "RepeatStatement" ->
         Line(<<"repeat", Newline>> \o WrittenBlock(parts[1]) \o <<"until">>
              \o Text(parts[2][1], 0))
    [] n.type = "NumericForStatement" ->
         Line(<<"for", NameOf(parts[1][1]), "=">> \o Each(parts[2]) \o <<"do">> \o Body(3))
    [] n.type = "GenericForStatement" ->
         Line(<<"for">> \o Separated([i \in DOMAIN parts[1] |-> <<NameOf(parts[1][i])>>])
              \o <<"in">> \o Each(parts[2]) \o <<"do">> \o Body(3))
    [] n.type = "DoStatement" -> Line(<<"do">> \o Body(1))
    [] n.type = "ReturnStatement" -> Line(<<"return">> \o Each(parts[1]))
    [] n.type = "BreakStatement" -> Line(<<"break">>)
    [] n.type = "ContinueStatement" -> Line(<<"continue">>)
    [] n.type = "EmptyStatement" -> <<>>

Generate(chunk) == WrittenBlock(chunk.parts[1])
=============================================================================
