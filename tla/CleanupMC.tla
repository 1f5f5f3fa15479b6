------------------------------ MODULE CleanupMC ------------------------------
(***************************************************************************)
(* The programs that are read, rewritten and written for TLC, as tokens:   *)
(* every expression of two operators over a few operands, statements in    *)
(* every kind of block, and every form of call, index and table; and those *)
(* whose use of the environment is looked at.                              *)
(***************************************************************************)
EXTENDS Cleanup

CallF == <<"f", "(", ")">>

Parenthesised(e) == <<"(">> \o e \o <<")">>

\* Each of these before each of those.
Before(these, those) == {a \o b : a \in these, b \in those}

-----------------------------------------------------------------------------
(* Expressions.                                                            *)

Leaves == {<<"x">>, <<"1">>, <<"2">>, <<"true">>, <<"nil">>, <<"'a'">>, CallF, <<"...">>,
             <<"{">> \o CallF \o <<"}">>}

FewLeaves == {<<"x">>, <<"2">>, CallF}

Prefixed(es) == Before({<<"not">>, <<"#">>, <<"-">>}, es)

Operators == {<<op>> : op \in {"or", "and", "==", "<", "..", "+", "-", "*", "^"}}

OneOperator(es) == Prefixed(es) \cup Before(es, Before(Operators, es))

Grouped(es) == {Parenthesised(e) : e \in es}

MCExpressions ==
  LET simple == OneOperator(FewLeaves)
      either == simple \cup Grouped(simple)
  IN Leaves \cup Grouped(Leaves) \cup OneOperator(Leaves)
     \cup Prefixed(either)
     \cup Before(either, Before(Operators, FewLeaves))
     \cup Before(FewLeaves, Before(Operators, Grouped(simple)))

\* What the expression gives a caller, and what it decides.
Returned(e) ==
  <<"local", "function", "g", "(", "x", ",", "...", ")", "return">> \o e
  \o <<"end", "f", "(", "g", "(", "2", ",", "1", ")", ")">>

Tested(e) ==
  <<"local", "function", "g", "(", "x", ",", "...", ")", "if">> \o e
  \o <<"then", "f", "(", "1", ")", "else", "f", "(", "2", ")", "end", "end",
       "g", "(", "2", ",", "1", ")">>

-----------------------------------------------------------------------------
(* Statements.                                                             *)

CallOf(name, arg) == <<name, "(", arg, ")">>

Statements ==
  {<<"local", "y", "=", v>> : v \in {"1", "nil", "x"}}
  \cup {<<"y", "=", "2">>, <<"y", "+=", "1">>, CallOf("f", "y"), CallOf("g", "y"),
        <<"(", "f", ")", "(", "y", ")">>, <<"return", "y">>, <<"return">>, <<";">>}

\* What follows a block.
Endings ==
  {CallOf("f", "y"), CallOf("g", "3"), <<"(", "f", ")", "(", "y", ")">>, <<"y", "(", ")">>,
   <<"return", "y">>}

Around(head, tail) == {head \o s \o tail : s \in Statements \cup {<<"break">>}}

Function(head) == Around(head, <<"end">>)

Blocks ==
  Around(<<"if", "y", "then">>, <<"end">>)
  \cup Around(<<"if", "true", "then">>, <<"else">> \o CallOf("f", "0") \o <<"end">>)
  \cup Around(<<"if", "false", "then">>,
              <<"elseif", "true", "then">> \o CallOf("f", "2") \o <<"end">>)
  \cup Around(<<"if", "false", "then">> \o CallOf("f", "2") \o <<"else">>, <<"end">>)
  \cup Around(<<"if", "not", "y", "then">>, <<"else">> \o CallOf("f", "2") \o <<"end">>)
  \cup Around(<<"do">>, <<"end">>)
  \cup Around(<<"while", "y", "do">>, <<"end">>)
  \cup Around(<<"repeat">>, <<"until", "y">>)
  \cup Around(<<"for", "y", "=", "1", ",", "2", "do">>, <<"end">>)
  \cup Around(<<"for", "i", ",", "y", "in", "f", "do">>, <<"end">>)
  \cup Function(<<"local", "function", "g", "(", "y", ")">>)
  \cup Function(<<"function", "g", "(", "p", ",", "...", ")">>)
  \cup Function(<<"local", "g", "=", "function", "(", "y", ")">>)
  \cup Around(<<"f", "(", "function", "(", ")">>, <<"end", ")">>)

-----------------------------------------------------------------------------
(* Calls, members and tables.                                              *)

Bases == {<<"x">>, CallF, <<"(", "'a'", ")">>, <<"(", "x", "or", "1", ")">>,
          <<"(", "{">> \o CallF \o <<"}", ")">>, Parenthesised(CallF),
          <<"(", "function", "(", ")", "end", ")">>}

Tails == {<<".", "b">>, <<"[", "1", "]">>, <<":", "b", "(", "1", ")">>, <<"(", "x", ")">>,
             <<"'a'">>, <<"{", "1", "}">>}

Chains == Before(Bases, Tails \cup Before(Tails, Tails))

TableFields == {<<"1">>, <<"b", "=", "2">>, <<"[", "x", "]", "=", "1">>, CallF}

Tables == Before({<<"{">>}, Before(TableFields, Before({<<",">>}, Before(TableFields, {<<"}">>}))))

Assignees == Before({<<"x">>, CallF}, Before({<<>>} \cup Tails, {<<".", "b">>, <<"[", "1", "]">>}))

MCSources ==
  {Returned(e) : e \in MCExpressions}
  \cup {Tested(e) : e \in OneOperator(Leaves)}
  \cup Before(Statements, Before(Blocks, Endings))
  \cup Before(Statements, Before(Statements, Endings))
  \cup {<<"local", "b", "=", "1", "local", "z", "=">> \o e \o CallOf("f", "z") :
          e \in Chains \cup Tables}
  \cup {CallOf("f", "x") \o <<"function", "x", ":", "b", "(", "c", ")", "return">> \o e
        \o <<"end">> : e \in Before(Bases, Tails)}
  \cup {<<"local", "b", "=", "1">> \o t \o <<"=">> \o e : t \in Assignees, e \in Tables}
  \cup {<<"x", ",", "y", op, "1">> \o CallOf("f", "x") :
          op \in {"=", "+=", "+", "==", "then", "z", ")"}}

\* Programs that set a local in a block and use it after the block.
MCAssigning ==
  Before({<<"local", "y", "=", "1">>},
         Before({<<"do", "y", "=", "2", "end">>,
                 <<"while", "y", "==", "1", "do", "y", "=", "2", "end">>},
                {CallOf("f", "y")}))

-----------------------------------------------------------------------------
(* Programs that look up and set globals, by name and through the table    *)
(* they are handed as R.  J gives their strings.                           *)

AtKeys(h) ==
  {<<h, "[", k, "]">> : k \in {"'print'", "'f'", "v", "1"}}
  \cup {<<h, "[", "J", "(", k, ")", "]">> : k \in {"1", "2"}}
  \cup {<<h, ".", k>> : k \in {"print", "f"}}

Through(h) ==
  Before(AtKeys(h), {<<"(", "1", ")">>, <<"=", "1">>})
  \cup {<<h, "[", "tostring", "(", "f", "and", "1", ")", "]", "=", "1">>,
        <<h, "[", "'f'", "and", "v", "]", "(", ")">>,
        <<"function", h, ".", "print", "(", ")", "end">>}
  \cup Before({<<"v", "=">>, <<"local", "v", "=">>}, AtKeys(h))
  \cup {<<"local", "f", "=", h>>, <<"v", "=", h>>, <<h, ":", "f", "(", ")">>,
        <<"setfenv", "(", "1", ",", h, ")">>,
        <<"while", "v", "do", "if", "v", "then", "v", "=", h, ".", "f", "end", "end">>}

ByName ==
  {<<"v", "=", k>> : k \in {"'print'", "'f'", "'setfenv'", "1"}}
  \cup {CallOf(f, "v") : f \in {"f", "print", "tostring"}}
  \cup {<<"local", "v">>, <<"local", "v", "=", "'print'">>, CallOf("v", "1"),
        <<"v", ".", "f", "(", ")">>, <<"v", "=", "v", "and", "'f'">>,
        <<"if", "1", "then", "v", "=", "'f'", "end">>,
        <<"do", "local", "R", "=", "{", "}", "local", "v", "end">>,
        <<"local", "function", "g", "(", "R", ")", "return", "R", ".", "f", "end",
          "g", "(", "1", ")">>,
        <<"function", "print", "(", ")", "end">>, <<"function", "f", "(", ")", "end">>,
        <<"f", "=", "1">>, <<"print", "=", "1">>,
        <<"v", "=", "tostring", "(", "not", "{", "f", "}", ")">>,
        <<"v", "=", "1", "and", "f">>,
        <<"print", "(", "{", "[", "f", "]", "=", "1", "}", ")">>,
        <<"print", "(", "{", "f", "=", "1", "}", ")">>}

Handed(body, env) ==
  <<"(", "function", "(", "R", ")">> \o body \o <<"end", ")", "(">> \o env \o <<")">>

Decoder ==
  <<"local", "function", "J", "(", "i", ")", "if", "i", "==", "1", "then",
    "return", "'print'", "end", "return", "'f'", "end">>

MCStrings == <<"print", "f">>

MCReading ==
  LET inside == Through("R") \cup ByName
      alone  == Through("_G") \cup ByName
  IN {Decoder \o Handed(b, <<"_ENV">>) : b \in Before(inside, inside)}
     \cup {a \o Handed(b, e) : a \in ByName, b \in inside,
             e \in {<<"getfenv", "(", ")", "or", "_ENV">>, <<"f", "or", "_G">>}}
     \cup {Handed(<<"v", "=", "'print'">> \o b, <<"_ENV">>) : b \in Before(ByName, Through("R"))}
     \cup {Decoder \o a : a \in Before(alone, alone)}
=============================================================================
