----------------------------- MODULE RecoveryMC -----------------------------
(***************************************************************************)
(* What Recovery is given for TLC: what the preflight measures stands on   *)
(* either side of each threshold, and the evidence varies in one group of  *)
(* fields at a time.                                                       *)
(***************************************************************************)
EXTENDS Recovery

Measured(bytes, tokens, depth, line) ==
  [bytes |-> bytes, tokens |-> tokens, maxDepth |-> depth, maxLineLength |-> line]

MCProfiles == {Measured(320000, 100000, 350, 1200000),
               Measured(320000, 100000, 351, 1),
               Measured(1200000, 190001, 1, 1),
               Measured(1, 1, 1, 1200001)}

PlainProgram == [kind |-> "plain", profile |-> None]

Closed(shape, vararg, capture, mixed) ==
  [walk |-> {}, env |-> {}, preEnv |-> {}, branches |-> FALSE,
   covered |-> TRUE, shape |-> shape, vararg |-> vararg,
   capture |-> capture, multi |-> FALSE, nested |-> TRUE, mixed |-> mixed]

\* Programs that may be open, have branches, and be covered or not.
OpenEvidence ==
  {[Closed("other", "none", "none", PlainProgram) EXCEPT
      !.walk = w, !.env = n, !.preEnv = p, !.branches = b, !.covered = c] :
     w \in {{}, {"global"}},
     <<n, p>> \in {<<{}, {}>>, <<{"unknown"}, {}>>, <<{}, {"dynamic"}>>},
     b \in BOOLEAN, c \in BOOLEAN}

\* Closed programs by what they print and pass around.
PlainEvidence ==
  {Closed(s, v, c, PlainProgram) :
     s \in {"one", "two", "wide", "six", "other"},
     v \in {"none", "plain", "dynamic"}, c \in {"none", "dynamic"}}

\* Closure factories, read from the tree and lifted.
FactoryEvidence ==
  {Closed(s, "none", "none", [kind |-> "factory", profile |->
     [table |-> t, counter |-> c, written |-> 1, invocations |-> i, test |-> b,
      returns |-> 2, captures |-> TRUE, tampered |-> x, dynamic |-> d]]) :
     s \in {"six"}, t \in BOOLEAN, c \in BOOLEAN, i \in {0, 2},
     b \in {"none", "counter"},
     <<x, d>> \in {<<FALSE, FALSE>>, <<TRUE, FALSE>>, <<FALSE, TRUE>>}}

\* own: what the protected program itself binds and passes, the values of the
\* repository's fixture or others.
FixtureValues ==
  [bound |-> "hi", packed |-> <<"one", "two">>, args |-> <<"x", "y">>, arity |-> 0]

OtherValues ==
  [bound |-> "bye", packed |-> <<"three", "four">>, args |-> <<"z">>, arity |-> 0]

Lifted(own, packs, mutations, widest, branches, multiReturns, detached) ==
  Closed("other", "none", "none", [kind |-> "lifted", profile |->
    [own |-> own, packs |-> packs, closures |-> 1, mutations |-> mutations,
     widest |-> widest, branches |-> branches, multiReturns |-> multiReturns,
     detached |-> detached]])

LiftedEvidence ==
  {Lifted(FixtureValues, p, m, w, b, r, d) :
     <<p, m, w, b, r, d>> \in
       {<<1, 1, 2, 1, 2, TRUE>>, <<0, 1, 2, 1, 2, TRUE>>, <<1, 0, 2, 1, 2, TRUE>>,
        <<1, 1, 0, 1, 2, TRUE>>, <<1, 1, 2, 0, 2, TRUE>>, <<1, 1, 2, 1, 1, TRUE>>,
        <<1, 1, 2, 1, 2, FALSE>>, <<0, 0, 0, 0, 1, FALSE>>}}
  \cup {Lifted(OtherValues, 1, 1, 2, 1, 2, TRUE)}

MCEvidence == OpenEvidence \cup PlainEvidence \cup FactoryEvidence \cup LiftedEvidence
=============================================================================
