------------------------------ MODULE Ranking ------------------------------
(***************************************************************************)
(* Orderings of finite sets and filters of sequences, written without      *)
(* recursion so that the proofs about the queue can reason about them.     *)
(***************************************************************************)
EXTENDS Integers, Sequences, FiniteSets

(***************************************************************************)
(* The elements of the finite set S as a sequence in ascending order of    *)
(* rank; rank is injective on S.                                           *)
(***************************************************************************)
Ranked(S, rank) ==
  [k \in 1 .. Cardinality(S) |->
     CHOOSE e \in S : Cardinality({f \in S : rank[f] <= rank[e]}) = k]

(***************************************************************************)
(* What s has at the positions kept, in the order it has it; and the       *)
(* sequence s with every occurrence of x dropped: JavaScript's             *)
(* s.filter(id => id !== x).                                               *)
(***************************************************************************)
Filtered(s, kept) ==
  LET at == Ranked(kept, [i \in kept |-> i])
  IN  [k \in 1 .. Cardinality(kept) |-> s[at[k]]]

Without(s, x) == Filtered(s, {i \in DOMAIN s : s[i] # x})

(***************************************************************************)
(* The elements of s, and the statement that none of them occurs twice.    *)
(***************************************************************************)
Entries(s) == {s[i] : i \in DOMAIN s}

Distinct(s) == \A i, k \in DOMAIN s : s[i] = s[k] => i = k

=============================================================================
