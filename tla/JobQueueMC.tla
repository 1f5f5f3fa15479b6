----------------------------- MODULE JobQueueMC -----------------------------
(***************************************************************************)
(* JobQueue on small instances for TLC.                                    *)
(***************************************************************************)
EXTENDS JobQueue

\* Without(s, x) is what Sequences calls SelectSeq, on every short sequence.
ASSUME WithoutIsAFilter ==
  \A n \in 0 .. 3 : \A s \in [1 .. n -> JobIds] : \A x \in JobIds :
    LET other(y) == y # x IN Without(s, x) = SelectSeq(s, other)

=============================================================================
