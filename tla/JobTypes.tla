------------------------------ MODULE JobTypes ------------------------------
(***************************************************************************)
(* The job states and the legal transitions between them, as declared in   *)
(* packages/queue/src/types.js.                                            *)
(***************************************************************************)

JobState ==
  {"QUEUED", "RUNNING", "COMPLETED", "FAILED", "CANCELLED", "TIMED_OUT",
   "RESOURCE_LIMIT"}

TERMINAL_STATES ==
  {"COMPLETED", "FAILED", "CANCELLED", "TIMED_OUT", "RESOURCE_LIMIT"}

isValidTransition(from, to) ==
  \/ from = to
  \/ from = "QUEUED"  /\ to \in {"RUNNING", "CANCELLED", "TIMED_OUT"}
  \/ from = "RUNNING" /\ to \in TERMINAL_STATES \cup {"QUEUED"}

=============================================================================
