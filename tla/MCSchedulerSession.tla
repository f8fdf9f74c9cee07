------------------------- MODULE MCSchedulerSession -------------------------
(* Small instances of SchedulerSession. *)
EXTENDS SchedulerSession, TLC

Symmetric == Permutations(Requests) \cup Permutations(Windows)

=============================================================================
