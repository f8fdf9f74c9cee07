------------------------ MODULE MCTargetMaintenance ------------------------
(* Small instances of TargetMaintenance. *)
EXTENDS TargetMaintenance, TLC

Symmetric == Permutations(Urls) \cup Permutations(Names)

=============================================================================
