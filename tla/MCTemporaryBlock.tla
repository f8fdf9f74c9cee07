-------------------------- MODULE MCTemporaryBlock --------------------------
(* Small instances of TemporaryBlock. *)
EXTENDS TemporaryBlock, TLC

Symmetric == Permutations(Targets) \cup Permutations(Workers)

=============================================================================
