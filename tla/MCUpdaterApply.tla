--------------------------- MODULE MCUpdaterApply ---------------------------
(* Small instances of UpdaterApply. *)
EXTENDS UpdaterApply, TLC

Symmetric == Permutations(Updaters) \cup Permutations(Parts)

=============================================================================
