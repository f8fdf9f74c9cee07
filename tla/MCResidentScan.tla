--------------------------- MODULE MCResidentScan ---------------------------
(***************************************************************************)
(* Small instances of ResidentScan for TLC.                                *)
(***************************************************************************)
EXTENDS ResidentScan, TLC

WorkerSymmetry == Permutations(Workers)
=============================================================================
