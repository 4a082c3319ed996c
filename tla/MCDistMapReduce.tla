-------------------------- MODULE MCDistMapReduce ---------------------------
(* Small instances of DistMapReduce for TLC. *)
EXTENDS DistMapReduce, TLC

Symmetry == Permutations(Trackers)
=============================================================================
