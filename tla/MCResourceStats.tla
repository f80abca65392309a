---------------------------- MODULE MCResourceStats ----------------------------
(* ResourceStats for TLC. *)
EXTENDS ResourceStats

CONSTANTS p1, p2, p3

Symmetry == Permutations(Procs)
=============================================================================
