------------------------------ MODULE MCResource ------------------------------
(* Resource for TLC. *)
EXTENDS Resource

CONSTANTS p1, p2, p3, p4

TwoPrios == {1, 2}
Symmetry == Permutations(Procs)
=============================================================================
