------------------------------- MODULE MCPQDict -------------------------------
(* PQDict for TLC: six events, as many as it takes for a deleted entry to be *)
(* replaced by one of another branch, which then has to swim up.             *)
EXTENDS PQDict, TLC

CONSTANTS e1, e2, e3, e4, e5, e6

Symmetry == Permutations(Events)
=============================================================================
