----------------------------- MODULE MCSimulator -----------------------------
(* Simulator for TLC: small sets of processes, traps and events. *)
EXTENDS Simulator

CONSTANTS p1, p2, x1, e1

TwoProcs == {p1, p2}
\* Waiting for a trap and an event, or for the end of one of the processes.
Lists == {<<x1, e1>>, <<p1>>, <<p2>>}
Symmetry == Permutations(TwoProcs)
=============================================================================
