------------------------------- MODULE MCSched -------------------------------
(* Sched for TLC: three processes. *)
EXTENDS Sched

CONSTANTS p1, p2, p3

MCProcs == {p1, p2, p3}
=============================================================================
