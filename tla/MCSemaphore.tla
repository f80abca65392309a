----------------------------- MODULE MCSemaphore -----------------------------
(* Semaphore for TLC. *)
EXTENDS Semaphore

CONSTANTS p1, p2, p3, s1, s2

OnePrio == {0}
Empty == [s \in Sems |-> 0]
FreeOne == [s \in Sems |-> IF s = s1 THEN 1 ELSE 0]
Fifo == [s \in Sems |-> "FIFO"]
Mixed == [s \in Sems |-> IF s = s1 THEN "LIFO" ELSE "SIRO"]
Symmetry == Permutations(Procs)
=============================================================================
