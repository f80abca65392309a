------------------------------- MODULE MCBucket -------------------------------
(* Bucket for TLC. *)
EXTENDS Bucket

CONSTANTS p1, p2, p3, b1, b2

Item(b, side, amt) == [b |-> b, side |-> side, amt |-> amt]
SamePrio == [p \in Procs |-> 0]
Caps == [b \in Buckets |-> IF b = b1 THEN 2 ELSE 1]
Empty == [b \in Buckets |-> 0]
Fifo == [pl \in Places |-> "FIFO"]
FifoLifo == [pl \in Places |-> IF pl[2] = "get" THEN "FIFO" ELSE "LIFO"]
AllItems == {Item(b1, side, amt) : side \in Sides, amt \in {1, 2}}
NoWaits == {}
Symmetry == Permutations(Procs)
=============================================================================
