------------------------------- MODULE MCStore -------------------------------
(* Store for TLC: an empty store, and one that is created with an object. *)
EXTENDS Store

CONSTANTS p1, p2, p3, s1, s2

Get1(s, n) == [b |-> s, side |-> "get", amt |-> n, obj |-> FALSE]
Put1(s, n, o) == [b |-> s, side |-> "put", amt |-> n, obj |-> o]
SamePrio == [p \in Procs |-> 0]
Caps == [s \in Buckets |-> IF s = s1 THEN 2 ELSE 1]
Start == [s \in Buckets |-> IF s = s1 THEN 0 ELSE 1]
FifoLifo == [pl \in Buckets \X {"get", "put"} |-> IF pl[2] = "get" THEN "FIFO" ELSE "LIFO"]
Single == {Get1(s1, 2), Put1(s1, 1, TRUE), Put1(s1, 1, FALSE)}
Lists == {[items |-> <<Get1(s1, 1), Get1(s2, 1)>>, every |-> TRUE, timed |-> FALSE],
          [items |-> <<Put1(s2, 1, TRUE), Put1(s1, 2, TRUE)>>, every |-> FALSE, timed |-> TRUE]}
Symmetry == Permutations(Procs)
=============================================================================
