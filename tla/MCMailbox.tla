------------------------------- MODULE MCMailbox -------------------------------
(* Mailbox for TLC. *)
EXTENDS Mailbox

CONSTANTS p1, p2, p3, m1, m2, m3, a, b

\* The processes and the messages are interchangeable, and so are partitions.
Symmetry == Permutations(Procs) \cup Permutations(Msgs) \cup Permutations(Parts)
=============================================================================
