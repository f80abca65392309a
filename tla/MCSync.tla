-------------------------------- MODULE MCSync --------------------------------
(* Sync for TLC: simulators a, b and c, the last one without a mailbox. *)
EXTENDS Sync

CONSTANTS a, b, c, e1, e2, m1, m2

Group(sm, sims_, ways) == [smp |-> sm, sims |-> sims_, ways |-> ways]
One(s) == 0 :> s
Two(s, t) == (0 :> s) @@ (1 :> t)

\* Everything in one process; two processes; two ranks of one process each; and
\* two ranks of which one has two processes.
Sequential == Group(FALSE, One(<<a, c, b>>), One(1))
TwoCpus == Group(TRUE, One(<<a, c, b>>), One(2))
TwoRanks == Group(FALSE, Two(<<a, c>>, <<b>>), Two(1, 1))
Cluster == Group(TRUE, Two(<<b>>, <<a, c>>), Two(2, 2))
AllGroups == {Sequential, TwoCpus, TwoRanks, Cluster}
Seq1 == {Sequential}
Delays == (a :> 1) @@ (b :> 2)
NoDelays == [s \in {} |-> 0]
Zero == [s \in Sims |-> 0]
AllZero == {Zero}
Starts == {Zero, [s \in Sims |-> IF s = b THEN 1 ELSE 0]}
=============================================================================
