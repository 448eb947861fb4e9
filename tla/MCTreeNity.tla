----------------------------- MODULE MCTreeNity -----------------------------
(* Small instances of TreeNity.                                            *)
EXTENDS TreeNity, TLC

CONSTANTS t1, a, b, k1, k2, p1, p2, q1, c1, i1

OneTopic == [p \in Procs |-> t1]

SameName == [p \in Subscribers |-> a]
TwoNames == [p \in Subscribers |-> IF p = p2 THEN b ELSE a]

\* p1 subscribes without --prefix, the others to k1.
Prefixes == [p \in Subscribers |-> IF p = p1 THEN Keys ELSE {k1}]

NoOffset == {-1}
SomeOffsets == {-1, 0, 1}

=============================================================================
