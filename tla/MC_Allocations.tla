--------------------------- MODULE MC_Allocations ---------------------------
(* Small fleets for Allocations: two peers, one task. *)
EXTENDS Allocations

CONSTANTS A, B, a1, a2, b1, issue

Two == {A, B}
OneEach == {a1, b1}
MCOwner == [x \in Attempt |-> IF x = b1 THEN B ELSE A]
MCTaskOf == [x \in Attempt |-> issue]
MCRank == [x \in Attempt |-> IF x = a1 THEN 1 ELSE IF x = a2 THEN 2 ELSE 3]
NoLegacy == {}
OneLegacy == {a1}

\* A fleet that promises nothing, and one that keeps to its times.
Late == [traversal |-> 1, missed |-> 1, exchanges |-> {0, 2}, kept |-> FALSE]
Kept == [traversal |-> 2, missed |-> 2, exchanges |-> {2}, kept |-> TRUE]
LateOrKept == {Late, Kept}
JustLate == {[Late EXCEPT !.exchanges = {0}]}
=============================================================================
