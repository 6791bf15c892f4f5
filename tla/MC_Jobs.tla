------------------------------- MODULE MC_Jobs -------------------------------
(* Small fleets for Jobs: two machines, an occurrence on every machine and a *)
(* plain one after it.                                                       *)
EXTENDS Jobs

CONSTANTS A, B, every, onA, onB, next

Two == {A, B}
Slower == {B}
NoSlow == {}
Plain == {next}
Handovers == [r \in Run |-> IF Parent[r] = r THEN 2 ELSE 1]
Twice == {every, onA, next}
MCParent == [r \in Run |-> IF r \in {onA, onB} THEN every ELSE r]
MCTarget == [r \in Run |-> CASE r = onA -> A [] r = onB -> B [] OTHER -> None]
==============================================================================
