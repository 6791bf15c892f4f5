-------------------------- MODULE MC_DatabaseOwner --------------------------
(* Two services and few clients for DatabaseOwner. *)
EXTENDS DatabaseOwner

CONSTANTS P, Q, T, S
Both == {P, Q}
Clients == {T, S}
Statements1 == {S}
=============================================================================
