---------------------------- MODULE Transactions ----------------------------
(***************************************************************************)
(* What clients of the database service may rely on (src/database/mod.rs): *)
(* each transaction takes effect as a whole or not at all, once, and never *)
(* after its client was told that it failed; a transport failure while it  *)
(* is committed leaves its outcome unknown.  Whatever happens to the       *)
(* service, again and again there is one that accepts clients.             *)
(***************************************************************************)

CONSTANT Client   \* sessions with one transaction, or one statement, each

VARIABLES
  state,      \* what became of a client's transaction
  told,       \* what its client knows of that
  available   \* does a service accept clients?

vars == <<state, told, available>>

Init ==
  /\ state = [c \in Client |-> "pending"]
  /\ told = [c \in Client |-> "nothing"]
  /\ available = FALSE

\* The client may hear of the success, or lose its connection, in the same
\* step or have lost it before.
Commit(c) ==
  /\ state[c] = "pending" /\ told[c] # "failed"
  /\ state' = [state EXCEPT ![c] = "committed"]
  /\ \E t \in {"committed", "unknown"} :
       /\ told[c] = "unknown" => t = "unknown"
       /\ told' = [told EXCEPT ![c] = t]

Lose(c) ==
  /\ told[c] = "nothing"
  /\ told' = [told EXCEPT ![c] = "unknown"]
  /\ UNCHANGED state

Fail(c) ==
  /\ told[c] = "nothing" /\ state[c] = "pending"
  /\ told' = [told EXCEPT ![c] = "failed"]
  /\ UNCHANGED state

Serve == available' \in BOOLEAN /\ UNCHANGED <<state, told>>

Next ==
  \/ Serve
  \/ \E c \in Client : (Commit(c) \/ Lose(c) \/ Fail(c)) /\ available' \in BOOLEAN

Safety == Init /\ [][Next]_vars
Spec == Safety /\ []<>available
=============================================================================
