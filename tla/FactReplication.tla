-------------------------- MODULE FactReplication --------------------------
(***************************************************************************)
(* What the replication engine promises, without logs, pages or sessions:  *)
(* every replica holds a set of facts and, for each peer, a set of facts   *)
(* it knows that peer to hold.                                             *)
(***************************************************************************)
CONSTANTS Replica, Fact

VARIABLES held, known

Init ==
  /\ held = [r \in Replica |-> {}]
  /\ known = [r \in Replica |-> [p \in Replica |-> {}]]

\* A fact is written at a replica.
Create(r, f) ==
  /\ held' = [held EXCEPT ![r] = @ \cup {f}]
  /\ UNCHANGED known

\* A replica copies facts from a peer: none is invented, none is lost.
Copy(r, p, facts) ==
  /\ facts \subseteq held[p]
  /\ held' = [held EXCEPT ![r] = @ \cup facts]
  /\ UNCHANGED known

\* A replica learns that a peer holds facts: only what is true.
Learn(r, p, facts) ==
  /\ facts \subseteq held[r] \cap held[p]
  /\ known' = [known EXCEPT ![r][p] = @ \cup facts]
  /\ UNCHANGED held

Next ==
  \E r \in Replica :
    \/ \E f \in Fact : Create(r, f)
    \/ \E p \in Replica, facts \in SUBSET Fact :
         Copy(r, p, facts) \/ Learn(r, p, facts)

Spec == Init /\ [][Next]_<<held, known>>
===========================================================================
