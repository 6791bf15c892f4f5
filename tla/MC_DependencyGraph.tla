------------------------ MODULE MC_DependencyGraph ------------------------
(***************************************************************************)
(* Edits for model-checking DependencyGraph: which users, on whichever     *)
(* peer, give which task which blockers.                                   *)
(***************************************************************************)
EXTENDS DependencyGraph

\* Two edits of task 1 compete; cycles of two and of three tasks are possible
\* that no single peer would accept, and task 3 gets a good and a bad blocker.
Entangled == {<<1, {2}>>, <<1, {3}>>, <<2, {3}>>, <<3, {1, 2}>>}

\* Two edits of one task compete, and each closes a cycle with a third one.
Competing == {<<1, {2}>>, <<1, {3}>>, <<3, {1}>>}
============================================================================
