-------------------------- MODULE DependencyGraph --------------------------
(***************************************************************************)
(* Task dependencies on peers that edit them concurrently                  *)
(* (issues/blockers.rs, distributed/graph.rs with its callers             *)
(* projection.rs and materialize.rs).  A task with unfinished blockers is  *)
(* blocked: every command that may change that ends by reconciling the     *)
(* states, in the same transaction, and each row it updates is a fact.     *)
(* State and blockers are one lifecycle group, which is replaced as a      *)
(* whole by the newest fact.  Concurrent edits can propose a cycle, so the *)
(* proposals are filtered into an acyclic graph, and the rows of the       *)
(* issues table that the filter may have changed are written.              *)
(***************************************************************************)
EXTENDS Integers, Sequences, FiniteSets, SequencesExt

CONSTANTS
  Replica,     \* peers, numbered in the order of their origin names
  Issue,       \* the task numbers of one project
  Proposals,   \* bound: the edits that users ask for, of a task and its blockers
  Handled,     \* bound: the tasks that users block, close and reopen
  MaxFacts     \* bound: lifecycle facts of all peers

ASSUME DependencyAssumption ==
  /\ Replica \subseteq Nat \ {0}
  /\ Issue \subseteq Nat \ {0}
  /\ IsFiniteSet(Issue)
  /\ Proposals \subseteq Issue \X SUBSET Issue
  /\ Handled \subseteq Issue
  /\ MaxFacts \in Nat

VARIABLES
  log,     \* the facts every peer captured, in its own order
  known,   \* how many facts of each peer a peer has reduced
  clock,   \* Lamport clocks (distributed_meta)
  fields,  \* the winning lifecycle groups (distributed_fields)
  dirty,   \* issues whose row has to be written again
  active,  \* blockers in the issues table
  closed,  \* the closed tasks in the issues table
  missed   \* history: rows that reducing a fact changed without marking them

vars == <<log, known, clock, fields, dirty, active, closed, missed>>

\* A fact about the lifecycle of an issue: its blockers before and after, and
\* whether it is closed now.  reduced is what its author had reduced: journals
\* are copied in order, so a fact follows whatever its author had seen.
Fact == [issue: Issue, clock: Nat, origin: Replica, closed: BOOLEAN,
         before: SUBSET Issue, after: SUBSET Issue, reduced: [Replica -> Nat]]
Field == [clock: Nat, origin: Replica \cup {0}, closed: BOOLEAN,
          blockers: SUBSET Issue]

Facts == UNION {Range(log[r]) : r \in Replica}

----------------------------------------------------------------------------
(* The graph: a set of edges <<issue, blocker>>. *)

Edges(blockers) == {e \in Issue \X Issue : e[2] \in blockers[e[1]]}

\* reaches: from is target, or a chain of edges leads there; every set of issues
\* that holds from and follows the edges holds what can be reached.
Reaches(edges, from, target) ==
  \A nodes \in SUBSET Issue :
    from \in nodes /\ (\A e \in edges : e[1] \in nodes => e[2] \in nodes)
      => target \in nodes

Acyclic(edges) == \A e \in edges : ~Reaches(edges, e[2], e[1])

\* Proposed edges are taken by task, then by blocker.
Before(d, e) == d[1] < e[1] \/ (d[1] = e[1] /\ d[2] < e[2])

\* blockers: an edge that would close a cycle with those accepted before it is
\* left out and stays proposed.
\* Deviation: one bad edge discards all blockers of its task.
Accepted_WholeTasks(group) ==
  LET add(edges, i) == LET new == {<<i, b>> : b \in group[i].blockers}
                       IN IF Acyclic(edges \cup new) THEN edges \cup new ELSE edges
      edges == FoldLeft(add, {}, SetToSortSeq(Issue, <))
  IN [i \in Issue |-> {b \in Issue : <<i, b>> \in edges}]
\* Deviation: an edge is held against the other blockers of its own task only.
Accepted_TaskByTask(group) ==
  LET proposed == Edges([i \in Issue |-> group[i].blockers])
      edges == CHOOSE s \in SUBSET proposed : \A e \in proposed :
                 e \in s <=> ~Reaches({d \in s : d[1] = e[1] /\ Before(d, e)}, e[2], e[1])
  IN [i \in Issue |-> {b \in Issue : <<i, b>> \in edges}]
Accepted(group) ==
  LET proposed == Edges([i \in Issue |-> group[i].blockers])
      edges == CHOOSE s \in SUBSET proposed : \A e \in proposed :
                 e \in s <=> ~Reaches({d \in s : Before(d, e)}, e[2], e[1])
  IN [i \in Issue |-> {b \in Issue : <<i, b>> \in edges}]

----------------------------------------------------------------------------
Init ==
  /\ log = [r \in Replica |-> <<>>]
  /\ known = [n \in Replica |-> [r \in Replica |-> 0]]
  /\ clock = [n \in Replica |-> 0]
  /\ fields = [n \in Replica |->
       [i \in Issue |-> [clock |-> 0, origin |-> 0, closed |-> FALSE, blockers |-> {}]]]
  /\ dirty = [n \in Replica |-> {}]
  /\ active = [n \in Replica |-> [i \in Issue |-> {}]]
  /\ closed = [n \in Replica |-> {}]
  /\ missed = [n \in Replica |-> {}]

\* The state of a task that nobody holds, as reconciling derives it: blocked
\* while one of its blockers is unfinished.
State(blockers, shut, i) ==
  IF i \in shut THEN "closed" ELSE IF blockers[i] \subseteq shut THEN "open" ELSE "blocked"

\* The tasks whose row is updated once more when the states are reconciled: the
\* update of task i wrote state, every other row was reconciled before.
Reconciled(n, i, state, blockers, shut) ==
  {j \in Issue \ shut :
     State(blockers, shut, j) # IF j = i THEN state ELSE State(active[n], closed[n], j)}

\* The capture trigger: the k-th row updated by a transaction is a fact with the
\* k-th next clock value; the images of the row carry the blockers that are
\* active here.
Captured(n, rows, blockers, shut) ==
  [k \in DOMAIN rows |->
     [issue |-> rows[k], clock |-> clock[n] + k, origin |-> n, closed |-> rows[k] \in shut,
      before |-> IF k = 1 THEN active[n][rows[1]] ELSE blockers[rows[k]],
      after |-> blockers[rows[k]], reduced |-> known[n]]]

\* The transaction of a command: mutate updates the row of task i, then
\* reconcile goes over the tasks in the order of their numbers.
Transaction(n, i, state, blockers, shut) ==
  LET tasks == Reconciled(n, i, state, blockers, shut)
  IN \E order \in [1 .. Cardinality(tasks) -> tasks] :
       LET facts == Captured(n, <<i>> \o order, blockers, shut)
       IN /\ \A k, l \in DOMAIN order : k < l => order[k] < order[l]
          /\ Cardinality(Facts) + Len(facts) <= MaxFacts
          /\ log' = [log EXCEPT ![n] = @ \o facts]
          /\ clock' = [clock EXCEPT ![n] = @ + Len(facts)]
          /\ active' = [active EXCEPT ![n] = blockers]
          /\ closed' = [closed EXCEPT ![n] = shut]
          /\ UNCHANGED <<known, fields, dirty, missed>>

\* validate_links: an edge is refused that closes a cycle of this peer's graph.
Valid(n, i, blockers) == \A b \in blockers : ~Reaches(Edges(active[n]), b, i)

\* hey blocked-by: the blockers are replaced, the state stays what it was.
SetBlockers(n, i, blockers) ==
  /\ blockers # active[n][i]
  /\ Valid(n, i, blockers)
  /\ Transaction(n, i, State(active[n], closed[n], i),
                 [active[n] EXCEPT ![i] = blockers], closed[n])

\* hey block with links: the task is blocked at once, and opened again when all
\* of its blockers are closed.
Block(n, i, blockers) ==
  /\ i \notin closed[n]
  /\ blockers # {}
  /\ Valid(n, i, blockers)
  /\ blockers # active[n][i] \/ State(active[n], closed[n], i) # "blocked"
  /\ Transaction(n, i, "blocked", [active[n] EXCEPT ![i] = blockers], closed[n])

\* A closed task opens those that waited for it alone.
Close(n, i) ==
  /\ i \notin closed[n]
  /\ Transaction(n, i, "closed", active[n], closed[n] \cup {i})

\* A reopened task blocks its dependents again, and itself if it must wait.
Reopen(n, i) ==
  /\ i \in closed[n]
  /\ Transaction(n, i, "open", active[n], closed[n] \ {i})

\* The newer revision wins, ties by origin.
\* Deviation: the revision that arrives last wins a tie.
Newer_ByArrival(f, group) == f.clock >= group.clock
Newer(f, group) ==
  \/ f.clock > group.clock
  \/ f.clock = group.clock /\ f.origin > group.origin

\* Reducing a fact moves the Lamport clock up to it.
\* Deviation: the clock counts local changes only.
Advanced_Never(c, f) == c
\* Deviation: the clocks are added up.
Advanced_Sum(c, f) == c + f.clock
Advanced(c, f) == IF f.clock > c THEN f.clock ELSE c

\* Rows that reducing f may change: its own and, if it changes blockers, all
\* with proposed edges.
\* Deviation: only the row of the fact is written again.
Touched_OwnRow(f, group) == {f.issue}
Touched(f, group) ==
  {f.issue} \cup IF f.before = f.after THEN {}
                 ELSE {i \in Issue : group[i].blockers # {}}

\* The rows that are due are written from the accepted graph.
Written(rows, group, due) ==
  LET accepted == Accepted(group)
  IN [i \in Issue |-> IF i \in due THEN accepted[i] ELSE rows[i]]

\* ... and closed as the groups say.
Shut(rows, group, due) ==
  {i \in Issue : IF i \in due THEN group[i].closed ELSE i \in rows}

\* Rows whose accepted blockers change although the fact that makes them change
\* left the blockers of its own task alone.
Lost(f, old, new) ==
  LET was == Accepted(old)
      now == Accepted(new)
  IN IF f.before # f.after THEN {} ELSE {i \in Issue : was[i] # now[i]}

\* import of the next fact of r: it is reduced and, at the end of the journal,
\* the dirty rows are written, unless own changes are still to be reduced.
\* last tells whether the journal ends here; marks are the rows that become
\* dirty because another column of the same fact, or its event, is new here.
Import(n, r, last) ==
  LET f == log[r][known[n][r] + 1]
      reduced == [known[n] EXCEPT ![r] = @ + 1]
      wins == Newer(f, fields[n][f.issue])
      group == IF ~wins THEN fields[n]
               ELSE [fields[n] EXCEPT ![f.issue] =
                       [clock |-> f.clock, origin |-> f.origin, closed |-> f.closed,
                        blockers |-> f.after]]
      ready == last /\ reduced[n] = Len(log[n])
  IN /\ known[n][r] < Len(log[r])
     /\ \A s \in Replica : f.reduced[s] <= known[n][s]
     /\ \E marks \in {{}, {f.issue}, Touched(f, group)} :
          LET due == dirty[n] \cup marks \cup IF wins THEN Touched(f, group) ELSE {}
          IN /\ dirty' = [dirty EXCEPT ![n] = IF ready THEN {} ELSE due]
             /\ active' = [active EXCEPT ![n] = IF ready THEN Written(@, group, due) ELSE @]
             /\ closed' = [closed EXCEPT ![n] = IF ready THEN Shut(@, group, due) ELSE @]
             /\ missed' = [missed EXCEPT ![n] =
                  (IF ready THEN @ \ due ELSE @) \cup (Lost(f, fields[n], group) \ due)]
     /\ known' = [known EXCEPT ![n] = reduced]
     /\ clock' = [clock EXCEPT ![n] = Advanced(@, f)]
     /\ fields' = [fields EXCEPT ![n] = group]
     /\ UNCHANGED log

\* import without a new fact, for rows that are still dirty.
Materialize(n) ==
  /\ dirty[n] # {}
  /\ known[n][n] = Len(log[n])
  /\ dirty' = [dirty EXCEPT ![n] = {}]
  /\ active' = [active EXCEPT ![n] = Written(@, fields[n], dirty[n])]
  /\ closed' = [closed EXCEPT ![n] = Shut(@, fields[n], dirty[n])]
  /\ missed' = [missed EXCEPT ![n] = @ \ dirty[n]]
  /\ UNCHANGED <<log, known, clock, fields>>

Next ==
  \/ \E n \in Replica, e \in Proposals :
       SetBlockers(n, e[1], e[2]) \/ (e[1] \in Handled /\ Block(n, e[1], e[2]))
  \/ \E n \in Replica, i \in Handled : Close(n, i) \/ Reopen(n, i)
  \/ \E n, r \in Replica, last \in BOOLEAN : Import(n, r, last)
  \/ \E n \in Replica : Materialize(n)

Spec == Init /\ [][Next]_vars

----------------------------------------------------------------------------
\* Every variable has its type; no clock counts further than there are facts.
Count == 0 .. MaxFacts
TypeOK ==
  /\ log \in [Replica -> Seq(Fact)]
  /\ known \in [Replica -> [Replica -> Count]]
  /\ clock \in [Replica -> Count]
  /\ fields \in [Replica -> [Issue -> Field]]
  /\ dirty \in [Replica -> SUBSET Issue]
  /\ active \in [Replica -> [Issue -> SUBSET Issue]]
  /\ closed \in [Replica -> SUBSET Issue]
  /\ missed \in [Replica -> SUBSET Issue]

\* The dependencies that gate pickup never form a cycle, whichever of the
\* proposals have been merged (README.md: "cannot form cycles").
NoDependencyCycle == \A n \in Replica : Acyclic(Edges(active[n]))

\* A peer whose own facts are reduced shows the filtered graph of all proposals
\* in every row that is not dirty, except the rows it overlooked: those whose
\* accepted blockers a winning fact changed that left the blockers of its own
\* task alone.  No edit of the blockers, and no order of edits, closures and
\* their reconciled states, leaves another row behind (projection.rs,
\* dirty_dependents).
EditsReachDependents ==
  \A n \in Replica : known[n][n] = Len(log[n]) =>
    LET accepted == Accepted(fields[n])
    IN \A i \in Issue \ (dirty[n] \cup missed[n]) : active[n][i] = accepted[i]

\* While no row is overlooked, concurrent edits never combine into a cycle
\* (graph.rs), also not with the edits a user adds to rows that are dirty.
EditsStayAcyclic ==
  \A n \in Replica : missed[n] = {} => Acyclic(Edges(active[n]))

\* A proposed edge is withheld only while it would close a cycle.
WithheldOnlyForCycles ==
  \A n \in Replica :
    LET accepted == Accepted(fields[n])
    IN \A i \in Issue : \A b \in fields[n][i].blockers \ accepted[i] :
         Reaches(Edges(accepted), b, i)

\* The next edit on a peer is newer than everything it has reduced, so it wins
\* when its own fact is reduced.
NextEditWins == \A n \in Replica, i \in Issue : fields[n][i].clock <= clock[n]

\* Peers that reduced the same facts propose the same dependencies, in whatever
\* order the facts arrived.
ProposalsConverge == \A m, n \in Replica : known[m] = known[n] => fields[m] = fields[n]
============================================================================
