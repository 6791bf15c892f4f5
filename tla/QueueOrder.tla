----------------------------- MODULE QueueOrder -----------------------------
(***************************************************************************)
(* The order of a project's queue on peers that reorder it concurrently    *)
(* (issues/ordering.rs, distributed/ordering.rs).  A move is replicated as *)
(* one rotation of an interval of positions, not as the rows it shifts.    *)
(* Every issue has a newest base position; the rotations that are newer    *)
(* than it apply to it in the order of their (clock, origin).  Facts       *)
(* arrive in other orders, so positions are maintained incrementally and   *)
(* recomputed when a rotation arrives late.                                *)
(***************************************************************************)
EXTENDS Integers, Sequences, FiniteSets, SequencesExt, FiniteSetsExt

CONSTANTS
  Replica,   \* peers, numbered in the order of their origin names
  Issue,     \* issue numbers
  Baseline,  \* issues every peer knows from the enrollment
  MaxFacts   \* bound: creations, moves and placements together

ASSUME QueueAssumption ==
  /\ Replica \subseteq Nat \ {0}
  /\ Issue \subseteq Nat \ {0} /\ IsFiniteSet(Issue)
  /\ Baseline \subseteq Issue
  /\ MaxFacts \in Nat

VARIABLES
  log,       \* the facts every peer captured, in its own order
  known,     \* how many facts of each peer a peer has reduced
  clock,     \* Lamport clocks
  base,      \* newest base positions (distributed_fields, sort_order)
  rotations, \* the rotations a peer has reduced
  positions, \* base revision and current position of an issue
  dirty,     \* positions changed since the issues table was written
  queue,     \* sort_order in the issues table
  applied    \* history: what was reduced when the table was last written

vars == <<log, known, clock, base, rotations, positions, dirty, queue, applied>>

\* reduced is what the author of a fact had reduced: journals are copied in
\* order, so a fact follows whatever its author had seen.
Stamp == [clock: Nat, origin: Replica \cup {0}]
BaseFact == [kind: {"base"}, issue: Issue, position: Int,
             clock: Nat, origin: Replica, reduced: [Replica -> Nat]]
MoveFact == [kind: {"move"}, issue: Issue, from: Int, to: Int,
             clock: Nat, origin: Replica, reduced: [Replica -> Nat]]

\* Deviation: facts of equal clocks have no order.
Older_ByClock(a, b) == a.clock < b.clock
Older(a, b) == a.clock < b.clock \/ (a.clock = b.clock /\ a.origin < b.origin)
Between(p, a, b) == (a <= p /\ p <= b) \/ (b <= p /\ p <= a)

----------------------------------------------------------------------------
(* Derived positions. *)

\* rotate: the moved issue goes to its target, those in between make room.
rotate(position, number, f) ==
  IF ~Between(position, f.from, f.to) THEN position
  ELSE IF number = f.issue THEN f.to
  ELSE IF f.to < f.from THEN position + 1 ELSE position - 1

\* The newest of some facts.
Newest(s) == CHOOSE f \in s : \A g \in s \ {f} : Older(g, f)

\* The position that a set of rotations leads to, applied in their order.
Moved(position, i, moves) ==
  LET after[s \in SUBSET moves] ==
        IF s = {} THEN position ELSE rotate(after[s \ {Newest(s)}], i, Newest(s))
  IN after[moves]

\* seed: the base position, moved by the newer rotations.
Seeded(i, b, moves) ==
  [clock |-> b.clock, origin |-> b.origin,
   position |-> Moved(b.position, i, {f \in moves : Older(b, f)})]

\* What a set of facts says: the reference for the incremental computation.
Start == [i \in Baseline |-> [clock |-> 0, origin |-> 0, position |-> i]]
Bases(facts, i) ==
  {f \in facts : f.kind = "base" /\ f.issue = i} \cup {Start[j] : j \in Baseline \cap {i}}
Moves(facts) == {f \in facts : f.kind = "move"}
Ordered(facts) ==
  [i \in {j \in Issue : Bases(facts, j) # {}} |->
     Seeded(i, Newest(Bases(facts, i)), Moves(facts)).position]

----------------------------------------------------------------------------
Init ==
  /\ log = [r \in Replica |-> <<>>]
  /\ known = [n \in Replica |-> [r \in Replica |-> 0]]
  /\ clock = [n \in Replica |-> 0]
  /\ base = [n \in Replica |-> Start]
  /\ rotations = [n \in Replica |-> {}]
  /\ positions = [n \in Replica |-> Start]
  /\ dirty = [n \in Replica |-> FALSE]
  /\ queue = [n \in Replica |-> [i \in Baseline |-> i]]
  /\ applied = [n \in Replica |-> [r \in Replica |-> 0]]

Facts(counts) == UNION {{log[r][k] : k \in 1 .. counts[r]} : r \in Replica}
AllFacts == UNION {Range(log[r]) : r \in Replica}
Issues(n) == DOMAIN queue[n]
Positions(n) == {queue[n][i] : i \in Issues(n)}

\* A table with a new or replaced entry.
With(rows, i, entry) ==
  [j \in DOMAIN rows \cup {i} |-> IF j = i THEN entry ELSE rows[j]]

\* Facts that a transaction captures take consecutive clock values.
Capture(n, facts) ==
  /\ Cardinality(AllFacts) + Len(facts) <= MaxFacts
  /\ clock' = [clock EXCEPT ![n] = @ + Len(facts)]
  /\ log' = [log EXCEPT ![n] = @ \o facts]
  /\ UNCHANGED <<known, base, rotations, positions, dirty, applied>>

\* The k-th fact of a transaction is about a new position of issue i.
BaseChange(n, k, i, position) ==
  [kind |-> "base", issue |-> i, position |-> position,
   clock |-> clock[n] + k, origin |-> n, reduced |-> known[n]]

\* create, at either end of the queue.  Issue numbers belong to one peer.
Create(n, i, top) ==
  /\ \A r \in Replica : i \notin Issues(r)
  /\ \A f \in AllFacts : f.issue # i
  /\ LET position == CASE Positions(n) = {} -> IF top THEN 0 ELSE 1
                       [] Positions(n) # {} /\ top -> Min(Positions(n)) - 1
                       [] Positions(n) # {} /\ ~top -> Max(Positions(n)) + 1
     IN /\ queue' = [queue EXCEPT ![n] = With(@, i, position)]
        /\ Capture(n, <<BaseChange(n, 1, i, position)>>)

\* The position a move aims at: next to an anchor or the end.
Target(rows, i, anchor, side) ==
  CASE side = "before" -> rows[anchor] - (IF rows[anchor] > rows[i] THEN 1 ELSE 0)
    [] side = "after"  -> rows[anchor] + (IF rows[anchor] < rows[i] THEN 1 ELSE 0)
    [] side = "end"    -> Max({rows[j] : j \in DOMAIN rows})

\* rotate of the issues table.
\* Deviation: every row at the old position moves.
Rotated_ByPosition(rows, i, to) ==
  [j \in DOMAIN rows |->
     CASE ~Between(rows[j], rows[i], to) -> rows[j]
       [] Between(rows[j], rows[i], to) /\ rows[j] = rows[i] -> to
       [] Between(rows[j], rows[i], to) /\ rows[j] # rows[i] ->
            IF to < rows[i] THEN rows[j] + 1 ELSE rows[j] - 1]
Rotated(rows, i, to) ==
  [j \in DOMAIN rows |->
     CASE ~Between(rows[j], rows[i], to) -> rows[j]
       [] Between(rows[j], rows[i], to) /\ j = i -> to
       [] Between(rows[j], rows[i], to) /\ j # i ->
            IF to < rows[i] THEN rows[j] + 1 ELSE rows[j] - 1]

\* The anchor of a move that has one; the moved issue stands for none.
Sides(i, anchor) == IF anchor = i THEN {"end"} ELSE {"before", "after"}

\* move: changes nothing when the target is the position it has.
Move(n, i, anchor, side) ==
  LET to == Target(queue[n], i, anchor, side)
  IN /\ {i, anchor} \subseteq Issues(n)
     /\ to # queue[n][i]
     /\ queue' = [queue EXCEPT ![n] = Rotated(@, i, to)]
     /\ Capture(n, <<[kind |-> "move", issue |-> i, from |-> queue[n][i], to |-> to,
                      clock |-> clock[n] + 1, origin |-> n, reduced |-> known[n]]>>)

\* Queue order: by position, then by number.
Precedes(rows, i, j) == rows[i] < rows[j] \/ (rows[i] = rows[j] /\ i < j)

\* A move of all matching issues to an end of the queue gives them new base
\* positions in their order, unless they are already there.
Place(n, selected, top) ==
  LET rows == queue[n]
      places == 1 .. Cardinality(selected)
      first == IF top THEN Min(Positions(n)) - Cardinality(selected)
                      ELSE Max(Positions(n)) + 1
  IN /\ selected \subseteq Issues(n)
     /\ \E i \in selected, j \in Issues(n) \ selected :
          IF top THEN Precedes(rows, j, i) ELSE Precedes(rows, i, j)
     /\ \E chosen \in [places -> selected], place \in [selected -> places] :
          /\ \A j, k \in places : j < k => Precedes(rows, chosen[j], chosen[k])
          /\ \A i \in selected : chosen[place[i]] = i
          /\ queue' = [queue EXCEPT ![n] = [i \in DOMAIN rows |->
                         IF i \in selected THEN first + place[i] - 1 ELSE rows[i]]]
          /\ Capture(n, [k \in places |-> BaseChange(n, k, chosen[k], first + k - 1)])

----------------------------------------------------------------------------
(* Reducing facts. *)

\* A newer base position is seeded with the rotations known so far; an older
\* one changes nothing.
ReducedBase(n, f) ==
  LET i == f.issue
      b == [clock |-> f.clock, origin |-> f.origin, position |-> f.position]
  IN IF i \in DOMAIN base[n] /\ ~Older(base[n][i], f)
     THEN [base |-> base[n], positions |-> positions[n], dirty |-> dirty[n]]
     ELSE [base |-> With(base[n], i, b),
           positions |-> With(positions[n], i, Seeded(i, b, rotations[n])),
           dirty |-> TRUE]

\* In order, a rotation shifts the positions whose base it is newer than.
\* Deviation: it shifts positions that were set later, too.
Shifted_All(rows, f) ==
  [i \in DOMAIN rows |-> [rows[i] EXCEPT !.position = rotate(@, i, f)]]
Shifted(rows, f) ==
  [i \in DOMAIN rows |-> IF Older(rows[i], f)
     THEN [rows[i] EXCEPT !.position = rotate(@, i, f)] ELSE rows[i]]

\* A rotation behind a newer one recomputes all positions.
\* Deviation: late rotations are not noticed.
Late_Never(n, f) == FALSE
Late(n, f) == \E g \in rotations[n] : Older(f, g)
ReducedMove(n, f) ==
  [base |-> base[n], dirty |-> TRUE,
   positions |-> IF Late(n, f)
     THEN [i \in DOMAIN base[n] |-> Seeded(i, base[n][i], rotations[n] \cup {f})]
     ELSE Shifted(positions[n], f)]

\* Reducing a fact moves the Lamport clock up to it.
\* Deviation: the clock counts local changes only.
Advanced_Never(c, f) == c
\* Deviation: the clocks are added up.
Advanced_Sum(c, f) == c + f.clock
Advanced(c, f) == IF f.clock > c THEN f.clock ELSE c

\* apply: positions are written over the table.
Written(rows, derived) ==
  [i \in DOMAIN rows \cup DOMAIN derived |->
     IF i \in DOMAIN derived THEN derived[i].position ELSE rows[i]]

\* import of the next fact of r; at the end of the journal (last) the table is
\* written, unless own changes are still to be reduced.
Import(n, r, last) ==
  LET f == log[r][known[n][r] + 1]
      reduced == [known[n] EXCEPT ![r] = @ + 1]
      next == IF f.kind = "base" THEN ReducedBase(n, f) ELSE ReducedMove(n, f)
      ready == last /\ reduced[n] = Len(log[n])
  IN /\ known[n][r] < Len(log[r])
     /\ \A s \in Replica : f.reduced[s] <= known[n][s]
     /\ known' = [known EXCEPT ![n] = reduced]
     /\ clock' = [clock EXCEPT ![n] = Advanced(@, f)]
     /\ base' = [base EXCEPT ![n] = next.base]
     /\ rotations' = [rotations EXCEPT ![n] =
                        IF f.kind = "move" THEN @ \cup {f} ELSE @]
     /\ positions' = [positions EXCEPT ![n] = next.positions]
     /\ dirty' = [dirty EXCEPT ![n] = next.dirty /\ ~ready]
     /\ queue' = [queue EXCEPT ![n] =
                    IF ready /\ next.dirty THEN Written(@, next.positions) ELSE @]
     /\ applied' = [applied EXCEPT ![n] = IF ready THEN reduced ELSE @]
     /\ UNCHANGED log

\* import without a new fact.
Materialize(n) ==
  /\ dirty[n]
  /\ known[n][n] = Len(log[n])
  /\ dirty' = [dirty EXCEPT ![n] = FALSE]
  /\ queue' = [queue EXCEPT ![n] = Written(@, positions[n])]
  /\ applied' = [applied EXCEPT ![n] = known[n]]
  /\ UNCHANGED <<log, known, clock, base, rotations, positions>>

Next ==
  \/ \E n \in Replica, i \in Issue, top \in BOOLEAN : Create(n, i, top)
  \/ \E n \in Replica, i, anchor \in Issue : \E side \in Sides(i, anchor) :
       Move(n, i, anchor, side)
  \/ \E n \in Replica, selected \in SUBSET Issue, top \in BOOLEAN :
       Place(n, selected, top)
  \/ \E n, r \in Replica, last \in BOOLEAN : Import(n, r, last)
  \/ \E n \in Replica : Materialize(n)

Spec == Init /\ [][Next]_vars

----------------------------------------------------------------------------
Clean(n) == ~dirty[n] /\ known[n][n] = Len(log[n])

\* Every variable has its type; no clock counts further than there are facts.
TypeOK ==
  /\ log \in [Replica -> Seq(BaseFact \cup MoveFact)]
  /\ known \in [Replica -> [Replica -> 0 .. MaxFacts]]
  /\ clock \in [Replica -> 0 .. MaxFacts]
  /\ \A n \in Replica :
       /\ \A rows \in {base[n], positions[n]} : \A i \in DOMAIN rows :
            /\ i \in Issue
            /\ rows[i] \in [clock: 0 .. MaxFacts, origin: Replica \cup {0}, position: Int]
       /\ rotations[n] \subseteq MoveFact
       /\ Issues(n) \subseteq Issue /\ Positions(n) \subseteq Int
  /\ dirty \in [Replica -> BOOLEAN]
  /\ applied \in [Replica -> [Replica -> 0 .. MaxFacts]]

\* The incrementally maintained positions are those that the reduced facts
\* define, whatever the order they arrived in.
PositionsFollowFacts ==
  \A n \in Replica :
    [i \in DOMAIN positions[n] |-> positions[n][i].position] = Ordered(Facts(known[n]))

\* A peer always shows the order that the merged facts and its own changes
\* define: what a user arranged does not jump when its facts come back.
OwnChangesStay ==
  \A n \in Replica :
    queue[n] = Ordered(Facts(applied[n]) \cup Range(log[n]))

\* Peers that merged the same facts show the same order.
OrdersConverge ==
  \A m, n \in Replica :
    known[m] = known[n] /\ Clean(m) /\ Clean(n) => queue[m] = queue[n]
============================================================================
