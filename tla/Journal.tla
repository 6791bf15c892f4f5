------------------------------- MODULE Journal -------------------------------
(***************************************************************************)
(* Changes of a task on their way between the application database and the *)
(* replication journal, which are two files with commits of their own      *)
(* (fleet/native/distributed.rs).  Triggers capture every change in an     *)
(* outbox; export copies it to the journal and import reduces the journal, *)
(* own facts included, to the winning values, which become the row that    *)
(* users see.  A process can end between any two commits, and users go on  *)
(* changing the row at every stage.                                        *)
(***************************************************************************)
EXTENDS Integers, Sequences, FiniteSets, SequencesExt

CONSTANTS
  Replica,     \* peers, numbered in the order of their origin names
  Text,        \* requirements a task can have; it starts with FirstText
  FirstText,
  MaxFacts,    \* bound: changes of all peers
  MaxWaits,    \* bound: those of them that change the blockers
  MaxFailures  \* bound: exports that end early

ASSUME JournalAssumption ==
  /\ Replica \subseteq Nat \ {0}
  /\ FirstText \in Text
  /\ MaxFacts \in Nat /\ MaxWaits \in Nat /\ MaxFailures \in Nat

VARIABLES
  outbox,    \* distributed_outbox: own facts; those exported may be deleted
  exported,  \* how many of them the application knows to be in the journal
  putting,   \* how many more the open export transaction has put there
  journal,   \* the engine's delivery log, own and received facts
  projected, \* how much of it the application has reduced
  clock,     \* Lamport clock
  fields,    \* distributed_fields: the winning value of each field
  dirty,     \* the row has to be written again
  row,       \* the task in the issues table
  applied,   \* history: what was reduced when the row was last up to date
  failures

vars == <<outbox, exported, putting, journal, projected, clock, fields,
          dirty, row, applied, failures>>

\* A task: title and body in one, its state, and whether it has blockers.
Row == [text: Text, state: {"open", "closed"}, waits: BOOLEAN]
Field == {"text", "@lifecycle"}

\* A fact names the field group it changed and carries the row before and after
\* it; for the lifecycle group this includes the requirements at that time.
Fact == [clock: Nat, origin: Replica, field: Field, before: Row, after: Row]
Value == [clock: Nat, origin: Replica \cup {0}, after: Row]

FirstRow == [text |-> FirstText, state |-> "open", waits |-> FALSE]

----------------------------------------------------------------------------
(* Merging. *)

Newer(f, v) == f.clock > v.clock \/ (f.clock = v.clock /\ f.origin > v.origin)

\* row: a close counts only for the requirements it was made on.
Merged(values) ==
  LET text == values["text"].after.text
      lifecycle == values["@lifecycle"].after
      stale == lifecycle.state = "closed" /\ lifecycle.text # text
  IN [text |-> text, waits |-> lifecycle.waits,
      state |-> IF stale THEN "open" ELSE lifecycle.state]

\* The winning values of a set of facts: the reference for reduce.
Winning(facts) ==
  [field \in Field |->
     LET values == {[clock |-> f.clock, origin |-> f.origin, after |-> f.after] :
                      f \in {g \in facts : g.field = field}}
                   \cup {[clock |-> 0, origin |-> 0, after |-> FirstRow]}
     IN CHOOSE v \in values : \A w \in values \ {v} : Newer(v, w)]

----------------------------------------------------------------------------
Init ==
  /\ outbox = [n \in Replica |-> <<>>]
  /\ exported = [n \in Replica |-> 0]
  /\ putting = [n \in Replica |-> 0]
  /\ journal = [n \in Replica |-> <<>>]
  /\ projected = [n \in Replica |-> 0]
  /\ clock = [n \in Replica |-> 0]
  /\ fields = [n \in Replica |-> Winning({})]
  /\ dirty = [n \in Replica |-> FALSE]
  /\ row = [n \in Replica |-> FirstRow]
  /\ applied = [n \in Replica |-> 0]
  /\ failures = 0

Facts == UNION {Range(outbox[n]) : n \in Replica}

\* The capture trigger commits with the change.  The export takes the writer
\* with its first checkpoint; a change that commits before that makes its
\* snapshot stale, and the export starts again.
Capture(n, field, after) ==
  /\ Cardinality(Facts) < MaxFacts
  /\ putting[n] <= 1
  /\ putting' = [putting EXCEPT ![n] = 0]
  /\ row' = [row EXCEPT ![n] = after]
  /\ clock' = [clock EXCEPT ![n] = @ + 1]
  /\ outbox' = [outbox EXCEPT ![n] = Append(@,
       [clock |-> clock[n] + 1, origin |-> n, field |-> field,
        before |-> row[n], after |-> after])]
  /\ UNCHANGED <<exported, journal, projected, fields, dirty, applied, failures>>

\* edit, also of a closed task, which stays closed at first.
Edit(n, text) ==
  /\ text # row[n].text
  /\ Capture(n, "text", [row[n] EXCEPT !.text = text])

Close(n) ==
  /\ row[n].state # "closed"
  /\ Capture(n, "@lifecycle", [row[n] EXCEPT !.state = "closed"])

Reopen(n) ==
  /\ row[n].state # "open"
  /\ Capture(n, "@lifecycle", [row[n] EXCEPT !.state = "open"])

\* set_blockers has no condition on the state.
SetBlockers(n) ==
  /\ Cardinality({f \in Facts : f.before.waits # f.after.waits}) < MaxWaits
  /\ Capture(n, "@lifecycle", [row[n] EXCEPT !.waits = ~@])

----------------------------------------------------------------------------
(* prepare: one process at a time, under distributed-sync.lock. *)

\* export puts the next fact in the journal, durably and before the checkpoint
\* commits; a fact that is there already is not recorded again.
\* Deviation: facts have no content identity.
Put_Repeats(n) ==
  LET next == exported[n] + putting[n] + 1
  IN /\ next <= Len(outbox[n])
     /\ journal' = [journal EXCEPT ![n] = Append(@, outbox[n][next])]
     /\ putting' = [putting EXCEPT ![n] = @ + 1]
     /\ UNCHANGED <<outbox, exported, projected, clock, fields, dirty, row, applied, failures>>
Put(n) ==
  LET next == exported[n] + putting[n] + 1
      f == outbox[n][next]
  IN /\ next <= Len(outbox[n])
     /\ journal' = [journal EXCEPT ![n] =
                      IF f \in Range(@) THEN @ ELSE Append(@, f)]
     /\ putting' = [putting EXCEPT ![n] = @ + 1]
     /\ UNCHANGED <<outbox, exported, projected, clock, fields, dirty, row, applied, failures>>

\* The checkpoint commits, and the outbox may be pruned up to it.
CommitExport(n) ==
  /\ putting[n] > 0
  /\ exported' = [exported EXCEPT ![n] = @ + putting[n]]
  /\ putting' = [putting EXCEPT ![n] = 0]
  /\ UNCHANGED <<outbox, journal, projected, clock, fields, dirty, row, applied, failures>>

\* The process ends or its transaction fails; the journal keeps what was put.
Fail(n) ==
  /\ failures < MaxFailures
  /\ failures' = failures + 1
  /\ putting[n] > 0
  /\ putting' = [putting EXCEPT ![n] = 0]
  /\ UNCHANGED <<outbox, exported, journal, projected, clock, fields, dirty, row, applied>>

\* Reducing a fact moves the Lamport clock up to it.
\* Deviation: the clocks are added up.
Advanced_Sum(c, f) == c + f.clock
Advanced(c, f) == IF f.clock > c THEN f.clock ELSE c

\* Deviation: of facts with equal clocks the first to arrive stays.
Reduced_ByClock(values, f) ==
  IF f.clock <= values[f.field].clock THEN values
  ELSE [values EXCEPT ![f.field] =
          [clock |-> f.clock, origin |-> f.origin, after |-> f.after]]
Reduced(values, f) ==
  IF ~Newer(f, values[f.field]) THEN values
  ELSE [values EXCEPT ![f.field] =
          [clock |-> f.clock, origin |-> f.origin, after |-> f.after]]

\* The row is written at the end of the journal, and not over own changes that
\* are still to be exported or reduced.
\* Deviation: the outbox is not looked at.
Ready_IgnoresOutbox(n, position) == position = Len(journal[n])
Ready(n, position) ==
  /\ position = Len(journal[n])
  /\ exported[n] = Len(outbox[n])

\* import of the next fact.  A longer page is several of these with nothing in
\* between: the row is written at the end of the journal only.
Import(n) ==
  LET f == journal[n][projected[n] + 1]
      values == Reduced(fields[n], f)
      due == dirty[n] \/ values # fields[n]
      ready == Ready(n, projected[n] + 1)
  IN /\ putting[n] = 0 /\ projected[n] < Len(journal[n])
     /\ projected' = [projected EXCEPT ![n] = @ + 1]
     /\ clock' = [clock EXCEPT ![n] = Advanced(@, f)]
     /\ fields' = [fields EXCEPT ![n] = values]
     /\ dirty' = [dirty EXCEPT ![n] = due /\ ~ready]
     /\ row' = [row EXCEPT ![n] = IF ready /\ due THEN Merged(values) ELSE @]
     /\ applied' = [applied EXCEPT ![n] = IF ready THEN projected[n] + 1 ELSE @]
     /\ UNCHANGED <<outbox, exported, putting, journal, failures>>

\* import without a new fact, for a row that is still dirty.
Materialize(n) ==
  /\ putting[n] = 0 /\ dirty[n] /\ Ready(n, projected[n])
  /\ dirty' = [dirty EXCEPT ![n] = FALSE]
  /\ row' = [row EXCEPT ![n] = Merged(fields[n])]
  /\ applied' = [applied EXCEPT ![n] = projected[n]]
  /\ UNCHANGED <<outbox, exported, putting, journal, projected, clock, fields, failures>>

\* The exchange appends the next fact of a peer's journal that is new here.
Receive(n, p) ==
  \E k \in DOMAIN journal[p] :
    /\ journal[p][k] \notin Range(journal[n])
    /\ \A i \in 1 .. k - 1 : journal[p][i] \in Range(journal[n])
    /\ journal' = [journal EXCEPT ![n] = Append(@, journal[p][k])]
    /\ UNCHANGED <<outbox, exported, putting, projected, clock, fields, dirty,
                   row, applied, failures>>

Prepare(n) == Put(n) \/ CommitExport(n) \/ Import(n) \/ Materialize(n)

Change(n) ==
  \/ \E text \in Text : Edit(n, text)
  \/ Close(n) \/ Reopen(n) \/ SetBlockers(n)

Next ==
  \/ \E n \in Replica : Change(n) \/ Prepare(n) \/ Fail(n)
  \/ \E n, p \in Replica : Receive(n, p)

Spec == Init /\ [][Next]_vars

\* The transport loops prepare and exchange every two seconds until they are
\* cancelled, and continue from the committed cursors after an error.
FairSpec ==
  /\ Spec
  /\ \A n \in Replica : WF_vars(Prepare(n))
  /\ WF_vars(\E n, p \in Replica : Receive(n, p))

----------------------------------------------------------------------------
\* Every variable has its type; no clock counts further than there are facts.
TypeOK ==
  /\ outbox \in [Replica -> Seq(Fact)] /\ journal \in [Replica -> Seq(Fact)]
  /\ clock \in [Replica -> 0 .. MaxFacts]
  /\ fields \in [Replica -> [Field -> Value]]
  /\ row \in [Replica -> Row] /\ dirty \in [Replica -> BOOLEAN]
  /\ failures \in 0 .. MaxFailures
  /\ \A n \in Replica :
       /\ exported[n] + putting[n] \in 0 .. Len(outbox[n])
       /\ applied[n] \in 0 .. projected[n] /\ projected[n] \in 0 .. Len(journal[n])

\* However often an export is cut short and repeated, own facts are in the
\* journal once each and in the order they were captured, and none that the
\* application takes for exported is missing (export: "A crash between the two
\* commits repeats the same content hash").
JournaledOnce ==
  \A n \in Replica :
    /\ \A i, j \in DOMAIN journal[n] :
         i < j /\ journal[n][i].origin = n /\ journal[n][j].origin = n
           => journal[n][i].clock < journal[n][j].clock
    /\ \A k \in 1 .. exported[n] + putting[n] : outbox[n][k] \in Range(journal[n])

\* The row shows the newest of the merged and the own changes: a page of older
\* remote facts never reverts what a user wrote (import: "Do not publish an
\* earlier remote page over local changes").
OwnEditsStay ==
  \A n \in Replica :
    LET shown == Winning(Range(SubSeq(journal[n], 1, applied[n])) \cup Range(outbox[n]))
    IN /\ row[n].text = shown["text"].after.text
       /\ row[n].waits = shown["@lifecycle"].after.waits

\* Every change reaches every peer, and all show the same merged row.
EventuallyMerged ==
  <>[](\A n \in Replica : row[n] = Merged(Winning(Facts)))

\* A peer with nothing left to merge shows a task closed only with requirements
\* that it was closed on by somebody, on some peer (docs/specs/
\* distributed-sync.md: "Completion is tied to the requirements used").
CompletionUsesRequirements ==
  \A n \in Replica :
    ~dirty[n] /\ exported[n] = Len(outbox[n]) /\ projected[n] = Len(journal[n])
      /\ row[n].state = "closed"
    => \E f \in Facts : /\ f.before.state = "open" /\ f.after.state = "closed"
                        /\ f.after.text = row[n].text
============================================================================
