--------------------------- MODULE Journal_proofs ---------------------------
(***************************************************************************)
(* Exports that are cut short and repeated, for any number of peers, texts *)
(* and changes: own facts reach the journal once each and in the order in  *)
(* which they were captured, the row shows the newest of the merged and    *)
(* the own changes, and a peer at rest shows what its journal says.        *)
(***************************************************************************)
EXTENDS Journal, FiniteSetTheorems, TLAPS

\* The types, without the bounds of the model-checked instances.
Shape ==
  /\ outbox \in [Replica -> Seq(Fact)] /\ journal \in [Replica -> Seq(Fact)]
  /\ exported \in [Replica -> Nat] /\ putting \in [Replica -> Nat]
  /\ clock \in [Replica -> Nat]
  /\ projected \in [Replica -> Nat] /\ fields \in [Replica -> [Field -> Value]]
  /\ row \in [Replica -> Row]

\* The cursors stay within the logs they point to.
Counted ==
  \A n \in Replica : /\ exported[n] + putting[n] <= Len(outbox[n])
                     /\ projected[n] <= Len(journal[n])

\* The outbox holds own facts with increasing clocks, none ahead of the peer's.
Stamps ==
  \A n \in Replica : \A k \in 1 .. Len(outbox[n]) :
    /\ outbox[n][k].origin = n
    /\ outbox[n][k].clock <= clock[n]
    /\ \A j \in 1 .. Len(outbox[n]) : j < k => outbox[n][j].clock < outbox[n][k].clock

Holds(n, f) == \E i \in 1 .. Len(journal[n]) : journal[n][i] = f

\* Every fact of a journal was captured by its origin.
Captured ==
  \A n \in Replica : \A i \in 1 .. Len(journal[n]) :
    \E k \in 1 .. Len(outbox[journal[n][i].origin]) :
      outbox[journal[n][i].origin][k] = journal[n][i]

\* A fact travels only from a peer that has it in its own journal.
Published ==
  \A n, p \in Replica : \A i \in 1 .. Len(journal[p]) :
    journal[p][i].origin = n => Holds(n, journal[p][i])

\* Own facts enter the journal without leaving gaps.
NoGaps ==
  \A n \in Replica : \A j, k \in 1 .. Len(outbox[n]) :
    j < k /\ Holds(n, outbox[n][k]) => Holds(n, outbox[n][j])

\* What the export counted is there.
Exported ==
  \A n \in Replica : \A k \in 1 .. exported[n] + putting[n] : Holds(n, outbox[n][k])

\* Own facts stand in the journal in the order of their clocks.
InOrder ==
  \A n \in Replica : \A i, j \in 1 .. Len(journal[n]) :
    i < j /\ journal[n][i].origin = n /\ journal[n][j].origin = n
      => journal[n][i].clock < journal[n][j].clock

IInv ==
  /\ Shape /\ Counted /\ Stamps
  /\ Captured /\ Published /\ NoGaps /\ Exported /\ InOrder

---------------------------------------------------------------------------
\* What the types say about a fact.
LEMMA FactTypes ==
  ASSUME Shape, NEW n \in Replica
  PROVE  /\ Len(outbox[n]) \in Nat /\ Len(journal[n]) \in Nat
         /\ \A k \in 1 .. Len(outbox[n]) : outbox[n][k] \in Fact
         /\ \A k \in 1 .. Len(journal[n]) : journal[n][k] \in Fact
<1>1. outbox[n] \in Seq(Fact) /\ journal[n] \in Seq(Fact)
  BY DEF Shape
<1> QED BY <1>1

\* The stamp of a fact.
LEMMA StampTypes == \A f \in Fact : f.clock \in Nat /\ f.origin \in Replica /\ f.field \in Field
BY DEF Fact

\* A fact is in the range of a journal if it has a position there.
LEMMA RangeHolds ==
  ASSUME Shape, NEW n \in Replica, NEW f
  PROVE  f \in Range(journal[n]) <=> Holds(n, f)
<1>1. journal[n] \in Seq(Fact)
  BY DEF Shape
<1>2. DOMAIN journal[n] = 1 .. Len(journal[n])
  BY <1>1
<1> QED BY <1>2 DEF Range, Holds

\* The state of a task before any fact is of its type.
LEMMA FirstRowType == FirstRow \in Row
BY JournalAssumption DEF FirstRow, Row

\* Without facts the winning values are the blank ones.
LEMMA WinningType == Winning({}) \in [Field -> Value]
<1> DEFINE v0 == [clock |-> 0, origin |-> 0, after |-> FirstRow]
<1>1. v0 \in Value
  BY FirstRowType DEF Value
<1> SUFFICES ASSUME NEW field \in Field PROVE Winning({})[field] \in Value
  BY DEF Winning
<1> DEFINE values == {[clock |-> f.clock, origin |-> f.origin, after |-> f.after] :
                        f \in {g \in {} : g.field = field}} \cup {v0}
<1>2. values = {v0}
  OBVIOUS
<1>3. Winning({})[field] = CHOOSE v \in values : \A w \in values \ {v} : Newer(v, w)
  BY DEF Winning
<1> HIDE DEF values, v0
<1>4. \E v \in values : \A w \in values \ {v} : Newer(v, w)
  BY <1>2
<1>5. Winning({})[field] \in values
  BY <1>3, <1>4
<1> QED BY <1>1, <1>2, <1>5

\* Merging values of the right type makes a row of the right type.
LEMMA MergedType == ASSUME NEW values \in [Field -> Value] PROVE Merged(values) \in Row
<1>1. values["text"].after \in Row /\ values["@lifecycle"].after \in Row
  BY DEF Field, Value
<1> QED BY <1>1 DEF Merged, Row

\* Reducing a fact keeps the types of the winning values.
LEMMA ReducedType ==
  ASSUME NEW values \in [Field -> Value], NEW f \in Fact
  PROVE  Reduced(values, f) \in [Field -> Value]
<1>1. [clock |-> f.clock, origin |-> f.origin, after |-> f.after] \in Value
  BY DEF Fact, Value
<1> QED BY <1>1 DEF Reduced

\* A task starts without facts.
LEMMA InitHolds == Init => IInv
<1> SUFFICES ASSUME Init PROVE IInv
  OBVIOUS
<1> USE DEF Init
<1>1. Shape
  BY WinningType, FirstRowType DEF Shape
<1>2. Counted /\ Stamps /\ Captured /\ Published
  BY DEF Counted, Stamps, Captured, Published
<1>3. NoGaps /\ Exported /\ InOrder
  BY DEF NoGaps, Exported, InOrder
<1> QED BY <1>1, <1>2, <1>3 DEF IInv

---------------------------------------------------------------------------
\* Steps that touch neither log and count no more facts as exported.
LEMMA QuietStep ==
  ASSUME IInv, UNCHANGED <<outbox, journal>>, Shape', Counted',
         \A n \in Replica : /\ exported'[n] + putting'[n] <= exported[n] + putting[n]
                            /\ clock[n] <= clock'[n]
  PROVE  IInv'
<1> USE DEF IInv
<1>1. Stamps'
  <2> SUFFICES ASSUME NEW n \in Replica, NEW k \in 1 .. Len(outbox[n])
               PROVE  /\ outbox[n][k].origin = n
                      /\ outbox[n][k].clock <= clock'[n]
                      /\ \A j \in 1 .. Len(outbox[n]) :
                           j < k => outbox[n][j].clock < outbox[n][k].clock
    BY DEF Stamps
  <2>1. outbox[n][k].clock \in Nat /\ clock[n] \in Nat /\ clock'[n] \in Nat
    BY FactTypes, StampTypes DEF Shape
  <2> QED BY <2>1 DEF Stamps
<1>2. Captured' /\ Published' /\ NoGaps' /\ InOrder'
  BY DEF Captured, Published, NoGaps, InOrder, Holds
<1>3. Exported'
  <2> SUFFICES ASSUME NEW n \in Replica, NEW k \in 1 .. exported'[n] + putting'[n]
               PROVE  Holds(n, outbox[n][k])
    BY DEF Exported, Holds
  <2>1. /\ exported[n] \in Nat /\ putting[n] \in Nat
        /\ exported'[n] \in Nat /\ putting'[n] \in Nat
    BY DEF Shape
  <2>2. k \in 1 .. exported[n] + putting[n]
    BY <2>1
  <2> QED BY <2>2 DEF Exported
<1> QED BY <1>1, <1>2, <1>3

\* A captured change preserves the invariant: its fact is newer than all own
\* ones, and no journal has it yet.
LEMMA CaptureStep ==
  ASSUME IInv, NEW n \in Replica, NEW field \in Field, NEW after \in Row,
         Capture(n, field, after)
  PROVE  IInv'
<1> DEFINE f == [clock |-> clock[n] + 1, origin |-> n, field |-> field,
                 before |-> row[n], after |-> after]
<1> USE DEF IInv
<1>1. f \in Fact /\ f.clock = clock[n] + 1 /\ f.origin = n
  BY DEF Shape, Fact
<1>2. /\ outbox' = [outbox EXCEPT ![n] = Append(@, f)]
      /\ clock' = [clock EXCEPT ![n] = @ + 1]
      /\ putting' = [putting EXCEPT ![n] = 0]
      /\ row' = [row EXCEPT ![n] = after]
      /\ UNCHANGED <<exported, journal, projected, fields>>
  BY DEF Capture
<1> HIDE DEF f
<1>3. Shape'
  BY <1>1, <1>2 DEF Shape
<1>4. /\ \A m \in Replica : Len(outbox'[m]) = IF m = n THEN Len(outbox[n]) + 1 ELSE Len(outbox[m])
      /\ \A m \in Replica : \A k \in 1 .. Len(outbox[m]) : outbox'[m][k] = outbox[m][k]
      /\ outbox'[n][Len(outbox[n]) + 1] = f
  BY <1>1, <1>2 DEF Shape
<1>5. \A m \in Replica : /\ Len(outbox[m]) \in Nat /\ clock[m] \in Nat
                          /\ exported[m] \in Nat /\ putting[m] \in Nat
                          /\ \A k \in 1 .. Len(outbox[m]) : outbox[m][k].clock \in Nat
  BY FactTypes, StampTypes DEF Shape
<1>6. Counted'
  <2> SUFFICES ASSUME NEW m \in Replica
               PROVE  exported'[m] + putting'[m] <= Len(outbox'[m]) /\ projected'[m] <= Len(journal'[m])
    BY DEF Counted
  <2>1. exported[m] + putting[m] <= Len(outbox[m]) /\ projected[m] <= Len(journal[m])
    BY DEF Counted
  <2>2. putting'[m] = IF m = n THEN 0 ELSE putting[m]
    BY <1>2 DEF Shape
  <2> QED BY <1>2, <1>4, <1>5, <2>1, <2>2
<1>7. Stamps'
  <2> SUFFICES ASSUME NEW m \in Replica, NEW k \in 1 .. Len(outbox'[m])
               PROVE  /\ outbox'[m][k].origin = m
                      /\ outbox'[m][k].clock <= clock'[m]
                      /\ \A j \in 1 .. Len(outbox'[m]) :
                           j < k => outbox'[m][j].clock < outbox'[m][k].clock
    BY DEF Stamps
  <2>1. clock'[m] = IF m = n THEN clock[n] + 1 ELSE clock[m]
    BY <1>2 DEF Shape
  <2>2. CASE k \in 1 .. Len(outbox[m])
    <3>1. \A j \in 1 .. Len(outbox'[m]) : j < k => j \in 1 .. Len(outbox[m])
      BY <1>4, <1>5, <2>2
    <3>2. /\ outbox[m][k].origin = m /\ outbox[m][k].clock <= clock[m]
          /\ \A j \in 1 .. Len(outbox[m]) : j < k => outbox[m][j].clock < outbox[m][k].clock
      BY <2>2 DEF Stamps
    <3>3. outbox'[m][k] = outbox[m][k]
      BY <1>4, <2>2
    <3>4. \A j \in 1 .. Len(outbox'[m]) : j < k => outbox'[m][j].clock < outbox'[m][k].clock
      BY <1>4, <3>1, <3>2, <3>3
    <3>5. clock[m] <= clock'[m] /\ clock'[m] \in Nat /\ outbox[m][k].clock \in Nat
      BY <1>5, <2>1, <2>2
    <3>6. outbox'[m][k].clock <= clock'[m]
      BY <1>5, <3>2, <3>3, <3>5
    <3> QED BY <3>2, <3>3, <3>4, <3>6
  <2>3. CASE k \notin 1 .. Len(outbox[m])
    <3>1. m = n /\ k = Len(outbox[n]) + 1
      BY <1>4, <1>5, <2>3
    <3>2. outbox'[m][k] = f
      BY <1>4, <3>1
    <3>3. ASSUME NEW j \in 1 .. Len(outbox'[m]), j < k
          PROVE  outbox'[m][j].clock < outbox'[m][k].clock
      <4>1. j \in 1 .. Len(outbox[n])
        BY <1>4, <1>5, <3>1, <3>3
      <4>2. outbox[n][j].clock <= clock[n]
        BY <4>1 DEF Stamps
      <4>3. outbox'[m][j].clock = outbox[n][j].clock
        BY <1>4, <3>1, <4>1
      <4>4. outbox'[m][k].clock = clock[n] + 1
        BY <1>1, <3>2
      <4>5. outbox[n][j].clock \in Nat /\ clock[n] \in Nat
        BY <1>5, <4>1
      <4> QED BY <4>2, <4>3, <4>4, <4>5
    <3> QED BY <1>1, <1>5, <2>1, <3>1, <3>2, <3>3
  <2> QED BY <2>2, <2>3
<1>8. Captured'
  <2> SUFFICES ASSUME NEW m \in Replica, NEW i \in 1 .. Len(journal'[m])
               PROVE  \E k \in 1 .. Len(outbox'[journal'[m][i].origin]) :
                        outbox'[journal'[m][i].origin][k] = journal'[m][i]
    BY DEF Captured
  <2>0. journal' = journal /\ i \in 1 .. Len(journal[m])
    BY <1>2
  <2>1. journal[m][i].origin \in Replica
    BY FactTypes, StampTypes, <2>0
  <2>2. PICK k \in 1 .. Len(outbox[journal[m][i].origin]) :
          outbox[journal[m][i].origin][k] = journal[m][i]
    BY <2>0 DEF Captured
  <2>3. k \in 1 .. Len(outbox'[journal[m][i].origin])
    BY <1>4, <1>5, <2>1
  <2> QED BY <1>4, <2>0, <2>1, <2>2, <2>3
<1>9. Published' /\ InOrder'
  BY <1>2 DEF Published, InOrder, Holds
<1>10. \A m, p \in Replica : \A k \in 1 .. Len(outbox[m]) : outbox'[m][k] = outbox[m][k]
  BY <1>4
<1>11. \A m \in Replica : \A g : Holds(m, g)' <=> Holds(m, g)
  BY <1>2 DEF Holds
<1>12. ~Holds(n, f)
  <2> SUFFICES ASSUME NEW i \in 1 .. Len(journal[n]), journal[n][i] = f PROVE FALSE
    BY DEF Holds
  <2>1. journal[n][i].origin = n
    BY <1>1
  <2>2. PICK k \in 1 .. Len(outbox[n]) : outbox[n][k] = f
    BY <2>1 DEF Captured
  <2>3. outbox[n][k].clock <= clock[n]
    BY DEF Stamps
  <2> QED BY <1>1, <1>5, <2>2, <2>3
<1>13. NoGaps'
  <2> SUFFICES ASSUME NEW m \in Replica, NEW j \in 1 .. Len(outbox'[m]),
                      NEW k \in 1 .. Len(outbox'[m]), j < k,
                      \E x \in 1 .. Len(journal'[m]) : journal'[m][x] = outbox'[m][k]
               PROVE  \E x \in 1 .. Len(journal'[m]) : journal'[m][x] = outbox'[m][j]
    BY DEF NoGaps, Holds
  <2>1. journal' = journal
    BY <1>2
  <2>2. Holds(m, outbox'[m][k])
    BY <2>1 DEF Holds
  <2>3. k \in 1 .. Len(outbox[m])
    <3> SUFFICES ASSUME k \notin 1 .. Len(outbox[m]) PROVE FALSE
      OBVIOUS
    <3>1. m = n /\ k = Len(outbox[n]) + 1
      BY <1>4, <1>5
    <3> QED BY <1>4, <1>12, <2>2, <3>1
  <2>4. j \in 1 .. Len(outbox[m])
    BY <1>5, <2>3
  <2>5. Holds(m, outbox[m][j])
    BY <1>4, <2>3, <2>4, <2>2 DEF NoGaps
  <2> QED BY <1>4, <2>1, <2>4, <2>5 DEF Holds
<1>14. Exported'
  <2> SUFFICES ASSUME NEW m \in Replica, NEW k \in 1 .. exported'[m] + putting'[m]
               PROVE  \E x \in 1 .. Len(journal'[m]) : journal'[m][x] = outbox'[m][k]
    BY DEF Exported, Holds
  <2>0. journal' = journal /\ exported' = exported
    BY <1>2
  <2>1. putting'[m] = IF m = n THEN 0 ELSE putting[m]
    BY <1>2 DEF Shape
  <2>2. exported[m] + putting[m] <= Len(outbox[m])
    BY DEF Counted
  <2>3. k \in 1 .. exported[m] + putting[m] /\ k \in 1 .. Len(outbox[m])
    BY <1>5, <2>0, <2>1, <2>2
  <2>4. Holds(m, outbox[m][k])
    BY <2>3 DEF Exported
  <2> QED BY <1>4, <2>0, <2>3, <2>4 DEF Holds
<1> QED BY <1>3, <1>6, <1>7, <1>8, <1>9, <1>13, <1>14
---------------------------------------------------------------------------
\* What a journal holds after a fact was appended to it.
LEMMA AppendHolds ==
  ASSUME Shape, NEW n \in Replica, NEW g \in Fact,
         journal' = [journal EXCEPT ![n] = Append(@, g)]
  PROVE  /\ journal' \in [Replica -> Seq(Fact)]
         /\ \A m \in Replica : Len(journal'[m]) = IF m = n THEN Len(journal[n]) + 1 ELSE Len(journal[m])
         /\ \A m \in Replica : \A i \in 1 .. Len(journal[m]) : journal'[m][i] = journal[m][i]
         /\ journal'[n][Len(journal[n]) + 1] = g
         /\ \A m \in Replica : \A h : Holds(m, h) => Holds(m, h)'
         /\ Holds(n, g)'
         /\ \A m \in Replica : \A h : Holds(m, h)' => Holds(m, h) \/ (m = n /\ h = g)
<1>1. journal' \in [Replica -> Seq(Fact)]
  BY DEF Shape
<1>2. /\ \A m \in Replica : Len(journal'[m]) = IF m = n THEN Len(journal[n]) + 1 ELSE Len(journal[m])
      /\ \A m \in Replica : \A i \in 1 .. Len(journal[m]) : journal'[m][i] = journal[m][i]
      /\ journal'[n][Len(journal[n]) + 1] = g
  BY DEF Shape
<1>3. \A m \in Replica : Len(journal[m]) \in Nat
  BY FactTypes
<1>4. ASSUME NEW m \in Replica, NEW h, Holds(m, h) PROVE Holds(m, h)'
  <2>1. PICK i \in 1 .. Len(journal[m]) : journal[m][i] = h
    BY <1>4 DEF Holds
  <2>2. i \in 1 .. Len(journal'[m]) /\ journal'[m][i] = h
    BY <1>2, <1>3, <2>1
  <2> QED BY <2>2 DEF Holds
<1>5. Holds(n, g)'
  <2>1. Len(journal[n]) + 1 \in 1 .. Len(journal'[n])
    BY <1>2, <1>3
  <2> QED BY <1>2, <2>1 DEF Holds
<1>6. ASSUME NEW m \in Replica, NEW h, Holds(m, h)' PROVE Holds(m, h) \/ (m = n /\ h = g)
  <2>1. PICK i \in 1 .. Len(journal'[m]) : journal'[m][i] = h
    BY <1>6 DEF Holds
  <2>2. CASE i \in 1 .. Len(journal[m])
    BY <1>2, <2>1, <2>2 DEF Holds
  <2>3. CASE i \notin 1 .. Len(journal[m])
    <3>1. m = n /\ i = Len(journal[n]) + 1
      BY <1>2, <1>3, <2>3
    <3> QED BY <1>2, <2>1, <3>1
  <2> QED BY <2>2, <2>3
<1> QED BY <1>1, <1>2, <1>4, <1>5, <1>6

\* A captured fact that its origin has, or publishes in its turn, can be appended.
LEMMA AppendStep ==
  ASSUME IInv, NEW n \in Replica, NEW g \in Fact,
         journal' = [journal EXCEPT ![n] = Append(@, g)], outbox' = outbox,
         \E k \in 1 .. Len(outbox[g.origin]) : outbox[g.origin][k] = g,
         g.origin = n \/ Holds(g.origin, g),
         g.origin = n => \A i \in 1 .. Len(journal[n]) :
                           journal[n][i].origin = n => journal[n][i].clock < g.clock
  PROVE  Captured' /\ Published' /\ InOrder'
<1> USE DEF IInv
<1>1. /\ \A m \in Replica : Len(journal'[m]) = IF m = n THEN Len(journal[n]) + 1 ELSE Len(journal[m])
      /\ \A m \in Replica : \A i \in 1 .. Len(journal[m]) : journal'[m][i] = journal[m][i]
      /\ journal'[n][Len(journal[n]) + 1] = g
      /\ \A m \in Replica : \A h : Holds(m, h) => Holds(m, h)'
      /\ Holds(n, g)'
  BY AppendHolds
<1>2. \A m \in Replica : Len(journal[m]) \in Nat
  BY FactTypes
<1>3. \A m \in Replica : \A i \in 1 .. Len(journal'[m]) :
        \/ i \in 1 .. Len(journal[m]) /\ journal'[m][i] = journal[m][i]
        \/ m = n /\ i = Len(journal[n]) + 1 /\ journal'[m][i] = g
  BY <1>1, <1>2
<1>4. Captured'
  <2> SUFFICES ASSUME NEW m \in Replica, NEW i \in 1 .. Len(journal'[m])
               PROVE  \E k \in 1 .. Len(outbox[journal'[m][i].origin]) :
                        outbox[journal'[m][i].origin][k] = journal'[m][i]
    BY DEF Captured
  <2>1. CASE i \in 1 .. Len(journal[m]) /\ journal'[m][i] = journal[m][i]
    <3>1. PICK k \in 1 .. Len(outbox[journal[m][i].origin]) :
            outbox[journal[m][i].origin][k] = journal[m][i]
      BY <2>1 DEF Captured
    <3>2. journal'[m][i] = journal[m][i]
      BY <2>1
    <3> QED BY <3>1, <3>2
  <2>2. CASE m = n /\ journal'[m][i] = g
    <3>1. PICK k \in 1 .. Len(outbox[g.origin]) : outbox[g.origin][k] = g
      OBVIOUS
    <3>2. journal'[m][i] = g
      BY <2>2
    <3>3. Len(outbox[journal'[m][i].origin]) = Len(outbox[g.origin])
      BY <3>2
    <3>4. outbox[journal'[m][i].origin][k] = journal'[m][i]
      BY <3>1, <3>2
    <3> QED BY <3>1, <3>3, <3>4
  <2> QED BY <1>3, <2>1, <2>2
<1>5. Published'
  <2> SUFFICES ASSUME NEW m \in Replica, NEW p \in Replica, NEW i \in 1 .. Len(journal'[p]),
                      journal'[p][i].origin = m
               PROVE  Holds(m, journal[p][i])'
    BY DEF Published
  <2>1. CASE i \in 1 .. Len(journal[p]) /\ journal'[p][i] = journal[p][i]
    <3>1. PICK k \in 1 .. Len(journal[m]) : journal[m][k] = journal[p][i]
      BY <2>1 DEF Published, Holds
    <3>2. k \in 1 .. Len(journal'[m]) /\ journal'[m][k] = journal'[p][i]
      BY <1>1, <1>2, <2>1, <3>1
    <3> QED BY <3>2 DEF Holds
  <2>2. CASE p = n /\ journal'[p][i] = g
    <3>1. \E k \in 1 .. Len(journal'[m]) : journal'[m][k] = g
      BY <1>1, <2>2 DEF Holds
    <3> QED BY <2>2, <3>1 DEF Holds
  <2> QED BY <1>3, <2>1, <2>2
<1>6. InOrder'
  <2> SUFFICES ASSUME NEW m \in Replica, NEW i \in 1 .. Len(journal'[m]), NEW j \in 1 .. Len(journal'[m]),
                      i < j, journal'[m][i].origin = m, journal'[m][j].origin = m
               PROVE  journal'[m][i].clock < journal'[m][j].clock
    BY DEF InOrder
  <2>1. i \in 1 .. Len(journal[m]) /\ journal'[m][i] = journal[m][i]
    BY <1>1, <1>2
  <2>2. CASE j \in 1 .. Len(journal[m]) /\ journal'[m][j] = journal[m][j]
    BY <2>1, <2>2 DEF InOrder
  <2>3. CASE m = n /\ journal'[m][j] = g
    BY <2>1, <2>3
  <2> QED BY <1>3, <2>2, <2>3
<1> QED BY <1>4, <1>5, <1>6
\* Putting the next fact preserves the invariant: all older own facts are in
\* the journal, and if it is not there, no newer one is.
LEMMA PutStep == ASSUME IInv, NEW n \in Replica, Put(n) PROVE IInv'
<1> USE DEF IInv
<1>1. \A m \in Replica : /\ exported[m] \in Nat /\ putting[m] \in Nat /\ projected[m] \in Nat
                          /\ Len(outbox[m]) \in Nat /\ Len(journal[m]) \in Nat
  BY FactTypes DEF Shape
<1>2. PICK next \in 1 .. Len(outbox[n]) : next = exported[n] + putting[n] + 1
  BY <1>1 DEF Put
<1>3. PICK g \in Fact : g.origin = n /\ g = outbox[n][next]
  BY FactTypes DEF Stamps
<1>4. /\ journal' = [journal EXCEPT ![n] = IF g \in Range(@) THEN @ ELSE Append(@, g)]
      /\ putting' = [putting EXCEPT ![n] = @ + 1]
      /\ UNCHANGED <<outbox, exported, projected, clock, fields, row>>
  BY <1>2, <1>3 DEF Put
<1>5. /\ journal' \in [Replica -> Seq(Fact)]
      /\ \A m \in Replica : Len(journal[m]) <= Len(journal'[m])
      /\ \A m \in Replica : \A h : Holds(m, h) => Holds(m, h)'
      /\ Holds(n, g)'
      /\ \A m \in Replica : \A h : Holds(m, h)' => Holds(m, h) \/ (m = n /\ h = g)
      /\ Captured' /\ Published' /\ InOrder'
  <2>1. CASE g \in Range(journal[n])
    <3>1. journal' = journal
      BY <1>4, <2>1 DEF Shape
    <3>2. Holds(n, g)
      BY <2>1, RangeHolds
    <3>3. \A m \in Replica : \A h : Holds(m, h)' <=> Holds(m, h)
      BY <3>1 DEF Holds
    <3>4. outbox' = outbox
      BY <1>4
    <3>5. Captured'
      BY <3>1, <3>4 DEF Captured
    <3>6. InOrder'
      BY <3>1 DEF InOrder
    <3>7. Published'
      BY <3>1 DEF Published, Holds
    <3>8. /\ journal' \in [Replica -> Seq(Fact)]
          /\ \A m \in Replica : Len(journal[m]) <= Len(journal'[m])
      BY <1>1, <3>1 DEF Shape
    <3> QED BY <3>2, <3>3, <3>7, <3>8, <3>5, <3>6
  <2>2. CASE g \notin Range(journal[n])
    <3>1. journal' = [journal EXCEPT ![n] = Append(@, g)]
      BY <1>4, <2>2
    <3>2. ~Holds(n, g)
      BY <2>2, RangeHolds
    <3>3. ASSUME NEW i \in 1 .. Len(journal[n]), journal[n][i].origin = n
          PROVE  journal[n][i].clock < g.clock
      <4>0. \E k \in 1 .. Len(outbox[journal[n][i].origin]) :
              outbox[journal[n][i].origin][k] = journal[n][i]
        BY DEF Captured
      <4>1. PICK k \in 1 .. Len(outbox[n]) : outbox[n][k] = journal[n][i]
        BY <3>3, <4>0
      <4>2. Holds(n, outbox[n][k])
        BY <4>1 DEF Holds
      <4>3. k # next
        BY <1>3, <3>2, <4>2
      <4>4. ~(next < k)
        BY <1>2, <1>3, <3>2, <4>2 DEF NoGaps
      <4>5. k < next
        BY <1>2, <4>3, <4>4
      <4> QED BY <1>2, <1>3, <4>1, <4>5 DEF Stamps
    <3>4. \E k \in 1 .. Len(outbox[g.origin]) : outbox[g.origin][k] = g
      BY <1>2, <1>3
    <3>5. Captured' /\ Published' /\ InOrder'
      BY <1>4, <1>3, <3>1, <3>3, <3>4, AppendStep
    <3>6. \A m \in Replica : Len(journal[m]) <= Len(journal'[m])
      BY <1>1, <1>3, <3>1, AppendHolds
    <3> QED BY <1>3, <3>1, <3>5, <3>6, AppendHolds
  <2> QED BY <2>1, <2>2
<1>6. Shape'
  BY <1>4, <1>5 DEF Shape
<1>7. Counted'
  <2> SUFFICES ASSUME NEW m \in Replica
               PROVE  exported'[m] + putting'[m] <= Len(outbox'[m]) /\ projected'[m] <= Len(journal'[m])
    BY DEF Counted
  <2>1. exported[m] + putting[m] <= Len(outbox[m]) /\ projected[m] <= Len(journal[m])
    BY DEF Counted
  <2>2. putting'[m] = IF m = n THEN putting[n] + 1 ELSE putting[m]
    BY <1>4 DEF Shape
  <2>3. Len(journal'[m]) \in Nat
    BY <1>5
  <2>4. exported'[m] + putting'[m] <= Len(outbox'[m])
    BY <1>4, <1>1, <1>2, <2>1, <2>2
  <2>5. projected[m] <= Len(journal'[m])
    BY <1>1, <1>5, <2>1, <2>3
  <2> QED BY <1>4, <2>4, <2>5
<1>8. Stamps'
  BY <1>4 DEF Stamps
<1>9. NoGaps'
  <2> SUFFICES ASSUME NEW m \in Replica, NEW j \in 1 .. Len(outbox[m]),
                      NEW k \in 1 .. Len(outbox[m]), j < k, Holds(m, outbox[m][k])'
               PROVE  Holds(m, outbox[m][j])'
    BY <1>4 DEF NoGaps
  <2>1. CASE Holds(m, outbox[m][k])
    <3>1. Holds(m, outbox[m][j])
      BY <2>1 DEF NoGaps
    <3>2. \A h : Holds(m, h) => \E i \in 1 .. Len(journal'[m]) : journal'[m][i] = h
      BY <1>5 DEF Holds
    <3> QED BY <1>4, <3>1, <3>2 DEF Holds
  <2>2. CASE m = n /\ outbox[m][k] = g
    <3>1. outbox[n][k].clock \in Nat /\ outbox[n][next].clock \in Nat
      BY <1>2, <2>2, FactTypes, StampTypes
    <3>2. ~(k < next) /\ ~(next < k)
      BY <1>2, <1>3, <2>2, <3>1 DEF Stamps
    <3>3. k = next /\ j \in 1 .. exported[n] + putting[n]
      BY <1>1, <1>2, <2>2, <3>2
    <3>4. Holds(n, outbox[n][j])
      BY <3>3 DEF Exported
    <3>5. \A h : Holds(n, h) => \E i \in 1 .. Len(journal'[n]) : journal'[n][i] = h
      BY <1>5 DEF Holds
    <3> QED BY <1>4, <2>2, <3>4, <3>5 DEF Holds
  <2>3. \A h : (\E i \in 1 .. Len(journal'[m]) : journal'[m][i] = h)
                 => Holds(m, h) \/ (m = n /\ h = g)
    BY <1>5 DEF Holds
  <2>4. \E i \in 1 .. Len(journal'[m]) : journal'[m][i] = outbox[m][k]
    BY <1>4 DEF Holds
  <2> QED BY <2>1, <2>2, <2>3, <2>4
<1>10. Exported'
  <2> SUFFICES ASSUME NEW m \in Replica, NEW k \in 1 .. exported'[m] + putting'[m]
               PROVE  \E i \in 1 .. Len(journal'[m]) : journal'[m][i] = outbox'[m][k]
    BY DEF Exported, Holds
  <2>1. putting'[m] = IF m = n THEN putting[n] + 1 ELSE putting[m]
    BY <1>4 DEF Shape
  <2>2. \A h : Holds(m, h) => \E i \in 1 .. Len(journal'[m]) : journal'[m][i] = h
    BY <1>5 DEF Holds
  <2>3. CASE k \in 1 .. exported[m] + putting[m]
    BY <1>4, <2>2, <2>3 DEF Exported
  <2>4. CASE k \notin 1 .. exported[m] + putting[m]
    <3>1. m = n /\ k = next
      BY <1>4, <1>1, <1>2, <2>1, <2>4
    <3>2. \E i \in 1 .. Len(journal'[n]) : journal'[n][i] = g
      BY <1>5 DEF Holds
    <3> QED BY <1>4, <1>3, <3>1, <3>2
  <2> QED BY <2>3, <2>4
<1> QED BY <1>5, <1>6, <1>7, <1>8, <1>9, <1>10
\* Committing the checkpoint only moves what was put to the exported facts.
LEMMA CommitExportStep == ASSUME IInv, NEW n \in Replica, CommitExport(n) PROVE IInv'
<1> USE DEF IInv
<1>1. /\ exported' = [exported EXCEPT ![n] = @ + putting[n]]
      /\ putting' = [putting EXCEPT ![n] = 0]
      /\ UNCHANGED <<outbox, journal, projected, clock, fields, row>>
  BY DEF CommitExport
<1>2. Shape'
  BY <1>1 DEF Shape
<1>3. \A m \in Replica : exported'[m] + putting'[m] = exported[m] + putting[m]
  BY <1>1 DEF Shape
<1>4. \A m \in Replica : /\ exported'[m] + putting'[m] <= exported[m] + putting[m]
                          /\ clock[m] <= clock'[m]
  BY <1>1 DEF Shape
<1>5. Counted'
  BY <1>1, <1>3 DEF Counted
<1> QED BY <1>1, <1>2, <1>4, <1>5, QuietStep

\* A failed export forgets what it put, and the journal keeps it.
LEMMA FailStep == ASSUME IInv, NEW n \in Replica, Fail(n) PROVE IInv'
<1> USE DEF IInv
<1>1. /\ putting' = [putting EXCEPT ![n] = 0]
      /\ UNCHANGED <<outbox, exported, journal, projected, clock, fields, row>>
  BY DEF Fail
<1>2. Shape'
  BY <1>1 DEF Shape
<1>3. \A m \in Replica : /\ exported'[m] + putting'[m] <= exported[m] + putting[m]
                          /\ clock[m] <= clock'[m]
  BY <1>1 DEF Shape
<1>4. Counted'
  <2> SUFFICES ASSUME NEW m \in Replica
               PROVE  exported'[m] + putting'[m] <= Len(outbox'[m]) /\ projected'[m] <= Len(journal'[m])
    BY DEF Counted
  <2>1. exported[m] + putting[m] <= Len(outbox[m]) /\ projected[m] <= Len(journal[m])
    BY DEF Counted
  <2>2. exported[m] \in Nat /\ putting[m] \in Nat /\ Len(outbox[m]) \in Nat
    BY FactTypes DEF Shape
  <2>3. exported'[m] \in Nat /\ putting'[m] \in Nat
    BY <1>2 DEF Shape
  <2> QED BY <1>1, <1>3, <2>1, <2>2, <2>3
<1> QED BY <1>1, <1>2, <1>3, <1>4, QuietStep

\* Reducing a fact writes neither log, and clocks only grow.
LEMMA ImportStep == ASSUME IInv, NEW n \in Replica, Import(n) PROVE IInv'
<1> USE DEF IInv
<1>1. projected[n] \in Nat /\ Len(journal[n]) \in Nat /\ projected[n] < Len(journal[n])
  BY FactTypes DEF Shape, Import
<1>2. PICK f \in Fact : f = journal[n][projected[n] + 1]
  BY <1>1, FactTypes
<1>3. PICK values : values = Reduced(fields[n], f)
  OBVIOUS
<1>4. values \in [Field -> Value] /\ Merged(values) \in Row
  BY <1>3, ReducedType, MergedType DEF Shape
<1>5. /\ projected' = [projected EXCEPT ![n] = @ + 1]
      /\ clock' = [clock EXCEPT ![n] = Advanced(@, f)]
      /\ fields' = [fields EXCEPT ![n] = values]
      /\ row' = row \/ row' = [row EXCEPT ![n] = Merged(values)]
      /\ UNCHANGED <<outbox, exported, putting, journal>>
  BY <1>2, <1>3 DEF Import, Shape
<1>6. Advanced(clock[n], f) \in Nat /\ clock[n] <= Advanced(clock[n], f)
  BY StampTypes DEF Advanced, Shape
<1>7. Shape'
  <2>1. /\ outbox' \in [Replica -> Seq(Fact)] /\ journal' \in [Replica -> Seq(Fact)]
        /\ exported' \in [Replica -> Nat] /\ putting' \in [Replica -> Nat]
    BY <1>5 DEF Shape
  <2>2. clock' \in [Replica -> Nat] /\ projected' \in [Replica -> Nat]
    BY <1>5, <1>6 DEF Shape
  <2>3. fields' \in [Replica -> [Field -> Value]]
    BY <1>4, <1>5 DEF Shape
  <2>4. row' \in [Replica -> Row]
    BY <1>4, <1>5 DEF Shape
  <2> QED BY <2>1, <2>2, <2>3, <2>4 DEF Shape
<1>8. \A m \in Replica : /\ exported'[m] + putting'[m] <= exported[m] + putting[m]
                          /\ clock[m] <= clock'[m]
  BY <1>5, <1>6 DEF Shape
<1>9. Counted'
  <2>1. \A m \in Replica : projected'[m] = IF m = n THEN projected[n] + 1 ELSE projected[m]
    BY <1>5 DEF Shape
  <2> QED BY <1>1, <1>5, <2>1 DEF Counted
<1> QED BY <1>5, <1>7, <1>8, <1>9, QuietStep

\* Writing the row reads the winning values only.
LEMMA MaterializeStep == ASSUME IInv, NEW n \in Replica, Materialize(n) PROVE IInv'
<1> USE DEF IInv
<1>1. /\ row' = [row EXCEPT ![n] = Merged(fields[n])]
      /\ UNCHANGED <<outbox, exported, putting, journal, projected, clock, fields>>
  BY DEF Materialize
<1>2. Merged(fields[n]) \in Row
  BY MergedType DEF Shape
<1>3. Shape' /\ Counted'
  BY <1>1, <1>2 DEF Shape, Counted
<1>4. \A m \in Replica : /\ exported'[m] + putting'[m] <= exported[m] + putting[m]
                          /\ clock[m] <= clock'[m]
  BY <1>1 DEF Shape
<1> QED BY <1>1, <1>3, <1>4, QuietStep

\* A received fact is never an own one: what a peer offers of those is there.
LEMMA ReceiveStep ==
  ASSUME IInv, NEW n \in Replica, NEW p \in Replica, Receive(n, p) PROVE IInv'
<1> USE DEF IInv
<1>1. PICK i \in DOMAIN journal[p] :
        /\ journal[p][i] \notin Range(journal[n])
        /\ journal' = [journal EXCEPT ![n] = Append(@, journal[p][i])]
        /\ UNCHANGED <<outbox, exported, putting, projected, clock, fields, row>>
  BY DEF Receive
<1>2. i \in 1 .. Len(journal[p])
  <2>1. journal[p] \in Seq(Fact)
    BY DEF Shape
  <2> QED BY <2>1
<1>3. PICK g \in Fact : g = journal[p][i]
  BY <1>2, FactTypes
<1>4. ~Holds(n, g)
  BY <1>1, <1>3, RangeHolds
<1>5. g.origin \in Replica /\ g.origin # n /\ Holds(g.origin, g)
  BY <1>2, <1>3, <1>4, StampTypes DEF Published
<1>6. journal' = [journal EXCEPT ![n] = Append(@, g)]
  BY <1>1, <1>3
<1>7. \E k \in 1 .. Len(outbox[g.origin]) : outbox[g.origin][k] = g
  BY <1>2, <1>3 DEF Captured
<1>8. Captured' /\ Published' /\ InOrder'
  BY <1>1, <1>5, <1>6, <1>7, AppendStep
<1>9. /\ journal' \in [Replica -> Seq(Fact)]
      /\ \A m \in Replica : Len(journal'[m]) = IF m = n THEN Len(journal[n]) + 1 ELSE Len(journal[m])
      /\ \A m \in Replica : \A h : Holds(m, h) => Holds(m, h)'
      /\ \A m \in Replica : \A h : Holds(m, h)' => Holds(m, h) \/ (m = n /\ h = g)
  BY <1>6, AppendHolds
<1>10. Shape' /\ Stamps'
  BY <1>1, <1>9 DEF Shape, Stamps
<1>11. Counted'
  <2> SUFFICES ASSUME NEW m \in Replica
               PROVE  exported[m] + putting[m] <= Len(outbox[m]) /\ projected[m] <= Len(journal'[m])
    BY <1>1 DEF Counted
  <2>1. projected[m] \in Nat /\ Len(journal[m]) \in Nat
    BY FactTypes DEF Shape
  <2> QED BY <1>9, <2>1 DEF Counted
<1>12. \A m \in Replica : \A k \in 1 .. Len(outbox[m]) :
         /\ Holds(m, outbox[m][k]) => \E x \in 1 .. Len(journal'[m]) : journal'[m][x] = outbox[m][k]
         /\ (\E x \in 1 .. Len(journal'[m]) : journal'[m][x] = outbox[m][k]) => Holds(m, outbox[m][k])
  <2> SUFFICES ASSUME NEW m \in Replica, NEW k \in 1 .. Len(outbox[m])
               PROVE  /\ Holds(m, outbox[m][k]) => \E x \in 1 .. Len(journal'[m]) : journal'[m][x] = outbox[m][k]
                      /\ (\E x \in 1 .. Len(journal'[m]) : journal'[m][x] = outbox[m][k]) => Holds(m, outbox[m][k])
    OBVIOUS
  <2>1. PICK h : h = outbox[m][k]
    OBVIOUS
  <2>2. ~(m = n /\ h = g)
    BY <1>5, <2>1 DEF Stamps
  <2>3. Holds(m, h)' <=> Holds(m, h)
    BY <1>9, <2>2
  <2>4. Holds(m, h)' <=> \E x \in 1 .. Len(journal'[m]) : journal'[m][x] = h
    BY DEF Holds
  <2> QED BY <2>1, <2>3, <2>4
<1>13. NoGaps'
  <2> SUFFICES ASSUME NEW m \in Replica, NEW j \in 1 .. Len(outbox'[m]),
                      NEW k \in 1 .. Len(outbox'[m]), j < k,
                      \E x \in 1 .. Len(journal'[m]) : journal'[m][x] = outbox'[m][k]
               PROVE  \E x \in 1 .. Len(journal'[m]) : journal'[m][x] = outbox'[m][j]
    BY DEF NoGaps, Holds
  <2>1. outbox' = outbox
    BY <1>1
  <2>2. Holds(m, outbox[m][j])
    BY <1>12, <2>1 DEF NoGaps
  <2> QED BY <1>12, <2>1, <2>2
<1>14. Exported'
  <2> SUFFICES ASSUME NEW m \in Replica, NEW k \in 1 .. exported[m] + putting[m]
               PROVE  \E x \in 1 .. Len(journal'[m]) : journal'[m][x] = outbox[m][k]
    BY <1>1 DEF Exported, Holds
  <2>1. /\ exported[m] \in Nat /\ putting[m] \in Nat /\ Len(outbox[m]) \in Nat
        /\ exported[m] + putting[m] <= Len(outbox[m])
    BY FactTypes DEF Shape, Counted
  <2>2. k \in 1 .. Len(outbox[m])
    BY <2>1
  <2> QED BY <1>12, <2>2 DEF Exported
<1> QED BY <1>8, <1>10, <1>11, <1>13, <1>14

---------------------------------------------------------------------------
\* A user's change preserves the invariant.
LEMMA ChangeStep == ASSUME IInv, NEW n \in Replica, Change(n) PROVE IInv'
<1> USE DEF IInv
<1>1. row[n] \in Row /\ {"text", "@lifecycle"} \subseteq Field
  BY DEF Shape, Field
<1>2. CASE \E text \in Text : Edit(n, text)
  <2>1. PICK text \in Text : Edit(n, text)
    BY <1>2
  <2>2. [row[n] EXCEPT !.text = text] \in Row
    BY <1>1 DEF Row
  <2> QED BY <1>1, <2>1, <2>2, CaptureStep DEF Edit
<1>3. CASE Close(n)
  <2>1. [row[n] EXCEPT !.state = "closed"] \in Row
    BY <1>1 DEF Row
  <2> QED BY <1>1, <1>3, <2>1, CaptureStep DEF Close
<1>4. CASE Reopen(n)
  <2>1. [row[n] EXCEPT !.state = "open"] \in Row
    BY <1>1 DEF Row
  <2> QED BY <1>1, <1>4, <2>1, CaptureStep DEF Reopen
<1>5. CASE SetBlockers(n)
  <2>1. [row[n] EXCEPT !.waits = ~@] \in Row
    BY <1>1 DEF Row
  <2> QED BY <1>1, <1>5, <2>1, CaptureStep DEF SetBlockers
<1> QED BY <1>2, <1>3, <1>4, <1>5 DEF Change

\* Every step preserves the invariant.
LEMMA NextHolds == IInv /\ [Next]_vars => IInv'
<1> SUFFICES ASSUME IInv, [Next]_vars PROVE IInv'
  OBVIOUS
<1>1. CASE \E n \in Replica : Change(n)
  BY <1>1, ChangeStep
<1>2. CASE \E n \in Replica : Prepare(n)
  BY <1>2, PutStep, CommitExportStep, ImportStep, MaterializeStep DEF Prepare
<1>3. CASE \E n \in Replica : Fail(n)
  BY <1>3, FailStep
<1>4. CASE \E n, p \in Replica : Receive(n, p)
  BY <1>4, ReceiveStep
<1>5. CASE UNCHANGED vars
  BY <1>5 DEF vars, IInv, Shape, Counted, Stamps, Captured, Published, NoGaps,
              Exported, InOrder, Holds
<1> QED BY <1>1, <1>2, <1>3, <1>4, <1>5 DEF Next

\* The invariant that the result rests on.
THEOREM Inductive == Spec => []IInv
BY InitHolds, NextHolds, PTL DEF Spec

\* However often exports fail and are repeated, and whatever comes back from
\* peers, own facts are in the journal once, in order and without omissions.
THEOREM ExportsOnce == Spec => []JournaledOnce
<1>1. ASSUME IInv PROVE JournaledOnce
  <2> USE <1>1 DEF IInv
  <2> SUFFICES ASSUME NEW n \in Replica
               PROVE  /\ \A i, j \in DOMAIN journal[n] :
                           i < j /\ journal[n][i].origin = n /\ journal[n][j].origin = n
                             => journal[n][i].clock < journal[n][j].clock
                      /\ \A k \in 1 .. exported[n] + putting[n] : outbox[n][k] \in Range(journal[n])
    BY DEF JournaledOnce
  <2>1. DOMAIN journal[n] = 1 .. Len(journal[n])
    <3>1. journal[n] \in Seq(Fact)
      BY DEF Shape
    <3> QED BY <3>1
  <2> QED BY <2>1, RangeHolds DEF InOrder, Exported
<1> QED BY <1>1, Inductive, PTL
---------------------------------------------------------------------------
(* What users see.  The value of a field group is the newest of a set of   *)
(* facts; the invariant names that set for the merged values and the row.  *)

Stamped(f) == [clock |-> f.clock, origin |-> f.origin, after |-> f.after]
Blank == [clock |-> 0, origin |-> 0, after |-> FirstRow]

\* The first facts of a log.
Firsts(s, k) == {s[i] : i \in 1 .. k}

\* Value v of a field group is the newest one that the facts S give it.
Newest(v, field, S) ==
  /\ v \in Value
  /\ \A f \in S : f.field = field => ~Newer(f, v)
  /\ v = Blank \/ (\E f \in S : f.field = field /\ v = Stamped(f))

\* The types of stamps.
LEMMA ValueTypes ==
  /\ \A v \in Value : v.clock \in Nat /\ v.origin \in Nat
  /\ \A f \in Fact : /\ f.clock \in Nat /\ f.origin \in Nat
                     /\ Stamped(f) \in Value
                     /\ Stamped(f).clock = f.clock /\ Stamped(f).origin = f.origin
                     /\ Stamped(f).after = f.after
  /\ Blank \in Value /\ Blank.clock = 0 /\ Blank.origin = 0
<1>1. Replica \cup {0} \subseteq Nat
  BY JournalAssumption
<1>2. ASSUME NEW v \in Value PROVE v.clock \in Nat /\ v.origin \in Nat
  BY <1>1 DEF Value
<1>3. ASSUME NEW f \in Fact
      PROVE  /\ f.clock \in Nat /\ f.origin \in Nat
             /\ Stamped(f) \in Value
             /\ Stamped(f).clock = f.clock /\ Stamped(f).origin = f.origin
             /\ Stamped(f).after = f.after
  BY <1>1 DEF Fact, Value, Stamped
<1>4. Blank \in Value /\ Blank.clock = 0 /\ Blank.origin = 0
  BY FirstRowType DEF Blank, Value
<1> QED BY <1>2, <1>3, <1>4

\* The newest value is the winning one when stamps identify facts.
LEMMA NewestIsWinning ==
  ASSUME NEW S \in SUBSET Fact,
         \A f \in S : 0 < f.clock,
         \A f, g \in S : f.clock = g.clock /\ f.origin = g.origin => f = g,
         NEW field \in Field, NEW v, Newest(v, field, S)
  PROVE  Winning(S)[field] = v
<1> DEFINE values == {[clock |-> f.clock, origin |-> f.origin, after |-> f.after] :
                        f \in {g \in S : g.field = field}}
                     \cup {[clock |-> 0, origin |-> 0, after |-> FirstRow]}
<1>1. Winning(S)[field] = CHOOSE u \in values : \A w \in values \ {u} : Newer(u, w)
  BY DEF Winning
<1>2. /\ \A u \in values : u = Blank \/ (\E f \in S : f.field = field /\ u = Stamped(f))
      /\ Blank \in values
      /\ \A f \in S : f.field = field => Stamped(f) \in values
  BY DEF Stamped, Blank
<1> HIDE DEF values
<1>3. v \in values /\ v \in Value
  BY <1>2 DEF Newest
<1>4. \A u \in values : u \in Value
  BY <1>2, ValueTypes
<1>5. ASSUME NEW w \in values \ {v} PROVE Newer(v, w)
  <2>1. /\ v.clock \in Nat /\ v.origin \in Nat
        /\ w.clock \in Nat /\ w.origin \in Nat
    BY <1>3, <1>4, ValueTypes
  <2>2. CASE w = Blank
    <3>1. PICK f \in S : f.field = field /\ v = Stamped(f)
      BY <1>5, <2>2 DEF Newest
    <3>2. v.clock > 0 /\ w.clock = 0
      BY <2>2, <3>1, ValueTypes
    <3> QED BY <3>2 DEF Newer
  <2>3. CASE w # Blank
    <3>1. PICK f \in S : f.field = field /\ w = Stamped(f)
      BY <1>2, <2>3
    <3>2. /\ w.clock = f.clock /\ w.origin = f.origin /\ 0 < f.clock
          /\ f.clock \in Nat
      BY <3>1, ValueTypes
    <3>3. ~Newer(w, v)
      BY <3>1, <3>2 DEF Newest, Newer
    <3>4. ~(w.clock = v.clock /\ w.origin = v.origin)
      <4> SUFFICES ASSUME w.clock = v.clock, w.origin = v.origin PROVE FALSE
        OBVIOUS
      <4>1. v # Blank
        <5>1. v.clock > 0
          BY <3>2
        <5>2. Blank.clock = 0
          BY ValueTypes
        <5> QED BY <5>1, <5>2
      <4>2. PICK g \in S : g.field = field /\ v = Stamped(g)
        BY <4>1 DEF Newest
      <4>3. g = f
        BY <3>2, <4>2, ValueTypes
      <4> QED BY <1>5, <3>1, <4>2, <4>3
    <3> QED BY <2>1, <3>3, <3>4 DEF Newer
  <2> QED BY <2>2, <2>3
<1>6. ASSUME NEW u \in values, \A w \in values \ {u} : Newer(u, w), u # v
      PROVE  FALSE
  <2>1. Newer(u, v) /\ Newer(v, u)
    BY <1>3, <1>5, <1>6
  <2>2. /\ v.clock \in Nat /\ v.origin \in Nat
        /\ u.clock \in Nat /\ u.origin \in Nat
    BY <1>3, <1>4, ValueTypes
  <2> QED BY <2>1, <2>2 DEF Newer
<1> QED BY <1>1, <1>3, <1>5, <1>6

\* One more fact.
LEMMA NewestGrows ==
  ASSUME NEW S \in SUBSET Fact, NEW f \in Fact, NEW field,
         NEW v, Newest(v, field, S)
  PROVE  Newest(IF f.field = field /\ Newer(f, v) THEN Stamped(f) ELSE v,
                field, S \cup {f})
<1>1. v.clock \in Nat /\ v.origin \in Nat
  BY ValueTypes DEF Newest
<1>2. f.clock \in Nat /\ f.origin \in Nat /\ Stamped(f) \in Value
      /\ Stamped(f).clock = f.clock /\ Stamped(f).origin = f.origin
  BY ValueTypes
<1>3. CASE ~(f.field = field /\ Newer(f, v))
  BY <1>3 DEF Newest
<1>4. CASE f.field = field /\ Newer(f, v)
  <2>1. ASSUME NEW g \in S \cup {f}, g.field = field PROVE ~Newer(g, Stamped(f))
    <3>1. CASE g = f
      BY <1>2, <3>1 DEF Newer
    <3>2. CASE g # f
      <4>1. g \in S /\ ~Newer(g, v)
        BY <2>1, <3>2 DEF Newest
      <4>2. g.clock \in Nat /\ g.origin \in Nat
        BY <4>1, ValueTypes
      <4> QED BY <1>1, <1>2, <1>4, <4>1, <4>2 DEF Newer
    <3> QED BY <3>1, <3>2
  <2> QED BY <1>2, <1>4, <2>1 DEF Newest
<1> QED BY <1>3, <1>4

\* Merged facts that change no value change none beside own facts either.
LEMMA NewestStays ==
  ASSUME NEW A, NEW B \in SUBSET Fact, NEW C, A \subseteq B, NEW field,
         NEW u, Newest(u, field, A), Newest(u, field, B),
         NEW v, Newest(v, field, A \cup C)
  PROVE  Newest(v, field, B \cup C)
<1>1. /\ v.clock \in Nat /\ v.origin \in Nat
      /\ u.clock \in Nat /\ u.origin \in Nat
  BY ValueTypes DEF Newest
<1>2. ~Newer(u, v)
  <2>1. CASE u = Blank
    BY <1>1, <2>1, ValueTypes DEF Newer
  <2>2. CASE u # Blank
    <3>1. PICK f \in A : f.field = field /\ u = Stamped(f)
      BY <2>2 DEF Newest
    <3>2. ~Newer(f, v) /\ f \in Fact
      BY <3>1 DEF Newest
    <3>3. u.clock = f.clock /\ u.origin = f.origin
      BY <3>1, <3>2, ValueTypes
    <3> QED BY <3>2, <3>3 DEF Newer
  <2> QED BY <2>1, <2>2
<1>3. ASSUME NEW f \in B \cup C, f.field = field PROVE ~Newer(f, v)
  <2>1. CASE f \in C
    BY <1>3, <2>1 DEF Newest
  <2>2. CASE f \in B
    <3>1. ~Newer(f, u) /\ f.clock \in Nat /\ f.origin \in Nat
      BY <1>3, <2>2, ValueTypes DEF Newest
    <3> QED BY <1>1, <1>2, <3>1 DEF Newer
  <2> QED BY <1>3, <2>1, <2>2
<1> QED BY <1>3 DEF Newest

\* Own facts have positive clocks.
Positive == \A n \in Replica : \A k \in 1 .. Len(outbox[n]) : 0 < outbox[n][k].clock

\* The Lamport clock is not behind a merged fact.
Ahead ==
  \A n \in Replica : \A i \in 1 .. projected[n] : journal[n][i].clock <= clock[n]

\* The row was last up to date at a position that was merged.
AppliedCounts ==
  /\ applied \in [Replica -> Nat] /\ dirty \in [Replica -> BOOLEAN]
  /\ \A n \in Replica : applied[n] <= projected[n]

\* The merged values are the newest of the merged facts ...
FieldsNewest ==
  \A n \in Replica, field \in Field :
    Newest(fields[n][field], field, Firsts(journal[n], projected[n]))

\* ... and as long as nothing is dirty, of those in the row.
CleanNewest ==
  \A n \in Replica, field \in Field :
    ~dirty[n] => Newest(fields[n][field], field, Firsts(journal[n], applied[n]))

\* A row shows the newest of the facts that were merged into it and its own.
Shows(r, S) ==
  /\ \E v : Newest(v, "text", S) /\ r.text = v.after.text
  /\ \E v : Newest(v, "@lifecycle", S) /\ r.waits = v.after.waits

RowsShow ==
  \A n \in Replica :
    Shows(row[n], Firsts(journal[n], applied[n])
                    \cup Firsts(outbox[n], Len(outbox[n])))

RInv ==
  /\ Positive /\ Ahead /\ AppliedCounts
  /\ FieldsNewest /\ CleanNewest /\ RowsShow

\* The facts that a cursor covers are facts of the log.
LEMMA FirstsAreFacts ==
  ASSUME Shape, Counted, AppliedCounts, NEW n \in Replica
  PROVE  /\ projected[n] \in Nat /\ applied[n] \in Nat /\ applied[n] <= projected[n]
         /\ Len(journal[n]) \in Nat /\ projected[n] <= Len(journal[n])
         /\ Firsts(journal[n], projected[n]) \in SUBSET Fact
         /\ Firsts(journal[n], applied[n]) \in SUBSET Fact
         /\ Firsts(outbox[n], Len(outbox[n])) \in SUBSET Fact
<1>1. /\ projected[n] \in Nat /\ applied[n] \in Nat /\ applied[n] <= projected[n]
      /\ Len(journal[n]) \in Nat /\ projected[n] <= Len(journal[n])
  BY FactTypes DEF Shape, Counted, AppliedCounts
<1>2. /\ \A i \in 1 .. projected[n] : journal[n][i] \in Fact
      /\ \A i \in 1 .. applied[n] : journal[n][i] \in Fact
  BY <1>1, FactTypes
<1> QED BY <1>1, <1>2, FactTypes DEF Firsts

\* Where every fact is, its stamp identifies it.
LEMMA StampsIdentify ==
  ASSUME IInv, Positive, NEW n \in Replica, NEW k \in Nat, k <= Len(journal[n])
  PROVE  LET S == Firsts(journal[n], k) \cup Firsts(outbox[n], Len(outbox[n]))
         IN /\ S \in SUBSET Fact
            /\ \A f \in S : 0 < f.clock
            /\ \A f, g \in S : f.clock = g.clock /\ f.origin = g.origin => f = g
<1> USE DEF IInv
<1> DEFINE S == Firsts(journal[n], k) \cup Firsts(outbox[n], Len(outbox[n]))
<1>1. ASSUME NEW f \in S
      PROVE  /\ f \in Fact /\ f.origin \in Replica
             /\ \E j \in 1 .. Len(outbox[f.origin]) : outbox[f.origin][j] = f
  <2>1. CASE f \in Firsts(journal[n], k)
    <3>1. PICK i \in 1 .. k : f = journal[n][i]
      BY <2>1 DEF Firsts
    <3>2. i \in 1 .. Len(journal[n])
      BY FactTypes
    <3> QED BY <3>1, <3>2, FactTypes, StampTypes DEF Captured
  <2>2. CASE f \in Firsts(outbox[n], Len(outbox[n]))
    <3>1. PICK i \in 1 .. Len(outbox[n]) : f = outbox[n][i]
      BY <2>2 DEF Firsts
    <3> QED BY <3>1, FactTypes DEF Stamps
  <2> QED BY <2>1, <2>2
<1>2. \A f \in S : 0 < f.clock
  BY <1>1 DEF Positive
<1>3. ASSUME NEW f \in S, NEW g \in S, f.clock = g.clock, f.origin = g.origin
      PROVE  f = g
  <2>1. PICK i \in 1 .. Len(outbox[f.origin]) : outbox[f.origin][i] = f
    BY <1>1
  <2>2. PICK j \in 1 .. Len(outbox[f.origin]) : outbox[f.origin][j] = g
    BY <1>1, <1>3
  <2>3. f.origin \in Replica /\ f.clock \in Nat
    BY <1>1, StampTypes
  <2>4. ~(i < j) /\ ~(j < i)
    BY <1>3, <2>1, <2>2, <2>3 DEF Stamps
  <2>5. i = j
    BY <2>4
  <2> QED BY <2>1, <2>2, <2>5
<1> QED BY <1>1, <1>2, <1>3

\* A row of the invariant shows the winning values.
LEMMA ShownIsWinning ==
  ASSUME IInv, RInv
  PROVE  OwnEditsStay
<1> SUFFICES ASSUME NEW n \in Replica
             PROVE  LET shown == Winning(Range(SubSeq(journal[n], 1, applied[n]))
                                           \cup Range(outbox[n]))
                    IN /\ row[n].text = shown["text"].after.text
                       /\ row[n].waits = shown["@lifecycle"].after.waits
  BY DEF OwnEditsStay
<1> DEFINE S == Firsts(journal[n], applied[n])
                  \cup Firsts(outbox[n], Len(outbox[n]))
<1>1. /\ journal[n] \in Seq(Fact) /\ outbox[n] \in Seq(Fact)
      /\ applied[n] \in Nat /\ applied[n] <= Len(journal[n])
      /\ Len(journal[n]) \in Nat
  BY FirstsAreFacts DEF IInv, RInv, Shape
<1>2. Range(SubSeq(journal[n], 1, applied[n])) = Firsts(journal[n], applied[n])
  <2>1. /\ SubSeq(journal[n], 1, applied[n]) \in Seq(Fact)
        /\ Len(SubSeq(journal[n], 1, applied[n])) = applied[n]
        /\ \A i \in 1 .. applied[n] :
             SubSeq(journal[n], 1, applied[n])[i] = journal[n][i]
    BY <1>1
  <2>2. DOMAIN SubSeq(journal[n], 1, applied[n]) = 1 .. applied[n]
    BY <2>1
  <2> QED BY <2>1, <2>2 DEF Range, Firsts
<1>3. Range(outbox[n]) = Firsts(outbox[n], Len(outbox[n]))
  <2>1. DOMAIN outbox[n] = 1 .. Len(outbox[n])
    BY <1>1
  <2> QED BY <2>1 DEF Range, Firsts
<1>4. /\ S \in SUBSET Fact
      /\ \A f \in S : 0 < f.clock
      /\ \A f, g \in S : f.clock = g.clock /\ f.origin = g.origin => f = g
  BY <1>1, StampsIdentify DEF RInv
<1>5. Shows(row[n], S)
  BY DEF RInv, RowsShow
<1> HIDE DEF S
<1>6. "text" \in Field /\ "@lifecycle" \in Field
  BY DEF Field
<1>7. /\ row[n].text = Winning(S)["text"].after.text
      /\ row[n].waits = Winning(S)["@lifecycle"].after.waits
  BY <1>4, <1>5, <1>6, NewestIsWinning DEF Shows
<1> QED BY <1>2, <1>3, <1>7 DEF S

\* A task starts with the blank values.
LEMMA InitShows == Init => RInv
<1> SUFFICES ASSUME Init PROVE RInv
  OBVIOUS
<1>1. /\ \A n \in Replica : /\ outbox[n] = <<>> /\ journal[n] = <<>>
                            /\ projected[n] = 0 /\ applied[n] = 0
                            /\ row[n] = FirstRow /\ fields[n] = Winning({})
      /\ applied \in [Replica -> Nat] /\ dirty \in [Replica -> BOOLEAN]
  BY DEF Init
<1>2. \A field : Newest(Blank, field, {})
  BY ValueTypes DEF Newest
<1>3. \A field \in Field : Winning({})[field] = Blank
  BY <1>2, NewestIsWinning
<1>4. \A n \in Replica : /\ Firsts(journal[n], projected[n]) = {}
                         /\ Firsts(journal[n], applied[n]) = {}
                         /\ Firsts(outbox[n], Len(outbox[n])) = {}
  BY <1>1 DEF Firsts
<1>5. FieldsNewest /\ CleanNewest
  BY <1>1, <1>2, <1>3, <1>4 DEF FieldsNewest, CleanNewest
<1>6. RowsShow
  <2>1. Blank.after = FirstRow
    BY DEF Blank
  <2> QED BY <1>1, <1>2, <1>4, <2>1 DEF RowsShow, Shows
<1>7. Positive /\ Ahead /\ AppliedCounts
  BY <1>1 DEF Positive, Ahead, AppliedCounts
<1> QED BY <1>5, <1>6, <1>7 DEF RInv

\* Facts that are added at the end of a journal change nothing that was merged.
LEMMA GrowthShows ==
  ASSUME IInv, RInv,
         UNCHANGED <<outbox, projected, clock, fields, dirty, row, applied>>,
         \A n \in Replica : \A i \in 1 .. Len(journal[n]) :
           journal'[n][i] = journal[n][i]
  PROVE  RInv'
<1> USE DEF IInv, RInv
<1>1. ASSUME NEW n \in Replica
      PROVE  /\ Firsts(journal'[n], projected[n]) = Firsts(journal[n], projected[n])
             /\ Firsts(journal'[n], applied[n]) = Firsts(journal[n], applied[n])
             /\ \A i \in 1 .. projected[n] : journal'[n][i] = journal[n][i]
  <2>1. \A i \in 1 .. projected[n] : journal'[n][i] = journal[n][i]
    BY FirstsAreFacts
  <2>2. \A i \in 1 .. applied[n] : journal'[n][i] = journal[n][i]
    BY FirstsAreFacts
  <2> QED BY <2>1, <2>2 DEF Firsts
<1>2. Positive' /\ AppliedCounts'
  BY DEF Positive, AppliedCounts
<1>3. Ahead'
  BY <1>1 DEF Ahead
<1>4. FieldsNewest' /\ CleanNewest'
  BY <1>1 DEF FieldsNewest, CleanNewest
<1>5. RowsShow'
  BY <1>1 DEF RowsShow
<1> QED BY <1>2, <1>3, <1>4, <1>5

\* export, its failures and the exchange
LEMMA PutShows == ASSUME IInv, RInv, NEW n \in Replica, Put(n) PROVE RInv'
<1>1. /\ UNCHANGED <<outbox, projected, clock, fields, dirty, row, applied>>
      /\ exported[n] + putting[n] + 1 <= Len(outbox[n])
  BY DEF Put
<1>2. PICK f : f = outbox[n][exported[n] + putting[n] + 1]
  OBVIOUS
<1>3. f \in Fact
  <2>1. exported[n] \in Nat /\ putting[n] \in Nat /\ Len(outbox[n]) \in Nat
    BY FactTypes DEF IInv, Shape
  <2> QED BY <1>1, <1>2, <2>1, FactTypes DEF IInv
<1>4. \/ journal' = journal
      \/ journal' = [journal EXCEPT ![n] = Append(@, f)]
  BY <1>2 DEF Put, IInv, Shape
<1>5. \A m \in Replica : \A i \in 1 .. Len(journal[m]) :
        journal'[m][i] = journal[m][i]
  BY <1>3, <1>4, AppendHolds DEF IInv
<1> QED BY <1>1, <1>5, GrowthShows

LEMMA ReceiveShows ==
  ASSUME IInv, RInv, NEW n \in Replica, NEW p \in Replica, Receive(n, p)
  PROVE  RInv'
<1>1. PICK k \in DOMAIN journal[p] :
        /\ journal' = [journal EXCEPT ![n] = Append(@, journal[p][k])]
        /\ UNCHANGED <<outbox, projected, clock, fields, dirty, row, applied>>
  BY DEF Receive
<1>2. journal[p][k] \in Fact
  <2>1. journal[p] \in Seq(Fact)
    BY DEF IInv, Shape
  <2> QED BY <2>1
<1>3. \A m \in Replica : \A i \in 1 .. Len(journal[m]) :
        journal'[m][i] = journal[m][i]
  BY <1>1, <1>2, AppendHolds DEF IInv
<1> QED BY <1>1, <1>3, GrowthShows

\* A user's change is newer than all that its peer merged or captured, and what
\* it leaves alone stays.
LEMMA CaptureShows ==
  ASSUME IInv, RInv, NEW n \in Replica, NEW field \in Field, NEW after \in Row,
         Capture(n, field, after),
         field = "text" => after.waits = row[n].waits,
         field = "@lifecycle" => after.text = row[n].text
  PROVE  RInv'
<1> USE DEF IInv, RInv
<1> DEFINE f == [clock |-> clock[n] + 1, origin |-> n, field |-> field,
                 before |-> row[n], after |-> after]
<1>1. /\ f \in Fact /\ f.clock = clock[n] + 1 /\ f.origin = n
      /\ f.field = field /\ f.after = after
  BY DEF Shape, Fact
<1>2. /\ outbox' = [outbox EXCEPT ![n] = Append(@, f)]
      /\ clock' = [clock EXCEPT ![n] = @ + 1]
      /\ row' = [row EXCEPT ![n] = after]
      /\ UNCHANGED <<journal, projected, fields, dirty, applied>>
  BY DEF Capture
<1> HIDE DEF f
<1>3. /\ \A m \in Replica : Len(outbox'[m]) = IF m = n THEN Len(outbox[n]) + 1 ELSE Len(outbox[m])
      /\ \A m \in Replica : \A k \in 1 .. Len(outbox[m]) : outbox'[m][k] = outbox[m][k]
      /\ outbox'[n][Len(outbox[n]) + 1] = f
      /\ \A m \in Replica : m # n => outbox'[m] = outbox[m]
      /\ \A m \in Replica : clock'[m] = IF m = n THEN clock[n] + 1 ELSE clock[m]
      /\ \A m \in Replica : row'[m] = IF m = n THEN after ELSE row[m]
  BY <1>1, <1>2 DEF Shape
<1>4. \A m \in Replica : /\ Len(outbox[m]) \in Nat /\ clock[m] \in Nat
                          /\ \A k \in 1 .. Len(outbox[m]) : outbox[m][k] \in Fact
  BY FactTypes DEF Shape
<1>5. Positive'
  <2> SUFFICES ASSUME NEW m \in Replica, NEW k \in 1 .. Len(outbox'[m])
               PROVE  0 < outbox'[m][k].clock
    BY DEF Positive
  <2>1. CASE k \in 1 .. Len(outbox[m])
    BY <1>3, <2>1 DEF Positive
  <2>2. CASE k \notin 1 .. Len(outbox[m])
    <3>1. m = n /\ k = Len(outbox[n]) + 1
      BY <1>3, <1>4, <2>2
    <3> QED BY <1>1, <1>3, <1>4, <3>1
  <2> QED BY <2>1, <2>2
<1>6. Ahead'
  <2> SUFFICES ASSUME NEW m \in Replica, NEW i \in 1 .. projected[m]
               PROVE  journal[m][i].clock <= clock'[m]
    BY <1>2 DEF Ahead
  <2>1. journal[m][i].clock <= clock[m]
    BY DEF Ahead
  <2>2. journal[m][i] \in Fact
    <3>1. i \in 1 .. Len(journal[m])
      BY FirstsAreFacts
    <3> QED BY <3>1, FactTypes
  <2>3. journal[m][i].clock \in Nat
    BY <2>2, StampTypes
  <2> QED BY <1>3, <1>4, <2>1, <2>3
<1>7. AppliedCounts' /\ FieldsNewest' /\ CleanNewest'
  BY <1>2 DEF AppliedCounts, FieldsNewest, CleanNewest
<1>8. RowsShow'
  <2> SUFFICES ASSUME NEW m \in Replica
               PROVE  Shows(row'[m], Firsts(journal[m], applied[m])
                                       \cup Firsts(outbox'[m], Len(outbox'[m])))
    BY <1>2 DEF RowsShow
  <2>1. CASE m # n
    BY <1>3, <2>1 DEF RowsShow
  <2>2. CASE m = n
    <3> DEFINE S == Firsts(journal[n], applied[n])
                      \cup Firsts(outbox[n], Len(outbox[n]))
    <3>1. Firsts(outbox'[n], Len(outbox'[n]))
            = Firsts(outbox[n], Len(outbox[n])) \cup {f}
      <4>1. 1 .. Len(outbox'[n]) = 1 .. Len(outbox[n]) \cup {Len(outbox[n]) + 1}
        BY <1>3, <1>4
      <4> QED BY <1>3, <4>1 DEF Firsts
    <3>2. S \in SUBSET Fact /\ S \cup {f} \in SUBSET Fact
      BY <1>1, FirstsAreFacts
    <3>3. \A g \in S : g.clock <= clock[n] /\ g.clock \in Nat
      <4> SUFFICES ASSUME NEW g \in S PROVE g.clock <= clock[n] /\ g.clock \in Nat
        OBVIOUS
      <4>1. g.clock \in Nat
        BY <3>2, StampTypes
      <4>2. CASE g \in Firsts(journal[n], applied[n])
        <5>1. PICK i \in 1 .. applied[n] : g = journal[n][i]
          BY <4>2 DEF Firsts
        <5>2. i \in 1 .. projected[n]
          BY FirstsAreFacts
        <5> QED BY <4>1, <5>1, <5>2 DEF Ahead
      <4>3. CASE g \in Firsts(outbox[n], Len(outbox[n]))
        BY <4>1, <4>3 DEF Firsts, Stamps
      <4> QED BY <4>2, <4>3
    <3>4. Shows(row[n], S)
      BY DEF RowsShow
    <3> HIDE DEF S
    <3>5. ASSUME NEW v, Newest(v, field, S) PROVE Newer(f, v)
      <4>1. CASE v = Blank
        BY <1>1, <1>4, <4>1, ValueTypes DEF Newer
      <4>2. CASE v # Blank
        <5>1. PICK g \in S : v = Stamped(g)
          BY <3>5, <4>2 DEF Newest
        <5>2. v.clock = g.clock /\ g.clock <= clock[n] /\ g.clock \in Nat
          BY <3>2, <3>3, <5>1, ValueTypes
        <5> QED BY <1>1, <1>4, <5>2 DEF Newer
      <4> QED BY <4>1, <4>2
    <3>6. PICK v : Newest(v, "text", S) /\ row[n].text = v.after.text
      BY <3>4 DEF Shows
    <3>7. PICK w : Newest(w, "@lifecycle", S) /\ row[n].waits = w.after.waits
      BY <3>4 DEF Shows
    <3>8. Stamped(f).after = after
      BY <1>1, ValueTypes
    <3>9. /\ Newest(IF field = "text" THEN Stamped(f) ELSE v, "text", S \cup {f})
          /\ Newest(IF field = "@lifecycle" THEN Stamped(f) ELSE w, "@lifecycle",
                    S \cup {f})
      <4>1. Newest(IF f.field = "text" /\ Newer(f, v) THEN Stamped(f) ELSE v,
                   "text", S \cup {f})
        BY <1>1, <3>2, <3>6, NewestGrows
      <4>2. Newest(IF f.field = "@lifecycle" /\ Newer(f, w) THEN Stamped(f) ELSE w,
                   "@lifecycle", S \cup {f})
        BY <1>1, <3>2, <3>7, NewestGrows
      <4>3. field = "text" => Newer(f, v)
        BY <3>5, <3>6
      <4>4. field = "@lifecycle" => Newer(f, w)
        BY <3>5, <3>7
      <4> QED BY <1>1, <4>1, <4>2, <4>3, <4>4
    <3>10. Shows(after, S \cup {f})
      <4>1. CASE field = "text"
        BY <3>7, <3>8, <3>9, <4>1 DEF Shows
      <4>2. CASE field = "@lifecycle"
        BY <3>6, <3>8, <3>9, <4>2 DEF Shows
      <4> QED BY <4>1, <4>2 DEF Field
    <3> QED BY <1>3, <2>2, <3>1, <3>10 DEF S
  <2> QED BY <2>1, <2>2
<1> QED BY <1>5, <1>6, <1>7, <1>8

---------------------------------------------------------------------------
\* Where the row may be written, own facts are among the merged ones.
LEMMA OwnAreMerged ==
  ASSUME IInv, NEW n \in Replica, putting[n] = 0, Ready(n, Len(journal[n]))
  PROVE  Firsts(outbox[n], Len(outbox[n])) \subseteq Firsts(journal[n], Len(journal[n]))
<1>1. exported[n] + putting[n] = Len(outbox[n])
  BY FactTypes DEF IInv, Shape, Ready
<1>2. \A k \in 1 .. Len(outbox[n]) : Holds(n, outbox[n][k])
  BY <1>1 DEF IInv, Exported
<1> QED BY <1>2 DEF Firsts, Holds

\* What a row that is written from the merged values shows.
LEMMA MergedShows ==
  ASSUME NEW values, NEW S, \A field \in Field : Newest(values[field], field, S)
  PROVE  Shows(Merged(values), S)
<1>1. /\ Merged(values).text = values["text"].after.text
      /\ Merged(values).waits = values["@lifecycle"].after.waits
  BY DEF Merged
<1>2. /\ Newest(values["text"], "text", S)
      /\ Newest(values["@lifecycle"], "@lifecycle", S)
  BY DEF Field
<1> QED BY <1>1, <1>2 DEF Shows

\* Reducing a fact keeps the newest values.
LEMMA ReducedNewest ==
  ASSUME NEW values \in [Field -> Value], NEW f \in Fact, NEW S \in SUBSET Fact,
         \A field \in Field : Newest(values[field], field, S)
  PROVE  \A field \in Field : Newest(Reduced(values, f)[field], field, S \cup {f})
<1> SUFFICES ASSUME NEW field \in Field
             PROVE  Newest(Reduced(values, f)[field], field, S \cup {f})
  OBVIOUS
<1>1. Newest(IF f.field = field /\ Newer(f, values[field]) THEN Stamped(f) ELSE values[field],
             field, S \cup {f})
  BY NewestGrows
<1>2. Reduced(values, f)[field]
        = IF f.field = field /\ Newer(f, values[field]) THEN Stamped(f) ELSE values[field]
  BY StampTypes DEF Reduced, Stamped
<1> QED BY <1>1, <1>2

\* import: the row is written when everything is merged, or it shows already
\* what the new fact leaves as it was.
LEMMA ImportShows == ASSUME IInv, RInv, NEW n \in Replica, Import(n) PROVE RInv'
<1> USE DEF IInv, RInv
<1> DEFINE next == projected[n] + 1
           old == Firsts(journal[n], projected[n])
           all == Firsts(journal[n], next)
           own == Firsts(outbox[n], Len(outbox[n]))
<1>1. /\ projected[n] \in Nat /\ Len(journal[n]) \in Nat /\ next \in 1 .. Len(journal[n])
      /\ next \in Nat /\ putting[n] = 0
  BY FactTypes DEF Shape, Import
<1>2. PICK f \in Fact : f = journal[n][next]
  BY <1>1, FactTypes
<1>3. PICK values : values = Reduced(fields[n], f)
  OBVIOUS
<1>4. PICK due \in BOOLEAN : due = (dirty[n] \/ values # fields[n])
  OBVIOUS
<1>5. PICK ready \in BOOLEAN : ready = Ready(n, next)
  BY DEF Ready
<1>6. /\ projected' = [projected EXCEPT ![n] = next]
      /\ clock' = [clock EXCEPT ![n] = Advanced(@, f)]
      /\ fields' = [fields EXCEPT ![n] = values]
      /\ dirty' = [dirty EXCEPT ![n] = due /\ ~ready]
      /\ row' = [row EXCEPT ![n] = IF ready /\ due THEN Merged(values) ELSE @]
      /\ applied' = [applied EXCEPT ![n] = IF ready THEN next ELSE @]
      /\ UNCHANGED <<outbox, exported, putting, journal>>
  BY <1>2, <1>3, <1>4, <1>5 DEF Import
<1>7. \A m \in Replica :
        /\ projected'[m] = IF m = n THEN next ELSE projected[m]
        /\ clock'[m] = IF m = n THEN Advanced(clock[n], f) ELSE clock[m]
        /\ fields'[m] = IF m = n THEN values ELSE fields[m]
        /\ dirty'[m] = IF m = n THEN due /\ ~ready ELSE dirty[m]
        /\ row'[m] = IF m = n /\ ready /\ due THEN Merged(values) ELSE row[m]
        /\ applied'[m] = IF m = n /\ ready THEN next ELSE applied[m]
  BY <1>6 DEF Shape, AppliedCounts
<1>8. all = old \cup {f}
  <2>1. 1 .. next = 1 .. projected[n] \cup {next}
    BY <1>1
  <2> QED BY <1>2, <2>1 DEF Firsts
<1>9. /\ old \in SUBSET Fact /\ all \in SUBSET Fact /\ own \in SUBSET Fact
      /\ Firsts(journal[n], applied[n]) \subseteq all
      /\ applied[n] \in Nat /\ applied[n] <= projected[n]
  <2>1. /\ applied[n] \in Nat /\ applied[n] <= projected[n]
        /\ old \in SUBSET Fact /\ own \in SUBSET Fact
    BY FirstsAreFacts
  <2>2. 1 .. applied[n] \subseteq 1 .. next
    BY <1>1, <2>1
  <2> QED BY <1>8, <2>1, <2>2 DEF Firsts
<1> HIDE DEF next, old, all, own
<1>10. \A field \in Field : Newest(values[field], field, all)
  <2>1. \A field \in Field : Newest(fields[n][field], field, old)
    BY DEF FieldsNewest, old
  <2>2. fields[n] \in [Field -> Value]
    BY DEF Shape
  <2> QED BY <1>3, <1>8, <1>9, <2>1, <2>2, ReducedNewest
<1>11. Positive' /\ AppliedCounts'
  <2>1. Positive'
    BY <1>6 DEF Positive
  <2>2. applied' \in [Replica -> Nat] /\ dirty' \in [Replica -> BOOLEAN]
    BY <1>1, <1>6 DEF AppliedCounts
  <2>3. ASSUME NEW m \in Replica PROVE applied'[m] <= projected'[m]
    <3>1. CASE m = n
      BY <1>1, <1>7, <1>9, <3>1 DEF next
    <3>2. CASE m # n
      BY <1>7, <3>2 DEF AppliedCounts
    <3> QED BY <3>1, <3>2
  <2> QED BY <2>1, <2>2, <2>3 DEF AppliedCounts
<1>12. Ahead'
  <2> SUFFICES ASSUME NEW m \in Replica, NEW i \in 1 .. projected'[m]
               PROVE  journal[m][i].clock <= clock'[m]
    BY <1>6 DEF Ahead
  <2>1. CASE m # n
    BY <1>7, <2>1 DEF Ahead
  <2>2. CASE m = n
    <3>1. /\ clock[n] \in Nat /\ f.clock \in Nat
          /\ clock'[n] = Advanced(clock[n], f)
      BY <1>7, StampTypes DEF Shape
    <3>2. CASE i = next
      BY <1>2, <2>2, <3>1, <3>2 DEF Advanced
    <3>3. CASE i # next
      <4>1. i \in 1 .. projected[n]
        BY <1>1, <1>7, <2>2, <3>3 DEF next
      <4>2. journal[n][i].clock <= clock[n]
        BY <4>1 DEF Ahead
      <4>3. journal[n][i].clock \in Nat
        <5>1. i \in 1 .. Len(journal[n])
          BY <4>1, FirstsAreFacts
        <5> QED BY <5>1, FactTypes, StampTypes
      <4> QED BY <2>2, <3>1, <4>2, <4>3 DEF Advanced
    <3> QED BY <3>2, <3>3
  <2> QED BY <2>1, <2>2
<1>13. FieldsNewest'
  <2> SUFFICES ASSUME NEW m \in Replica, NEW field \in Field
               PROVE  Newest(fields'[m][field], field, Firsts(journal[m], projected'[m]))
    BY <1>6 DEF FieldsNewest
  <2>1. CASE m = n
    BY <1>7, <1>10, <2>1 DEF all
  <2>2. CASE m # n
    BY <1>7, <2>2 DEF FieldsNewest
  <2> QED BY <2>1, <2>2
<1>14. CleanNewest'
  <2> SUFFICES ASSUME NEW m \in Replica, NEW field \in Field, ~dirty'[m]
               PROVE  Newest(fields'[m][field], field, Firsts(journal[m], applied'[m]))
    BY <1>6 DEF CleanNewest
  <2>1. CASE m = n /\ ready
    BY <1>7, <1>10, <2>1 DEF all
  <2>2. CASE m = n /\ ~ready
    <3>1. ~dirty[n] /\ values = fields[n]
      BY <1>4, <1>7, <2>2
    <3> QED BY <1>7, <2>2, <3>1 DEF CleanNewest
  <2>3. CASE m # n
    BY <1>7, <2>3 DEF CleanNewest
  <2> QED BY <2>1, <2>2, <2>3
<1>15. RowsShow'
  <2> SUFFICES ASSUME NEW m \in Replica
               PROVE  Shows(row'[m], Firsts(journal[m], applied'[m])
                                       \cup Firsts(outbox[m], Len(outbox[m])))
    BY <1>6 DEF RowsShow
  <2>1. CASE m # n
    BY <1>7, <2>1 DEF RowsShow
  <2>2. CASE m = n /\ ~ready
    BY <1>7, <2>2 DEF RowsShow
  <2>3. CASE m = n /\ ready /\ due
    <3>1. all \cup own = all
      <4>1. next = Len(journal[n])
        BY <1>5, <2>3 DEF Ready
      <4> QED BY <1>1, <1>5, <2>3, <4>1, OwnAreMerged DEF all, own
    <3>2. Shows(Merged(values), all)
      BY <1>10, MergedShows
    <3> QED BY <1>7, <2>3, <3>1, <3>2 DEF all, own
  <2>4. CASE m = n /\ ready /\ ~due
    <3>1. ~dirty[n] /\ values = fields[n]
      BY <1>4, <2>4
    <3> DEFINE shown == Firsts(journal[n], applied[n])
    <3>2. \A field \in Field : /\ Newest(fields[n][field], field, shown)
                               /\ Newest(fields[n][field], field, all)
      BY <1>10, <3>1 DEF CleanNewest
    <3>3. Shows(row[n], shown \cup own)
      BY DEF RowsShow, own
    <3>4. shown \subseteq all
      BY <1>9
    <3> HIDE DEF shown
    <3>5. \A field \in Field : \A v :
            Newest(v, field, shown \cup own) => Newest(v, field, all \cup own)
      BY <1>9, <3>2, <3>4, NewestStays
    <3>6. Shows(row[n], all \cup own)
      <4>1. "text" \in Field /\ "@lifecycle" \in Field
        BY DEF Field
      <4> QED BY <3>3, <3>5, <4>1 DEF Shows
    <3> QED BY <1>7, <2>4, <3>6 DEF all, own
  <2> QED BY <2>1, <2>2, <2>3, <2>4
<1> QED BY <1>11, <1>12, <1>13, <1>14, <1>15

\* import without a new fact
LEMMA MaterializeShows == ASSUME IInv, RInv, NEW n \in Replica, Materialize(n) PROVE RInv'
<1> USE DEF IInv, RInv
<1> DEFINE all == Firsts(journal[n], projected[n])
           own == Firsts(outbox[n], Len(outbox[n]))
<1>1. /\ dirty' = [dirty EXCEPT ![n] = FALSE]
      /\ row' = [row EXCEPT ![n] = Merged(fields[n])]
      /\ applied' = [applied EXCEPT ![n] = projected[n]]
      /\ UNCHANGED <<outbox, exported, putting, journal, projected, clock, fields>>
      /\ putting[n] = 0 /\ Ready(n, projected[n])
  BY DEF Materialize
<1>2. \A m \in Replica :
        /\ dirty'[m] = IF m = n THEN FALSE ELSE dirty[m]
        /\ row'[m] = IF m = n THEN Merged(fields[n]) ELSE row[m]
        /\ applied'[m] = IF m = n THEN projected[n] ELSE applied[m]
  BY <1>1 DEF Shape, AppliedCounts
<1>3. \A field \in Field : Newest(fields[n][field], field, all)
  BY DEF FieldsNewest
<1>4. all \cup own = all
  <2>1. projected[n] = Len(journal[n])
    BY <1>1 DEF Ready
  <2> QED BY <1>1, <2>1, OwnAreMerged
<1>5. Shows(Merged(fields[n]), all \cup own)
  BY <1>3, <1>4, MergedShows
<1>6. Positive' /\ Ahead' /\ FieldsNewest'
  BY <1>1 DEF Positive, Ahead, FieldsNewest
<1>7. AppliedCounts'
  <2>1. \A m \in Replica : projected[m] \in Nat
    BY DEF Shape
  <2>2. applied' \in [Replica -> Nat] /\ dirty' \in [Replica -> BOOLEAN]
    BY <1>1, <2>1 DEF AppliedCounts
  <2> QED BY <1>1, <1>2, <2>1, <2>2 DEF AppliedCounts
<1>8. CleanNewest'
  <2> SUFFICES ASSUME NEW m \in Replica, NEW field \in Field, ~dirty'[m]
               PROVE  Newest(fields[m][field], field, Firsts(journal[m], applied'[m]))
    BY <1>1 DEF CleanNewest
  <2>1. CASE m = n
    BY <1>2, <1>3, <2>1
  <2>2. CASE m # n
    BY <1>2, <2>2 DEF CleanNewest
  <2> QED BY <2>1, <2>2
<1>9. RowsShow'
  <2> SUFFICES ASSUME NEW m \in Replica
               PROVE  Shows(row'[m], Firsts(journal[m], applied'[m])
                                       \cup Firsts(outbox[m], Len(outbox[m])))
    BY <1>1 DEF RowsShow
  <2>1. CASE m = n
    BY <1>2, <1>5, <2>1
  <2>2. CASE m # n
    BY <1>2, <2>2 DEF RowsShow
  <2> QED BY <2>1, <2>2
<1> QED BY <1>6, <1>7, <1>8, <1>9

\* edit, close, reopen and set_blockers
LEMMA ChangeShows == ASSUME IInv, RInv, NEW n \in Replica, Change(n) PROVE RInv'
<1>1. row[n] \in Row /\ {"text", "@lifecycle"} \subseteq Field
  BY DEF IInv, Shape, Field
<1>2. CASE \E text \in Text : Edit(n, text)
  <2>1. PICK text \in Text : Edit(n, text)
    BY <1>2
  <2>2. /\ [row[n] EXCEPT !.text = text] \in Row
        /\ [row[n] EXCEPT !.text = text].waits = row[n].waits
    BY <1>1 DEF Row
  <2> QED BY <1>1, <2>1, <2>2, CaptureShows DEF Edit
<1>3. CASE Close(n)
  <2>1. /\ [row[n] EXCEPT !.state = "closed"] \in Row
        /\ [row[n] EXCEPT !.state = "closed"].text = row[n].text
    BY <1>1 DEF Row
  <2> QED BY <1>1, <1>3, <2>1, CaptureShows DEF Close
<1>4. CASE Reopen(n)
  <2>1. /\ [row[n] EXCEPT !.state = "open"] \in Row
        /\ [row[n] EXCEPT !.state = "open"].text = row[n].text
    BY <1>1 DEF Row
  <2> QED BY <1>1, <1>4, <2>1, CaptureShows DEF Reopen
<1>5. CASE SetBlockers(n)
  <2>1. /\ [row[n] EXCEPT !.waits = ~@] \in Row
        /\ [row[n] EXCEPT !.waits = ~@].text = row[n].text
    BY <1>1 DEF Row
  <2> QED BY <1>1, <1>5, <2>1, CaptureShows DEF SetBlockers
<1> QED BY <1>2, <1>3, <1>4, <1>5 DEF Change

\* Every step keeps the rows showing the newest values.
LEMMA NextShows == IInv /\ RInv /\ [Next]_vars => RInv'
<1> SUFFICES ASSUME IInv, RInv, [Next]_vars PROVE RInv'
  OBVIOUS
<1>1. CASE \E n \in Replica : Change(n)
  BY <1>1, ChangeShows
<1>2. CASE \E n \in Replica : Put(n) \/ Import(n) \/ Materialize(n)
  BY <1>2, PutShows, ImportShows, MaterializeShows
<1>3. CASE \/ \E n \in Replica : CommitExport(n) \/ Fail(n)
           \/ UNCHANGED vars
  <2>1. UNCHANGED <<outbox, journal, projected, clock, fields, dirty, row, applied>>
    BY <1>3 DEF CommitExport, Fail, vars
  <2> QED BY <2>1, GrowthShows
<1>4. CASE \E n, p \in Replica : Receive(n, p)
  BY <1>4, ReceiveShows
<1> QED BY <1>1, <1>2, <1>3, <1>4 DEF Next, Prepare

\* Whatever pages of older facts arrive in whatever order, and however exports
\* fail, the row shows the newest of the merged and the own changes (import:
\* "Do not publish an earlier remote page over local changes").
THEOREM OwnEditsAreShown == Spec => []OwnEditsStay
<1>1. Spec => [](IInv /\ RInv)
  BY InitHolds, InitShows, NextHolds, NextShows, PTL DEF Spec
<1> QED BY <1>1, ShownIsWinning, PTL

---------------------------------------------------------------------------
(* Where merging comes to rest: the safety that EventuallyMerged rests on. *)

\* A peer that has exported and reduced everything and has no row to write.
AtRest(n) ==
  /\ ~dirty[n]
  /\ exported[n] = Len(outbox[n]) /\ projected[n] = Len(journal[n])

\* Such a peer shows the winning values of its journal, its state included.
RestingRowsMerged ==
  \A n \in Replica : AtRest(n) => row[n] = Merged(Winning(Range(journal[n])))

\* A clean row that is not the merged one waits for an own change, which is
\* newer than what its peer has reduced.
CleanMerged ==
  \A n \in Replica :
    \/ dirty[n]
    \/ row[n] = Merged(fields[n])
    \/ \E k \in 1 .. Len(outbox[n]) :
         Newer(outbox[n][k], fields[n][outbox[n][k].field])

\* A task starts with the row of the blank values.
LEMMA InitMerged == Init => CleanMerged
<1> SUFFICES ASSUME Init, NEW n \in Replica PROVE row[n] = Merged(fields[n])
  BY DEF CleanMerged
<1>1. row[n] = FirstRow /\ fields[n] = Winning({})
  BY DEF Init
<1>2. \A field : Newest(Blank, field, {})
  BY ValueTypes DEF Newest
<1>3. \A field \in Field : Winning({})[field] = Blank
  BY <1>2, NewestIsWinning
<1>4. Winning({})["text"].after = FirstRow /\ Winning({})["@lifecycle"].after = FirstRow
  BY <1>3 DEF Field, Blank
<1>5. Merged(Winning({})) = FirstRow
  BY <1>4 DEF Merged, FirstRow
<1> QED BY <1>1, <1>5

\* A new change is newer than what its peer has reduced.
LEMMA CaptureMerged ==
  ASSUME IInv, RInv, CleanMerged, NEW n \in Replica, NEW field \in Field,
         NEW after \in Row, Capture(n, field, after)
  PROVE  CleanMerged'
<1> USE DEF IInv, RInv
<1> DEFINE f == [clock |-> clock[n] + 1, origin |-> n, field |-> field,
                 before |-> row[n], after |-> after]
           v == fields[n][field]
<1>1. f \in Fact /\ f.clock = clock[n] + 1 /\ f.field = field
  BY DEF Shape, Fact
<1>2. /\ outbox' = [outbox EXCEPT ![n] = Append(@, f)]
      /\ row' = [row EXCEPT ![n] = after]
      /\ UNCHANGED <<fields, dirty>>
  BY DEF Capture
<1> HIDE DEF f
<1>3. /\ Len(outbox'[n]) = Len(outbox[n]) + 1 /\ Len(outbox[n]) \in Nat
      /\ outbox'[n][Len(outbox[n]) + 1] = f
      /\ \A m \in Replica : m # n => outbox'[m] = outbox[m] /\ row'[m] = row[m]
  BY <1>1, <1>2 DEF Shape
<1>4. clock[n] \in Nat /\ v.clock \in Nat /\ v.clock <= clock[n]
  <2>1. Newest(v, field, Firsts(journal[n], projected[n])) /\ clock[n] \in Nat
    BY DEF FieldsNewest, Shape
  <2>2. CASE v = Blank
    BY <2>1, <2>2, ValueTypes
  <2>3. CASE v # Blank
    <3>1. PICK i \in 1 .. projected[n] : v = Stamped(journal[n][i])
      BY <2>1, <2>3 DEF Newest, Firsts
    <3>2. journal[n][i] \in Fact
      <4>1. i \in 1 .. Len(journal[n])
        BY FirstsAreFacts
      <4> QED BY <4>1, FactTypes
    <3>3. v.clock = journal[n][i].clock /\ v.clock \in Nat
      BY <3>1, <3>2, ValueTypes
    <3> QED BY <2>1, <3>3 DEF Ahead
  <2> QED BY <2>2, <2>3
<1>5. Newer(f, v)
  BY <1>1, <1>4 DEF Newer
<1> SUFFICES ASSUME NEW m \in Replica
             PROVE  \/ dirty[m]
                    \/ row'[m] = Merged(fields[m])
                    \/ \E k \in 1 .. Len(outbox'[m]) :
                         Newer(outbox'[m][k], fields[m][outbox'[m][k].field])
  BY <1>2 DEF CleanMerged
<1>6. CASE m = n
  <2>1. Len(outbox[n]) + 1 \in 1 .. Len(outbox'[n])
    BY <1>3
  <2> QED BY <1>1, <1>3, <1>5, <1>6, <2>1
<1>7. CASE m # n
  BY <1>3, <1>7 DEF CleanMerged
<1> QED BY <1>6, <1>7

\* A fact that changes no value leaves the own change newer; one that does marks
\* the row, or has it written.
LEMMA ImportMerged ==
  ASSUME IInv, RInv, CleanMerged, NEW n \in Replica, Import(n)
  PROVE  CleanMerged'
<1>a. PICK values : values = Reduced(fields[n], journal[n][projected[n] + 1])
  OBVIOUS
<1>b. PICK due \in BOOLEAN : due = (dirty[n] \/ values # fields[n])
  <2>1. (dirty[n] \/ values # fields[n]) \in BOOLEAN
    BY DEF IInv, TypeOK
  <2> QED BY <2>1
<1>c. PICK ready \in BOOLEAN : ready = Ready(n, projected[n] + 1)
  <2>1. Ready(n, projected[n] + 1) \in BOOLEAN
    BY DEF Ready
  <2> QED BY <2>1
<1>1. /\ fields' = [fields EXCEPT ![n] = values]
      /\ dirty' = [dirty EXCEPT ![n] = due /\ ~ready]
      /\ row' = [row EXCEPT ![n] = IF ready /\ due THEN Merged(values) ELSE @]
      /\ outbox' = outbox
  BY <1>a, <1>b, <1>c DEF Import
<1>2. \A m \in Replica :
        /\ fields'[m] = IF m = n THEN values ELSE fields[m]
        /\ dirty'[m] = IF m = n THEN due /\ ~ready ELSE dirty[m]
        /\ row'[m] = IF m = n /\ ready /\ due THEN Merged(values) ELSE row[m]
  BY <1>1 DEF IInv, RInv, Shape, AppliedCounts
<1> SUFFICES ASSUME NEW m \in Replica, ~dirty'[m], row'[m] # Merged(fields'[m])
             PROVE  \E k \in 1 .. Len(outbox[m]) :
                      Newer(outbox[m][k], fields'[m][outbox[m][k].field])
  BY <1>1 DEF CleanMerged
<1>d. due <=> dirty[n] \/ values # fields[n]
  BY <1>b
<1>3. ~dirty[m] /\ fields'[m] = fields[m] /\ row'[m] = row[m]
  <2>1. CASE m = n
    <3>1. ~due \/ ready
      BY <1>2, <2>1
    <3>2. ~due
      BY <1>2, <2>1, <3>1
    <3> QED BY <1>2, <1>d, <2>1, <3>2
  <2>2. CASE m # n
    BY <1>2, <2>2
  <2> QED BY <2>1, <2>2
<1> QED BY <1>3 DEF CleanMerged

\* Every step keeps it.
LEMMA NextMerged == IInv /\ RInv /\ CleanMerged /\ [Next]_vars => CleanMerged'
<1> SUFFICES ASSUME IInv, RInv, CleanMerged, [Next]_vars PROVE CleanMerged'
  OBVIOUS
<1>1. CASE \E n \in Replica : Change(n)
  <2>1. PICK n \in Replica : Change(n)
    BY <1>1
  <2>2. \E field \in Field, after \in Row : Capture(n, field, after)
    <3>1. row[n] \in Row /\ "text" \in Field /\ "@lifecycle" \in Field
      BY DEF IInv, Shape, Field
    <3>2. /\ \A text \in Text : [row[n] EXCEPT !.text = text] \in Row
          /\ [row[n] EXCEPT !.state = "closed"] \in Row
          /\ [row[n] EXCEPT !.state = "open"] \in Row
          /\ [row[n] EXCEPT !.waits = ~@] \in Row
      BY <3>1 DEF Row
    <3> QED BY <2>1, <3>1, <3>2 DEF Change, Edit, Close, Reopen, SetBlockers
  <2> QED BY <2>1, <2>2, CaptureMerged
<1>2. CASE \E n \in Replica : Import(n)
  BY <1>2, ImportMerged
<1>3. CASE \E n \in Replica : Materialize(n)
  <2>1. PICK n \in Replica : Materialize(n)
    BY <1>3
  <2>2. /\ row' = [row EXCEPT ![n] = Merged(fields[n])]
        /\ dirty' = [dirty EXCEPT ![n] = FALSE]
        /\ UNCHANGED <<outbox, fields>>
    BY <2>1 DEF Materialize
  <2>3. \A m \in Replica :
          /\ row'[m] = IF m = n THEN Merged(fields[n]) ELSE row[m]
          /\ m # n => dirty'[m] = dirty[m]
    BY <2>2 DEF IInv, RInv, Shape, AppliedCounts
  <2> QED BY <2>2, <2>3 DEF CleanMerged
<1>4. CASE UNCHANGED <<outbox, fields, dirty, row>>
  BY <1>4 DEF CleanMerged
<1>5. ASSUME NEW n \in Replica, Put(n) \/ CommitExport(n) \/ Fail(n)
      PROVE  UNCHANGED <<outbox, fields, dirty, row>>
  BY <1>5 DEF Put, CommitExport, Fail
<1>6. ASSUME NEW n \in Replica, NEW p \in Replica, Receive(n, p)
      PROVE  UNCHANGED <<outbox, fields, dirty, row>>
  BY <1>6 DEF Receive
<1>7. UNCHANGED vars => UNCHANGED <<outbox, fields, dirty, row>>
  BY DEF vars
<1> QED BY <1>1, <1>2, <1>3, <1>4, <1>5, <1>6, <1>7 DEF Next, Prepare

\* At rest no own change is newer than the values, which are the winning ones.
LEMMA RestIsMerged ==
  ASSUME IInv, RInv, CleanMerged
  PROVE  RestingRowsMerged
<1> USE DEF IInv, RInv
<1> SUFFICES ASSUME NEW n \in Replica, AtRest(n)
             PROVE  row[n] = Merged(Winning(Range(journal[n])))
  BY DEF RestingRowsMerged
<1> DEFINE S == Firsts(journal[n], Len(journal[n]))
<1>1. /\ ~dirty[n] /\ projected[n] = Len(journal[n])
      /\ exported[n] = Len(outbox[n])
  BY DEF AtRest
<1>2. Range(journal[n]) = S
  <2>1. journal[n] \in Seq(Fact)
    BY DEF Shape
  <2>2. DOMAIN journal[n] = 1 .. Len(journal[n])
    BY <2>1
  <2> QED BY <2>2 DEF Range, Firsts
<1>3. \A field \in Field : Newest(fields[n][field], field, S)
  BY <1>1 DEF FieldsNewest
<1>4. Firsts(outbox[n], Len(outbox[n])) \subseteq S
  <2>1. putting[n] = 0
    <3>1. exported[n] \in Nat /\ putting[n] \in Nat /\ Len(outbox[n]) \in Nat
      BY FactTypes DEF Shape
    <3>2. exported[n] + putting[n] <= Len(outbox[n])
      BY DEF Counted
    <3> QED BY <1>1, <3>1, <3>2
  <2> QED BY <1>1, <2>1, OwnAreMerged DEF Ready
<1>5. row[n] = Merged(fields[n])
  <2>1. ASSUME NEW k \in 1 .. Len(outbox[n])
        PROVE  ~Newer(outbox[n][k], fields[n][outbox[n][k].field])
    <3>1. outbox[n][k] \in S
      BY <1>4 DEF Firsts
    <3>2. outbox[n][k].field \in Field
      BY FactTypes, StampTypes
    <3> QED BY <1>3, <3>1, <3>2 DEF Newest
  <2> QED BY <1>1, <2>1 DEF CleanMerged
<1>6. /\ S \in SUBSET Fact
      /\ \A f \in S : 0 < f.clock
      /\ \A f, g \in S : f.clock = g.clock /\ f.origin = g.origin => f = g
  <2>1. Len(journal[n]) \in Nat
    BY FactTypes
  <2> QED BY <2>1, StampsIdentify
<1> HIDE DEF S
<1>7. \A field \in Field : Winning(S)[field] = fields[n][field]
  BY <1>3, <1>6, NewestIsWinning
<1>8. Merged(Winning(S)) = Merged(fields[n])
  <2>1. /\ Winning(S)["text"] = fields[n]["text"]
        /\ Winning(S)["@lifecycle"] = fields[n]["@lifecycle"]
    BY <1>7 DEF Field
  <2> QED BY <2>1 DEF Merged
<1> QED BY <1>2, <1>5, <1>8

\* However facts arrive and exports fail, a peer that has exported and reduced
\* everything and has no row to write shows exactly what the facts of its
\* journal make of the task: peers that come to rest with the same facts show
\* the same text, the same blockers and the same state (import, materialize).
THEOREM RestsMerged == Spec => []RestingRowsMerged
<1>1. Spec => [](IInv /\ RInv /\ CleanMerged)
  BY InitHolds, InitShows, InitMerged, NextHolds, NextShows, NextMerged, PTL DEF Spec
<1> QED BY <1>1, RestIsMerged, PTL

---------------------------------------------------------------------------
(* Types. *)

\* The bounds: no clock counts further than there are facts.
Bounded ==
  /\ IsFiniteSet(Facts) /\ Cardinality(Facts) <= MaxFacts
  /\ \A n \in Replica : clock[n] <= Cardinality(Facts)
  /\ failures \in 0 .. MaxFailures

\* The facts of all outboxes.
LEMMA FactsAre ==
  ASSUME Shape, NEW f
  PROVE  f \in Facts <=> \E n \in Replica : \E k \in 1 .. Len(outbox[n]) : f = outbox[n][k]
<1>1. \A n \in Replica : DOMAIN outbox[n] = 1 .. Len(outbox[n])
  <2>1. \A n \in Replica : outbox[n] \in Seq(Fact)
    BY DEF Shape
  <2> QED BY <2>1
<1> QED BY <1>1 DEF Facts, Range

\* A change counts one fact more, and moves one clock by one.
LEMMA CaptureBounded ==
  ASSUME IInv, Bounded, NEW n \in Replica, NEW field \in Field, NEW after \in Row,
         Capture(n, field, after)
  PROVE  Bounded'
<1> USE DEF IInv
<1> DEFINE f == [clock |-> clock[n] + 1, origin |-> n, field |-> field,
                 before |-> row[n], after |-> after]
<1>1. f \in Fact /\ f.clock = clock[n] + 1 /\ f.origin = n
  BY DEF Shape, Fact
<1>2. /\ outbox' = [outbox EXCEPT ![n] = Append(@, f)]
      /\ clock' = [clock EXCEPT ![n] = @ + 1]
      /\ failures' = failures /\ Cardinality(Facts) < MaxFacts
  BY DEF Capture
<1> HIDE DEF f
<1>3. Shape'
  BY CaptureStep
<1>4. \A m \in Replica : /\ Len(outbox[m]) \in Nat /\ clock[m] \in Nat
                          /\ \A k \in 1 .. Len(outbox[m]) : outbox[m][k].clock \in Nat
  BY FactTypes, StampTypes DEF Shape
<1>5. Facts' = Facts \cup {f}
  <2> DEFINE In(g) == \E m \in Replica : \E k \in 1 .. Len(outbox[m]) : g = outbox[m][k]
             Gets(g) == \E m \in Replica : \E k \in 1 .. Len(outbox'[m]) : g = outbox'[m][k]
  <2>1. \A g : Gets(g) <=> In(g) \/ g = f
    <3>1. /\ \A m \in Replica : Len(outbox'[m]) = IF m = n THEN Len(outbox[n]) + 1
                                                           ELSE Len(outbox[m])
          /\ \A m \in Replica : \A k \in 1 .. Len(outbox[m]) : outbox'[m][k] = outbox[m][k]
          /\ outbox'[n][Len(outbox[n]) + 1] = f
      BY <1>1, <1>2 DEF Shape
    <3>2. ASSUME NEW g, Gets(g) PROVE In(g) \/ g = f
      <4>1. PICK m \in Replica : \E k \in 1 .. Len(outbox'[m]) : g = outbox'[m][k]
        BY <3>2
      <4>2. PICK k \in 1 .. Len(outbox'[m]) : g = outbox'[m][k]
        BY <4>1
      <4>3. CASE k \in 1 .. Len(outbox[m])
        BY <3>1, <4>2, <4>3
      <4>4. CASE k \notin 1 .. Len(outbox[m])
        <5>1. m = n /\ k = Len(outbox[n]) + 1
          BY <1>4, <3>1, <4>4
        <5> QED BY <3>1, <4>2, <5>1
      <4> QED BY <4>3, <4>4
    <3>3. ASSUME NEW g, In(g) PROVE Gets(g)
      <4>1. PICK m \in Replica : \E k \in 1 .. Len(outbox[m]) : g = outbox[m][k]
        BY <3>3
      <4>2. PICK k \in 1 .. Len(outbox[m]) : g = outbox[m][k]
        BY <4>1
      <4>3. k \in 1 .. Len(outbox'[m])
        BY <1>4, <3>1
      <4> QED BY <3>1, <4>2, <4>3
    <3>4. Gets(f)
      <4>1. Len(outbox[n]) + 1 \in 1 .. Len(outbox'[n])
        BY <1>4, <3>1
      <4> QED BY <3>1, <4>1
    <3> QED BY <3>2, <3>3, <3>4
  <2>2. \A g : g \in Facts <=> In(g)
    BY FactsAre
  <2>3. \A g : g \in Facts' <=> Gets(g)
    <3>1. \A m \in Replica : DOMAIN outbox'[m] = 1 .. Len(outbox'[m])
      <4>1. \A m \in Replica : outbox'[m] \in Seq(Fact)
        BY <1>3 DEF Shape
      <4> QED BY <4>1
    <3> QED BY <3>1 DEF Facts, Range
  <2> HIDE DEF In, Gets
  <2> QED BY <2>1, <2>2, <2>3
<1>6. f \notin Facts
  <2> SUFFICES ASSUME f \in Facts PROVE FALSE
    OBVIOUS
  <2>1. PICK m \in Replica : \E k \in 1 .. Len(outbox[m]) : f = outbox[m][k]
    BY FactsAre
  <2>2. PICK k \in 1 .. Len(outbox[m]) : f = outbox[m][k]
    BY <2>1
  <2>3. m = n /\ outbox[n][k].clock <= clock[n]
    BY <1>1, <2>2 DEF Stamps
  <2> QED BY <1>1, <1>4, <2>2, <2>3
<1>7. /\ IsFiniteSet(Facts') /\ Cardinality(Facts') = Cardinality(Facts) + 1
      /\ Cardinality(Facts) \in Nat
  BY <1>5, <1>6, FS_AddElement, FS_CardinalityType DEF Bounded
<1>8. ASSUME NEW m \in Replica PROVE clock'[m] <= Cardinality(Facts')
  <2>1. clock'[m] = IF m = n THEN clock[n] + 1 ELSE clock[m]
    BY <1>2 DEF Shape
  <2>2. clock[m] <= Cardinality(Facts)
    BY DEF Bounded
  <2> QED BY <1>4, <1>7, <2>1, <2>2
<1> QED BY <1>2, <1>7, <1>8, JournalAssumption DEF Bounded

\* No other step captures a fact, and a merged one was counted by its origin.
LEMMA RestBounded ==
  ASSUME IInv, Bounded, UNCHANGED outbox, failures' \in 0 .. MaxFailures,
         clock' = clock \/ (\E n \in Replica : Import(n))
  PROVE  Bounded'
<1> USE DEF IInv
<1>1. Facts' = Facts
  BY DEF Facts
<1>2. Cardinality(Facts) \in Nat
  BY FS_CardinalityType DEF Bounded
<1>3. ASSUME NEW m \in Replica PROVE clock'[m] <= Cardinality(Facts)
  <2>1. CASE clock' = clock
    BY <2>1 DEF Bounded
  <2>2. CASE \E n \in Replica : Import(n)
    <3>1. PICK n \in Replica : Import(n)
      BY <2>2
    <3>2. projected[n] + 1 \in 1 .. Len(journal[n])
      <4>1. projected[n] \in Nat /\ Len(journal[n]) \in Nat
        BY FactTypes DEF Shape
      <4>2. projected[n] < Len(journal[n])
        BY <3>1 DEF Import
      <4> QED BY <4>1, <4>2
    <3>3. PICK f \in Fact : f = journal[n][projected[n] + 1]
      BY <3>2, FactTypes
    <3>4. clock' = [clock EXCEPT ![n] = Advanced(@, f)]
      BY <3>1, <3>3 DEF Import
    <3>5. f.clock <= clock[f.origin] /\ f.origin \in Replica
      <4>1. f.origin \in Replica
        BY StampTypes
      <4>2. PICK k \in 1 .. Len(outbox[f.origin]) : outbox[f.origin][k] = f
        BY <3>2, <3>3 DEF Captured
      <4> QED BY <4>1, <4>2 DEF Stamps
    <3>6. f.clock \in Nat /\ clock[f.origin] \in Nat /\ clock[f.origin] <= Cardinality(Facts)
      BY <3>5, StampTypes DEF Shape, Bounded
    <3>7. clock'[m] = IF m = n THEN Advanced(clock[n], f) ELSE clock[m]
      BY <3>4 DEF Shape
    <3>8. clock[m] <= Cardinality(Facts)
      BY DEF Bounded
    <3>9. m = n => clock'[m] = f.clock \/ clock'[m] = clock[m]
      BY <3>7 DEF Advanced
    <3>10. f.clock <= Cardinality(Facts)
      BY <1>2, <3>5, <3>6
    <3> QED BY <3>7, <3>8, <3>9, <3>10
  <2> QED BY <2>1, <2>2
<1> QED BY <1>1, <1>3 DEF Bounded

\* Every step respects the bounds.
LEMMA NextBounded == IInv /\ Bounded /\ [Next]_vars => Bounded'
<1> SUFFICES ASSUME IInv, Bounded, [Next]_vars PROVE Bounded'
  OBVIOUS
<1>1. failures \in 0 .. MaxFailures
  BY DEF Bounded
<1>2. CASE \E n \in Replica : Change(n)
  <2>1. PICK n \in Replica : Change(n)
    BY <1>2
  <2>2. row[n] \in Row /\ {"text", "@lifecycle"} \subseteq Field
    BY DEF IInv, Shape, Field
  <2>3. /\ \A text \in Text : [row[n] EXCEPT !.text = text] \in Row
        /\ [row[n] EXCEPT !.state = "closed"] \in Row
        /\ [row[n] EXCEPT !.state = "open"] \in Row
        /\ [row[n] EXCEPT !.waits = ~@] \in Row
    BY <2>2 DEF Row
  <2>4. \E field \in Field, after \in Row : Capture(n, field, after)
    BY <2>1, <2>2, <2>3 DEF Change, Edit, Close, Reopen, SetBlockers
  <2> QED BY <2>4, CaptureBounded
<1>3. CASE \/ \E n \in Replica : Put(n) \/ CommitExport(n) \/ Materialize(n)
           \/ \E n, p \in Replica : Receive(n, p)
           \/ UNCHANGED vars
  <2>1. UNCHANGED <<outbox, clock, failures>>
    BY <1>3 DEF Put, CommitExport, Materialize, Receive, vars
  <2> QED BY <1>1, <2>1, RestBounded
<1>4. CASE \E n \in Replica : Import(n)
  <2>1. UNCHANGED <<outbox, failures>>
    BY <1>4 DEF Import
  <2> QED BY <1>1, <1>4, <2>1, RestBounded
<1>5. CASE \E n \in Replica : Fail(n)
  <2>1. UNCHANGED <<outbox, clock>> /\ failures < MaxFailures /\ failures' = failures + 1
    BY <1>5 DEF Fail
  <2>2. failures' \in 0 .. MaxFailures
    BY <1>1, <2>1, JournalAssumption
  <2> QED BY <2>1, <2>2, RestBounded
<1> QED BY <1>2, <1>3, <1>4, <1>5 DEF Next, Prepare

\* Every variable has its type: cursors stay within their logs, and the Lamport
\* clocks of capture and import count no further than there are changes.
THEOREM TypeCorrect == Spec => []TypeOK
<1>1. Init => Bounded
  <2> SUFFICES ASSUME Init PROVE Bounded
    OBVIOUS
  <2>1. Facts = {}
    BY DEF Init, Facts, Range
  <2>2. \A n \in Replica : clock[n] = 0
    BY DEF Init
  <2> QED BY <2>1, <2>2, FS_EmptySet, JournalAssumption DEF Init, Bounded
<1>2. ASSUME IInv, RInv, Bounded PROVE TypeOK
  <2> USE <1>2 DEF IInv, Shape
  <2>1. Cardinality(Facts) \in Nat
    BY FS_CardinalityType DEF Bounded
  <2>2. clock \in [Replica -> 0 .. MaxFacts]
    <3>1. \A n \in Replica : clock[n] \in 0 .. MaxFacts
      BY <2>1, JournalAssumption DEF Bounded
    <3> QED BY <3>1
  <2>3. ASSUME NEW n \in Replica
        PROVE  /\ exported[n] + putting[n] \in 0 .. Len(outbox[n])
               /\ applied[n] \in 0 .. projected[n]
               /\ projected[n] \in 0 .. Len(journal[n])
    <3>1. exported[n] + putting[n] <= Len(outbox[n])
      BY DEF Counted
    <3>2. Len(outbox[n]) \in Nat /\ exported[n] \in Nat /\ putting[n] \in Nat
      BY FactTypes
    <3> QED BY <3>1, <3>2, FirstsAreFacts DEF RInv
  <2> QED BY <2>2, <2>3 DEF TypeOK, RInv, AppliedCounts, Bounded
<1>3. Spec => [](IInv /\ RInv /\ Bounded)
  BY <1>1, InitHolds, InitShows, NextHolds, NextShows, NextBounded, PTL DEF Spec
<1> QED BY <1>2, <1>3, PTL
=============================================================================
