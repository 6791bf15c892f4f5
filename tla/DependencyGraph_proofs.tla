----------------------- MODULE DependencyGraph_proofs -----------------------
(***************************************************************************)
(* DependencyGraph for any number of peers, tasks and facts: the Lamport   *)
(* clocks stay ahead of what was reduced, peers that reduced the same      *)
(* facts agree on every proposal, and the rows show the accepted graph     *)
(* except those that a fact changed which left its own blockers alone.     *)
(***************************************************************************)
EXTENDS DependencyFilter_proofs

\* The types, without the bounds of the model-checked instances.
Shape ==
  /\ log \in [Replica -> Seq(Fact)]
  /\ known \in [Replica -> [Replica -> Nat]]
  /\ clock \in [Replica -> Nat]
  /\ fields \in [Replica -> [Issue -> Field]]
  /\ active \in [Replica -> [Issue -> SUBSET Issue]]
  /\ closed \in [Replica -> SUBSET Issue]

\* A peer has reduced no more facts than there are.
KnownExist == \A n, r \in Replica : known[n][r] <= Len(log[r])

\* A stamp (clock, origin) identifies a fact: an author never uses a clock twice.
StampsIdentify ==
  \A r \in Replica : \A k \in 1 .. Len(log[r]) :
    /\ log[r][k].origin = r
    /\ 0 < log[r][k].clock /\ log[r][k].clock <= clock[r]
    /\ \A j \in 1 .. Len(log[r]) : j < k => log[r][j].clock < log[r][k].clock

\* A group holds the value that a fact gives it.
Value(f) == [clock |-> f.clock, origin |-> f.origin, closed |-> f.closed, blockers |-> f.after]
From(group, f) == group = Value(f)
Blank == [clock |-> 0, origin |-> 0, closed |-> FALSE, blockers |-> {}]

\* Every group is blank or was given by a reduced fact about its issue.
GroupsAreReduced ==
  \A n \in Replica, i \in Issue :
    \/ fields[n][i] = Blank
    \/ \E r \in Replica : \E k \in 1 .. known[n][r] :
         log[r][k].issue = i /\ From(fields[n][i], log[r][k])

\* No reduced fact is newer than the group it is about.
GroupsAreNewest ==
  \A n, r \in Replica : \A k \in 1 .. known[n][r] :
    ~Newer(log[r][k], fields[n][log[r][k].issue])

IInv == Shape /\ KnownExist /\ StampsIdentify /\ GroupsAreReduced /\ GroupsAreNewest /\ NextEditWins

---------------------------------------------------------------------------
\* What the types say about a single fact.
LEMMA FactTypes ==
  ASSUME Shape, NEW r \in Replica
  PROVE  /\ Len(log[r]) \in Nat
         /\ \A k \in 1 .. Len(log[r]) :
              /\ log[r][k] \in Fact
              /\ log[r][k].clock \in Nat /\ log[r][k].origin \in Replica
              /\ log[r][k].issue \in Issue /\ log[r][k].after \in SUBSET Issue
<1>1. log[r] \in Seq(Fact)
  BY DEF Shape
<1>2. Len(log[r]) \in Nat /\ \A k \in 1 .. Len(log[r]) : log[r][k] \in Fact
  BY <1>1
<1> QED BY <1>2 DEF Fact

\* What the types say about a group.
LEMMA GroupTypes == \A group \in Field : group.clock \in Nat /\ group.origin \in Nat
<1>1. \A group \in Field : group.clock \in Nat /\ group.origin \in Replica \cup {0}
  BY DEF Field
<1>2. Replica \cup {0} \subseteq Nat
  BY DependencyAssumption
<1> QED BY <1>1, <1>2

\* Reduced facts exist.
LEMMA ReducedExist ==
  ASSUME Shape, KnownExist, NEW n \in Replica, NEW r \in Replica, NEW k \in 1 .. known[n][r]
  PROVE  k \in 1 .. Len(log[r])
<1>1. known[n][r] \in Nat /\ Len(log[r]) \in Nat /\ known[n][r] <= Len(log[r])
  BY FactTypes DEF KnownExist, Shape
<1> QED BY <1>1

\* A project starts with blank groups and no facts.
LEMMA InitHolds == Init => IInv
<1> SUFFICES ASSUME Init PROVE IInv
  OBVIOUS
<1> USE DEF Init
<1>1. Shape
  BY DEF Shape, Field
<1>2. KnownExist /\ StampsIdentify
  BY DEF KnownExist, StampsIdentify
<1>3. GroupsAreReduced /\ GroupsAreNewest
  BY DEF GroupsAreReduced, GroupsAreNewest, Blank
<1>4. NextEditWins
  BY DEF NextEditWins
<1> QED BY <1>1, <1>2, <1>3, <1>4 DEF IInv

\* What a command of a user is, whichever it is: one transaction, which leaves
\* the blockers of the other tasks alone and closes no cycle.
Command(n) ==
  \/ \E e \in Proposals : SetBlockers(n, e[1], e[2]) \/ Block(n, e[1], e[2])
  \/ \E i \in Handled : Close(n, i) \/ Reopen(n, i)

Changes(n, i, blockers) ==
  /\ \A j \in Issue : j # i => blockers[j] = active[n][j]
  /\ Acyclic(Edges(active[n])) => Acyclic(Edges(blockers))

States == {"open", "blocked", "closed"}

LEMMA EditChanges ==
  ASSUME Shape, NEW n \in Replica, NEW i \in Issue, NEW blockers \in SUBSET Issue,
         Valid(n, i, blockers)
  PROVE  Changes(n, i, [active[n] EXCEPT ![i] = blockers])
<1> DEFINE new == [active[n] EXCEPT ![i] = blockers]
<1>1. \A j \in Issue : new[j] = IF j = i THEN blockers ELSE active[n][j]
  BY DEF Shape
<1> HIDE DEF new
<1>2. ASSUME Acyclic(Edges(active[n])) PROVE Acyclic(Edges(new))
  <2>1. /\ Edges(active[n]) \in SUBSET AllEdges /\ Edges(new) \in SUBSET AllEdges
        /\ \A e \in Edges(new) :
             e \in Edges(active[n]) \/ (e[1] = i /\ e[2] \in blockers)
    BY <1>1 DEF Edges, AllEdges
  <2>2. \A b \in blockers : ~Reaches(Edges(active[n]), b, i)
    BY DEF Valid
  <2> QED BY <1>2, <2>1, <2>2, EdgesOfOne
<1>3. Changes(n, i, new)
  BY <1>1, <1>2 DEF Changes
<1> QED BY <1>3 DEF new

LEMMA CommandIsTransaction ==
  ASSUME Shape, NEW n \in Replica, Command(n)
  PROVE  \E i \in Issue, state \in States, blockers \in [Issue -> SUBSET Issue],
            shut \in SUBSET Issue :
           Transaction(n, i, state, blockers, shut) /\ Changes(n, i, blockers)
<1> DEFINE Goal(i, state, blockers, shut) ==
             Transaction(n, i, state, blockers, shut) /\ Changes(n, i, blockers)
<1>1. active[n] \in [Issue -> SUBSET Issue] /\ closed[n] \in SUBSET Issue
  BY DEF Shape
<1>2. \A e \in Proposals : e[1] \in Issue /\ e[2] \in SUBSET Issue
  BY DependencyAssumption
<1>3. ASSUME NEW e \in Proposals, SetBlockers(n, e[1], e[2]) \/ Block(n, e[1], e[2])
      PROVE  \E i \in Issue, state \in States, blockers \in [Issue -> SUBSET Issue],
                shut \in SUBSET Issue : Goal(i, state, blockers, shut)
  <2>1. PICK state \in States : 
          Transaction(n, e[1], state, [active[n] EXCEPT ![e[1]] = e[2]], closed[n])
    BY <1>3 DEF SetBlockers, Block, States, State
  <2>2. Valid(n, e[1], e[2])
    BY <1>3 DEF SetBlockers, Block
  <2>3. Changes(n, e[1], [active[n] EXCEPT ![e[1]] = e[2]])
    BY <1>2, <2>2, EditChanges
  <2>4. [active[n] EXCEPT ![e[1]] = e[2]] \in [Issue -> SUBSET Issue]
    BY <1>1, <1>2
  <2>5. Goal(e[1], state, [active[n] EXCEPT ![e[1]] = e[2]], closed[n])
    BY <2>1, <2>3
  <2> HIDE DEF Goal
  <2> QED BY <1>1, <1>2, <2>4, <2>5
<1>4. ASSUME NEW i \in Handled, Close(n, i) \/ Reopen(n, i)
      PROVE  \E j \in Issue, state \in States, blockers \in [Issue -> SUBSET Issue],
                shut \in SUBSET Issue : Goal(j, state, blockers, shut)
  <2>1. PICK state \in States, shut \in SUBSET Issue : Transaction(n, i, state, active[n], shut)
    <3>1. i \in Issue
      BY DependencyAssumption
    <3> QED BY <1>1, <1>4, <3>1 DEF Close, Reopen, States
  <2>2. i \in Issue /\ Goal(i, state, active[n], shut)
    BY <2>1, DependencyAssumption DEF Changes
  <2> HIDE DEF Goal
  <2> QED BY <1>1, <2>2
<1> QED BY <1>3, <1>4 DEF Command

\* What a transaction on task i records, and what it leaves alone.
Records(n, i, blockers, shut, facts) ==
  /\ facts \in Seq(Fact) /\ Len(facts) >= 1 /\ facts[1].issue = i
  /\ \A k \in 1 .. Len(facts) : facts[k].clock = clock[n] + k /\ facts[k].origin = n
  /\ Cardinality(Facts) + Len(facts) <= MaxFacts
  /\ log' = [log EXCEPT ![n] = @ \o facts]
  /\ clock' = [clock EXCEPT ![n] = @ + Len(facts)]
  /\ active' = [active EXCEPT ![n] = blockers]
  /\ closed' = [closed EXCEPT ![n] = shut]
  /\ UNCHANGED <<known, fields, dirty, missed>>

LEMMA TransactionRecords ==
  ASSUME Shape, NEW n \in Replica, NEW i \in Issue, NEW state,
         NEW blockers \in [Issue -> SUBSET Issue], NEW shut \in SUBSET Issue,
         Transaction(n, i, state, blockers, shut)
  PROVE  \E facts : Records(n, i, blockers, shut, facts)
<1> DEFINE tasks == Reconciled(n, i, state, blockers, shut)
           c == Cardinality(tasks)
<1>1. c \in Nat /\ tasks \in SUBSET Issue
  <2>1. tasks \in SUBSET Issue
    BY DEF Reconciled
  <2> HIDE DEF tasks
  <2> QED BY <2>1, DependencyAssumption, FS_Subset, FS_CardinalityType
<1> HIDE DEF tasks
<1>2. PICK order \in [1 .. c -> tasks] :
        LET facts == Captured(n, <<i>> \o order, blockers, shut)
        IN /\ Cardinality(Facts) + Len(facts) <= MaxFacts
           /\ log' = [log EXCEPT ![n] = @ \o facts]
           /\ clock' = [clock EXCEPT ![n] = @ + Len(facts)]
           /\ active' = [active EXCEPT ![n] = blockers]
           /\ closed' = [closed EXCEPT ![n] = shut]
           /\ UNCHANGED <<known, fields, dirty, missed>>
  BY DEF Transaction, tasks
<1> HIDE DEF c
<1> DEFINE rows == <<i>> \o order
           facts == Captured(n, rows, blockers, shut)
<1>3. rows \in Seq(Issue) /\ Len(rows) = c + 1 /\ rows[1] = i
  <2>1. order \in Seq(Issue) /\ Len(order) = c
    BY <1>1
  <2> QED BY <1>1, <2>1
<1>4. DOMAIN rows = 1 .. c + 1 /\ \A k \in 1 .. c + 1 : rows[k] \in Issue
  BY <1>1, <1>3
<1> HIDE DEF rows
<1>5. \A k \in 1 .. c + 1 :
        /\ facts[k].issue = rows[k] /\ facts[k].clock = clock[n] + k /\ facts[k].origin = n
        /\ facts[k] \in Fact
  <2> SUFFICES ASSUME NEW k \in 1 .. c + 1
               PROVE  /\ facts[k].issue = rows[k] /\ facts[k].clock = clock[n] + k
                      /\ facts[k].origin = n /\ facts[k] \in Fact
    OBVIOUS
  <2>1. facts[k] = [issue |-> rows[k], clock |-> clock[n] + k, origin |-> n,
                    closed |-> rows[k] \in shut,
                    before |-> IF k = 1 THEN active[n][rows[1]] ELSE blockers[rows[k]],
                    after |-> blockers[rows[k]], reduced |-> known[n]]
    BY <1>4 DEF Captured
  <2>2. /\ clock[n] + k \in Nat /\ blockers[rows[k]] \in SUBSET Issue
        /\ active[n][rows[1]] \in SUBSET Issue /\ rows[k] \in Issue
        /\ known[n] \in [Replica -> Nat]
    BY <1>1, <1>3, <1>4 DEF Shape
  <2>3. facts[k].issue = rows[k] /\ facts[k].clock = clock[n] + k /\ facts[k].origin = n
    BY <2>1
  <2>4. (IF k = 1 THEN active[n][rows[1]] ELSE blockers[rows[k]]) \in SUBSET Issue
    BY <2>2
  <2>5. facts[k] \in Fact
    BY <2>1, <2>2, <2>4 DEF Fact
  <2> QED BY <2>3, <2>5
<1>6. facts \in Seq(Fact) /\ Len(facts) = c + 1
  <2>1. DOMAIN facts = 1 .. c + 1 /\ facts = [k \in 1 .. c + 1 |-> facts[k]]
    BY <1>4 DEF Captured
  <2> HIDE DEF facts
  <2>2. facts \in [1 .. c + 1 -> Fact]
    BY <1>5, <2>1
  <2> QED BY <1>1, <2>2
<1>7. 1 \in 1 .. c + 1 /\ c + 1 >= 1
  BY <1>1
<1>8. facts[1].issue = i
  BY <1>3, <1>5, <1>7
<1>9. /\ Cardinality(Facts) + Len(facts) <= MaxFacts
      /\ log' = [log EXCEPT ![n] = @ \o facts]
      /\ clock' = [clock EXCEPT ![n] = @ + Len(facts)]
      /\ active' = [active EXCEPT ![n] = blockers]
      /\ closed' = [closed EXCEPT ![n] = shut]
      /\ UNCHANGED <<known, fields, dirty, missed>>
  BY <1>2 DEF rows
<1> HIDE DEF facts
<1>10. Records(n, i, blockers, shut, facts)
  BY <1>5, <1>6, <1>7, <1>8, <1>9 DEF Records
<1> QED BY <1>10

\* A command records facts about the task it changes.
LEMMA CommandRecords ==
  ASSUME Shape, NEW n \in Replica, Command(n)
  PROVE  \E i \in Issue, blockers \in [Issue -> SUBSET Issue], shut \in SUBSET Issue :
           \E facts : Records(n, i, blockers, shut, facts) /\ Changes(n, i, blockers)
<1>1. PICK i \in Issue, state \in States, blockers \in [Issue -> SUBSET Issue],
           shut \in SUBSET Issue :
        Transaction(n, i, state, blockers, shut) /\ Changes(n, i, blockers)
  BY CommandIsTransaction
<1>2. PICK facts : Records(n, i, blockers, shut, facts)
  BY <1>1, TransactionRecords
<1> QED BY <1>1, <1>2

\* The log after a transaction: the old facts in their places, then the new ones.
LEMMA LogGrows ==
  ASSUME Shape, NEW n \in Replica, NEW i, NEW blockers, NEW shut, NEW facts,
         Records(n, i, blockers, shut, facts)
  PROVE  /\ log' \in [Replica -> Seq(Fact)]
         /\ Len(facts) \in Nat \ {0} /\ Len(log[n]) \in Nat
         /\ \A r \in Replica : Len(log'[r]) = IF r = n THEN Len(log[n]) + Len(facts) ELSE Len(log[r])
         /\ \A r \in Replica : \A k \in 1 .. Len(log[r]) : log'[r][k] = log[r][k]
         /\ \A k \in 1 .. Len(facts) : log'[n][Len(log[n]) + k] = facts[k]
         /\ \A r \in Replica : \A k \in 1 .. Len(log'[r]) :
              k \notin 1 .. Len(log[r]) =>
                /\ r = n /\ k - Len(log[n]) \in 1 .. Len(facts)
                /\ log'[r][k] = facts[k - Len(log[n])]
<1>1. /\ facts \in Seq(Fact) /\ Len(facts) >= 1
      /\ log' = [log EXCEPT ![n] = @ \o facts]
  BY DEF Records
<1>2. \A r \in Replica : log[r] \in Seq(Fact) /\ Len(log[r]) \in Nat
  BY DEF Shape
<1>3. Len(facts) \in Nat \ {0}
  BY <1>1
<1>4. \A r \in Replica : log'[r] = IF r = n THEN log[n] \o facts ELSE log[r]
  BY <1>1 DEF Shape
<1>5. /\ log[n] \o facts \in Seq(Fact)
      /\ Len(log[n] \o facts) = Len(log[n]) + Len(facts)
      /\ \A k \in 1 .. Len(log[n]) : (log[n] \o facts)[k] = log[n][k]
      /\ \A k \in 1 .. Len(facts) : (log[n] \o facts)[Len(log[n]) + k] = facts[k]
  BY <1>1, <1>2
<1>6. log' \in [Replica -> Seq(Fact)]
  BY <1>1, <1>2, <1>5 DEF Shape
<1>7. \A r \in Replica : Len(log'[r]) = IF r = n THEN Len(log[n]) + Len(facts) ELSE Len(log[r])
  BY <1>4, <1>5
<1>8. \A r \in Replica : \A k \in 1 .. Len(log[r]) : log'[r][k] = log[r][k]
  BY <1>4, <1>5
<1>9. \A k \in 1 .. Len(facts) : log'[n][Len(log[n]) + k] = facts[k]
  BY <1>4, <1>5
<1>10. ASSUME NEW r \in Replica, NEW k \in 1 .. Len(log'[r]), k \notin 1 .. Len(log[r])
       PROVE  /\ r = n /\ k - Len(log[n]) \in 1 .. Len(facts)
              /\ log'[r][k] = facts[k - Len(log[n])]
  <2>1. r = n
    BY <1>7, <1>10
  <2>2. k \in 1 .. Len(log[n]) + Len(facts) /\ k \notin 1 .. Len(log[n])
    BY <1>7, <1>10, <2>1
  <2>3. k - Len(log[n]) \in 1 .. Len(facts) /\ k = Len(log[n]) + (k - Len(log[n]))
    BY <1>2, <1>3, <2>2
  <2> QED BY <1>9, <2>1, <2>3
<1> QED BY <1>2, <1>3, <1>6, <1>7, <1>8, <1>9, <1>10

\* What a command preserves, whatever it is.
LEMMA CommandStep == ASSUME IInv, NEW n \in Replica, Command(n) PROVE IInv'
<1> USE DEF IInv
<1>1. PICK i \in Issue, blockers \in [Issue -> SUBSET Issue], shut \in SUBSET Issue :
        \E facts : Records(n, i, blockers, shut, facts)
  BY CommandRecords
<1>2. PICK facts : Records(n, i, blockers, shut, facts)
  BY <1>1
<1>3. /\ \A k \in 1 .. Len(facts) : facts[k].clock = clock[n] + k /\ facts[k].origin = n
      /\ clock' = [clock EXCEPT ![n] = @ + Len(facts)]
      /\ active' = [active EXCEPT ![n] = blockers] /\ closed' = [closed EXCEPT ![n] = shut]
      /\ UNCHANGED <<known, fields>>
  BY <1>2 DEF Records
<1>4. /\ log' \in [Replica -> Seq(Fact)]
      /\ Len(facts) \in Nat \ {0} /\ Len(log[n]) \in Nat
      /\ \A r \in Replica : Len(log'[r]) = IF r = n THEN Len(log[n]) + Len(facts) ELSE Len(log[r])
      /\ \A r \in Replica : \A k \in 1 .. Len(log[r]) : log'[r][k] = log[r][k]
      /\ \A r \in Replica : \A k \in 1 .. Len(log'[r]) :
           k \notin 1 .. Len(log[r]) =>
             /\ r = n /\ k - Len(log[n]) \in 1 .. Len(facts)
             /\ log'[r][k] = facts[k - Len(log[n])]
  BY <1>2, LogGrows
<1>5. /\ \A r \in Replica : clock[r] \in Nat /\ clock'[r] \in Nat /\ clock[r] <= clock'[r]
      /\ clock'[n] = clock[n] + Len(facts)
  BY <1>3, <1>4 DEF Shape
<1>6. Shape'
  BY <1>3, <1>4, <1>5 DEF Shape
<1>7. KnownExist'
  <2> SUFFICES ASSUME NEW m \in Replica, NEW r \in Replica
               PROVE  known[m][r] <= Len(log'[r])
    BY <1>3 DEF KnownExist
  <2>1. Len(log[r]) \in Nat /\ known[m][r] \in Nat /\ known[m][r] <= Len(log[r])
    BY FactTypes DEF KnownExist, Shape
  <2> QED BY <1>4, <2>1
<1>8. StampsIdentify'
  <2> SUFFICES ASSUME NEW r \in Replica, NEW k \in 1 .. Len(log'[r])
               PROVE  /\ log'[r][k].origin = r
                      /\ 0 < log'[r][k].clock /\ log'[r][k].clock <= clock'[r]
                      /\ \A j \in 1 .. Len(log'[r]) : j < k => log'[r][j].clock < log'[r][k].clock
    BY DEF StampsIdentify
  <2>1. /\ Len(log[r]) \in Nat
        /\ \A j \in 1 .. Len(log[r]) : log[r][j].clock \in Nat /\ log[r][j].clock <= clock[r]
    BY FactTypes DEF StampsIdentify
  <2>2. CASE k \in 1 .. Len(log[r])
    <3>1. log'[r][k] = log[r][k]
      BY <1>4, <2>2
    <3>2. /\ log[r][k].origin = r /\ 0 < log[r][k].clock /\ log[r][k].clock <= clock[r]
          /\ \A j \in 1 .. Len(log[r]) : j < k => log[r][j].clock < log[r][k].clock
      BY <2>2 DEF StampsIdentify
    <3>3. log[r][k].clock \in Nat
      BY <2>1, <2>2
    <3>4. ASSUME NEW j \in 1 .. Len(log'[r]), j < k
          PROVE  j \in 1 .. Len(log[r]) /\ log'[r][j] = log[r][j]
      BY <1>4, <2>1, <2>2, <3>4
    <3> QED BY <1>5, <3>1, <3>2, <3>3, <3>4
  <2>3. CASE k \notin 1 .. Len(log[r])
    <3> DEFINE x == k - Len(log[n])
    <3>1. r = n /\ x \in 1 .. Len(facts) /\ log'[r][k] = facts[x]
      BY <1>4, <2>3
    <3>2. facts[x].clock = clock[n] + x /\ facts[x].origin = n
      BY <1>3, <3>1
    <3>3. ASSUME NEW j \in 1 .. Len(log'[n]), j < k PROVE log'[n][j].clock < clock[n] + x
      <4>1. CASE j \in 1 .. Len(log[n])
        <5>1. log'[n][j] = log[n][j] /\ log[n][j].clock \in Nat /\ log[n][j].clock <= clock[n]
          BY <1>4, <2>1, <3>1, <4>1
        <5>2. clock[n] \in Nat /\ x \in Nat \ {0}
          BY <1>4, <1>5, <3>1
        <5> HIDE DEF x, IInv
        <5> QED BY <5>1, <5>2
      <4>2. CASE j \notin 1 .. Len(log[n])
        <5>1. j - Len(log[n]) \in 1 .. Len(facts) /\ log'[n][j] = facts[j - Len(log[n])]
          BY <1>4, <4>2
        <5>2. log'[n][j].clock = clock[n] + (j - Len(log[n]))
          BY <1>3, <5>1
        <5> QED BY <1>4, <1>5, <3>3, <5>1, <5>2
      <4> QED BY <4>1, <4>2
    <3>4. 0 < clock[n] + x /\ clock[n] + x <= clock'[n]
      BY <1>4, <1>5, <3>1
    <3> QED BY <3>1, <3>2, <3>3, <3>4
  <2> QED BY <2>2, <2>3
<1>9. \A m, r \in Replica : \A k \in 1 .. known[m][r] : log'[r][k] = log[r][k]
  BY <1>4, ReducedExist
<1>10. GroupsAreReduced'
  <2>1. ASSUME NEW m \in Replica, NEW j \in Issue
        PROVE  \/ fields[m][j] = Blank
               \/ \E r \in Replica : \E k \in 1 .. known[m][r] :
                    log'[r][k].issue = j /\ From(fields[m][j], log'[r][k])
    <3>1. CASE fields[m][j] = Blank
      BY <3>1
    <3>2. CASE \E r \in Replica : \E k \in 1 .. known[m][r] :
                 log[r][k].issue = j /\ From(fields[m][j], log[r][k])
      BY <1>9, <3>2
    <3> QED BY <3>1, <3>2 DEF GroupsAreReduced
  <2> QED BY <1>3, <2>1 DEF GroupsAreReduced, From, Value, Blank
<1>11. GroupsAreNewest'
  BY <1>3, <1>9 DEF GroupsAreNewest, Newer
<1>12. NextEditWins'
  <2> SUFFICES ASSUME NEW m \in Replica, NEW j \in Issue
               PROVE  fields[m][j].clock <= clock'[m]
    BY <1>3 DEF NextEditWins
  <2>1. fields[m][j].clock \in Nat /\ fields[m][j].clock <= clock[m]
    BY DEF NextEditWins, Shape, Field
  <2> QED BY <1>5, <2>1
<1> QED BY <1>6, <1>7, <1>8, <1>10, <1>11, <1>12

\* Writing rows keeps their type: the accepted blockers are issues.
LEMMA WrittenType ==
  ASSUME NEW rows \in [Issue -> SUBSET Issue], NEW group, NEW due
  PROVE  Written(rows, group, due) \in [Issue -> SUBSET Issue]
<1>1. Accepted(group) \in [Issue -> SUBSET Issue]
  BY DEF Accepted
<1> QED BY <1>1 DEF Written

LEMMA ShutType ==
  ASSUME NEW rows, NEW group, NEW due
  PROVE  Shut(rows, group, due) \in SUBSET Issue
BY DEF Shut

\* Writing rows preserves the invariant: it reads the groups only.
LEMMA MaterializeStep ==
  ASSUME IInv, NEW n \in Replica, Materialize(n)
  PROVE  IInv'
<1>1. active' \in [Replica -> [Issue -> SUBSET Issue]]
  <2>1. Written(active[n], fields[n], dirty[n]) \in [Issue -> SUBSET Issue]
    BY WrittenType DEF IInv, Shape
  <2> QED BY <2>1 DEF Materialize, IInv, Shape
<1>2. closed' \in [Replica -> SUBSET Issue]
  BY ShutType DEF Materialize, IInv, Shape
<1>3. UNCHANGED <<log, known, clock, fields>>
  BY DEF Materialize
<1> QED BY <1>1, <1>2, <1>3 DEF IInv, Shape, KnownExist, StampsIdentify, GroupsAreReduced,
             GroupsAreNewest, Newer, NextEditWins

---------------------------------------------------------------------------
\* The group that reducing f leaves: never older, never older than f.
LEMMA ReducedGroup ==
  ASSUME NEW f, f.clock \in Nat, f.origin \in Nat, NEW group, group.clock \in Nat,
         group.origin \in Nat, NEW g,
         g = IF Newer(f, group) THEN Value(f) ELSE group
  PROVE  /\ ~Newer(f, g)
         /\ \A h : h.clock \in Nat /\ h.origin \in Nat /\ ~Newer(h, group) => ~Newer(h, g)
BY DEF Newer, Value

\* What reducing the next fact does, in terms of that fact.
Reduces(n, r, f, wins, group, due, ready) ==
  /\ f = log[r][known[n][r] + 1]
  /\ wins = Newer(f, fields[n][f.issue])
  /\ group = IF wins THEN [fields[n] EXCEPT ![f.issue] = Value(f)] ELSE fields[n]
  /\ dirty[n] \subseteq due /\ (wins => Touched(f, group) \subseteq due)
  /\ ready => [known[n] EXCEPT ![r] = @ + 1][n] = Len(log[n])
  /\ known' = [known EXCEPT ![n] = [known[n] EXCEPT ![r] = @ + 1]]
  /\ clock' = [clock EXCEPT ![n] = Advanced(@, f)]
  /\ fields' = [fields EXCEPT ![n] = group]
  /\ dirty' = [dirty EXCEPT ![n] = IF ready THEN {} ELSE due]
  /\ active' = [active EXCEPT ![n] = IF ready THEN Written(@, group, due) ELSE @]
  /\ closed' = [closed EXCEPT ![n] = IF ready THEN Shut(@, group, due) ELSE @]
  /\ missed' = [missed EXCEPT ![n] =
       (IF ready THEN @ \ due ELSE @) \cup (Lost(f, fields[n], group) \ due)]
  /\ UNCHANGED log

\* The next fact exists.
LEMMA NextFact ==
  ASSUME Shape, NEW n \in Replica, NEW r \in Replica, NEW last \in BOOLEAN, Import(n, r, last)
  PROVE  known[n][r] \in Nat /\ known[n][r] + 1 \in 1 .. Len(log[r])
<1>1. known[n][r] \in Nat /\ Len(log[r]) \in Nat
  BY FactTypes DEF Shape
<1>2. known[n][r] < Len(log[r])
  BY DEF Import
<1> QED BY <1>1, <1>2

LEMMA ImportReduces ==
  ASSUME Shape, dirty \in [Replica -> SUBSET Issue],
         NEW n \in Replica, NEW r \in Replica, NEW last \in BOOLEAN, Import(n, r, last)
  PROVE  \E f \in Fact, wins, ready \in BOOLEAN, group \in [Issue -> Field], due \in SUBSET Issue :
           Reduces(n, r, f, wins, group, due, ready)
<1> DEFINE f == log[r][known[n][r] + 1]
           wins == Newer(f, fields[n][f.issue])
           group == IF ~wins THEN fields[n]
                    ELSE [fields[n] EXCEPT ![f.issue] =
                            [clock |-> f.clock, origin |-> f.origin, closed |-> f.closed,
                             blockers |-> f.after]]
           ready == last /\ [known[n] EXCEPT ![r] = @ + 1][n] = Len(log[n])
           due(marks) == dirty[n] \cup marks \cup IF wins THEN Touched(f, group) ELSE {}
<1>1. f \in Fact /\ f.issue \in Issue
  BY NextFact, FactTypes
<1>2. PICK marks \in {{}, {f.issue}, Touched(f, group)} :
        /\ dirty' = [dirty EXCEPT ![n] = IF ready THEN {} ELSE due(marks)]
        /\ active' = [active EXCEPT ![n] = IF ready THEN Written(@, group, due(marks)) ELSE @]
        /\ closed' = [closed EXCEPT ![n] = IF ready THEN Shut(@, group, due(marks)) ELSE @]
        /\ missed' = [missed EXCEPT ![n] = (IF ready THEN @ \ due(marks) ELSE @)
                         \cup (Lost(f, fields[n], group) \ due(marks))]
  BY DEF Import
<1>3. /\ known' = [known EXCEPT ![n] = [known[n] EXCEPT ![r] = @ + 1]]
      /\ clock' = [clock EXCEPT ![n] = Advanced(@, f)]
      /\ fields' = [fields EXCEPT ![n] = group]
      /\ UNCHANGED log
  BY DEF Import
<1>4. wins \in BOOLEAN /\ ready \in BOOLEAN
  BY DEF Newer
<1>5. group = IF wins THEN [fields[n] EXCEPT ![f.issue] = Value(f)] ELSE fields[n]
  BY DEF Value
<1>6. ready => [known[n] EXCEPT ![r] = @ + 1][n] = Len(log[n])
  OBVIOUS
<1>10. group \in [Issue -> Field]
  <2>1. Value(f) \in Field
    BY <1>1 DEF Value, Fact, Field
  <2>2. fields[n] \in [Issue -> Field]
    BY DEF Shape
  <2> HIDE DEF f, wins, group
  <2> QED BY <1>5, <2>1, <2>2
<1> HIDE DEF f, wins, group, ready
<1>7. Touched(f, group) \in SUBSET Issue
  BY <1>1 DEF Touched
<1>8. /\ dirty[n] \subseteq due(marks) /\ (wins => Touched(f, group) \subseteq due(marks))
      /\ due(marks) \in SUBSET Issue
  BY <1>1, <1>2, <1>7
<1> HIDE DEF due
<1>9. Reduces(n, r, f, wins, group, due(marks), ready)
  BY <1>2, <1>3, <1>5, <1>6, <1>8 DEF Reduces, f, wins
<1> QED BY <1>1, <1>4, <1>8, <1>9, <1>10

\* Reducing the next fact of a journal preserves the invariant.
LEMMA ImportStep ==
  ASSUME IInv, dirty \in [Replica -> SUBSET Issue],
         NEW n \in Replica, NEW r \in Replica, NEW last \in BOOLEAN, Import(n, r, last)
  PROVE  IInv'
<1> USE DEF IInv
<1>0. PICK f \in Fact, wins, ready \in BOOLEAN, group \in [Issue -> Field], due \in SUBSET Issue :
        Reduces(n, r, f, wins, group, due, ready)
  BY ImportReduces
<1>1. /\ known' = [known EXCEPT ![n] = [known[n] EXCEPT ![r] = @ + 1]]
      /\ clock' = [clock EXCEPT ![n] = Advanced(@, f)]
      /\ fields' = [fields EXCEPT ![n] = group]
      /\ log' = log
  BY <1>0 DEF Reduces
<1>17. f = log[r][known[n][r] + 1]
  BY <1>0, Zenon DEF Reduces
<1>18. wins <=> Newer(f, fields[n][f.issue])
  BY <1>0, Zenon DEF Reduces
<1>19. \A i \in Issue : group[i] = IF i = f.issue /\ wins THEN Value(f) ELSE fields[n][i]
  <2>1. group = IF wins THEN [fields[n] EXCEPT ![f.issue] = Value(f)] ELSE fields[n]
    BY <1>0, Zenon DEF Reduces
  <2>2. fields[n] \in [Issue -> Field]
    BY DEF Shape
  <2> HIDE DEF IInv
  <2> QED BY <2>1, <2>2
<1>2. \/ active' = [active EXCEPT ![n] = Written(@, group, due)]
      \/ active' = active
  BY <1>0 DEF Reduces, Shape
<1>3. known[n][r] + 1 \in 1 .. Len(log[r])
  BY NextFact
<1>4. /\ f \in Fact /\ f.clock \in Nat /\ f.origin \in Replica
      /\ f.issue \in Issue /\ f.after \in SUBSET Issue /\ f.closed \in BOOLEAN
  BY DEF Fact
<1>5. /\ active' \in [Replica -> [Issue -> SUBSET Issue]]
      /\ closed' \in [Replica -> SUBSET Issue]
  <2>1. Written(active[n], group, due) \in [Issue -> SUBSET Issue]
    BY WrittenType DEF Shape
  <2>2. active \in [Replica -> [Issue -> SUBSET Issue]]
    BY DEF Shape
  <2>3. closed' = [closed EXCEPT ![n] = IF ready THEN Shut(@, group, due) ELSE @]
    BY <1>0 DEF Reduces
  <2>4. closed' \in [Replica -> SUBSET Issue]
    BY <2>3, ShutType DEF Shape
  <2> HIDE DEF IInv
  <2> QED BY <1>2, <2>1, <2>2, <2>4
<1>6. \A m \in Replica, i \in Issue :
        fields'[m][i] = IF m = n /\ i = f.issue /\ wins
                        THEN Value(f) ELSE fields[m][i]
  BY <1>1, <1>4, <1>19 DEF Shape
<1>7. \A m, s \in Replica : known'[m][s] = IF m = n /\ s = r THEN known[n][r] + 1 ELSE known[m][s]
  BY <1>1 DEF Shape
<1>8. Advanced(clock[n], f) \in Nat /\ clock[n] <= Advanced(clock[n], f)
      /\ f.clock <= Advanced(clock[n], f)
  BY <1>4 DEF Advanced, Shape
<1>9. Shape'
  <2>1. fields' \in [Replica -> [Issue -> Field]]
    <3>1. fields \in [Replica -> [Issue -> Field]] /\ group \in [Issue -> Field]
      BY DEF Shape
    <3> HIDE DEF IInv
    <3> QED BY <1>1, <3>1
  <2>2. known' \in [Replica -> [Replica -> Nat]]
    <3>1. known \in [Replica -> [Replica -> Nat]]
      BY DEF Shape
    <3> HIDE DEF IInv
    <3>2. [known[n] EXCEPT ![r] = @ + 1] \in [Replica -> Nat]
      BY <3>1
    <3> QED BY <1>1, <3>1, <3>2
  <2>3. clock' \in [Replica -> Nat]
    <3>1. clock \in [Replica -> Nat]
      BY DEF Shape
    <3> HIDE DEF IInv
    <3> QED BY <1>1, <1>8, <3>1
  <2>4. log' \in [Replica -> Seq(Fact)]
    BY <1>1 DEF Shape
  <2> QED BY <1>5, <2>1, <2>2, <2>3, <2>4 DEF Shape
<1>10. KnownExist'
  <2> SUFFICES ASSUME NEW m \in Replica, NEW s \in Replica
               PROVE  known'[m][s] <= Len(log[s])
    BY <1>1 DEF KnownExist
  <2>1. known[m][s] <= Len(log[s]) /\ Len(log[s]) \in Nat
    BY FactTypes DEF KnownExist
  <2> HIDE DEF IInv
  <2> QED BY <1>3, <1>7, <2>1
<1>11. \A m \in Replica : clock[m] \in Nat /\ clock'[m] \in Nat /\ clock[m] <= clock'[m]
  BY <1>1, <1>8 DEF Shape
<1>12. StampsIdentify'
  <2> SUFFICES ASSUME NEW s \in Replica, NEW k \in 1 .. Len(log[s])
               PROVE  log[s][k].clock <= clock'[s]
    BY <1>1 DEF StampsIdentify
  <2>1. log[s][k].clock \in Nat /\ log[s][k].clock <= clock[s]
    BY FactTypes DEF StampsIdentify
  <2> QED BY <1>11, <2>1
<1>13. \A m, s \in Replica : known[m][s] \in Nat /\ 1 .. known[m][s] \subseteq 1 .. known'[m][s]
  <2> SUFFICES ASSUME NEW m \in Replica, NEW s \in Replica
               PROVE  known[m][s] \in Nat /\ 1 .. known[m][s] \subseteq 1 .. known'[m][s]
    OBVIOUS
  <2>1. known[m][s] \in Nat
    BY DEF Shape
  <2>2. known'[m][s] \in Nat
    BY <1>9 DEF Shape
  <2>3. known'[m][s] = known[m][s] \/ known'[m][s] = known[m][s] + 1
    BY <1>7
  <2> QED BY <2>1, <2>2, <2>3
<1>14. GroupsAreReduced'
  <2> SUFFICES ASSUME NEW m \in Replica, NEW i \in Issue, fields'[m][i] # Blank
               PROVE  \E s \in Replica : \E k \in 1 .. known'[m][s] :
                        log[s][k].issue = i /\ From(fields'[m][i], log[s][k])
    BY <1>1 DEF GroupsAreReduced, From, Value, Blank
  <2>1. CASE m = n /\ i = f.issue /\ wins
    <3>1. known[n][r] + 1 \in 1 .. known'[n][r]
      BY <1>3, <1>7, <1>13
    <3> QED BY <1>6, <1>17, <2>1, <3>1 DEF From
  <2>2. CASE ~(m = n /\ i = f.issue /\ wins)
    <3>1. fields'[m][i] = fields[m][i]
      BY <1>6, <2>2
    <3>2. PICK s \in Replica : \E k \in 1 .. known[m][s] :
            log[s][k].issue = i /\ From(fields[m][i], log[s][k])
      BY <3>1 DEF GroupsAreReduced
    <3> HIDE DEF IInv
    <3> QED BY <1>13, <3>1, <3>2
  <2> QED BY <2>1, <2>2
<1>15. GroupsAreNewest'
  <2> SUFFICES ASSUME NEW m \in Replica, NEW s \in Replica, NEW k \in 1 .. known'[m][s]
               PROVE  ~Newer(log'[s][k], fields'[m][log'[s][k].issue])
    BY ZenonT(30) DEF GroupsAreNewest, Newer
  <2> DEFINE h == log[s][k]
             old == fields[m][h.issue]
             new == fields'[m][h.issue]
  <2> SUFFICES ~Newer(h, new)
    BY <1>1
  <2>0. k \in 1 .. known[m][s] \/ (m = n /\ h = f)
    <3>1. known[m][s] \in Nat
      BY <1>13
    <3> HIDE DEF IInv
    <3>2. CASE m = n /\ s = r
      <4>1. known'[m][s] = known[m][s] + 1
        BY <1>7, <3>2
      <4>2. k \in 1 .. known[m][s] \/ k = known[n][r] + 1
        BY <3>1, <3>2, <4>1
      <4> QED BY <1>17, <3>2, <4>2
    <3>3. CASE ~(m = n /\ s = r)
      BY <1>7, <3>3
    <3> QED BY <3>2, <3>3
  <2>1. k \in 1 .. Len(log[s])
    BY <1>1, <1>3, <1>7, ReducedExist
  <2>2. h.clock \in Nat /\ h.origin \in Nat /\ h.issue \in Issue /\ f.origin \in Nat
    <3>1. h.clock \in Nat /\ h.origin \in Replica /\ h.issue \in Issue
      BY <2>1, FactTypes
    <3> QED BY <1>4, <3>1, DependencyAssumption
  <2>3. old.clock \in Nat /\ old.origin \in Nat
    <3>1. old \in Field
      <4>1. fields \in [Replica -> [Issue -> Field]]
        BY DEF Shape
      <4> HIDE DEF IInv
      <4> QED BY <2>2, <4>1
    <3> QED BY <3>1, GroupTypes
  <2>4. CASE m = n /\ h.issue = f.issue
    <3>1. new = IF Newer(f, old) THEN Value(f) ELSE old
      <4>1. new = IF wins THEN Value(f) ELSE old
        BY <1>6, <2>2, <2>4
      <4>2. old = fields[n][f.issue]
        BY <2>4
      <4> HIDE DEF new, old
      <4> QED BY <1>18, <4>1, <4>2, Zenon
    <3>2. ~Newer(f, new) /\ (~Newer(h, old) => ~Newer(h, new))
      BY <1>4, <2>2, <2>3, <3>1, ReducedGroup
    <3>3. h = f \/ k \in 1 .. known[m][s]
      BY <2>0, <2>4
    <3> QED BY <3>2, <3>3 DEF GroupsAreNewest
  <2>5. CASE ~(m = n /\ h.issue = f.issue)
    <3>1. new = old
      BY <1>6, <2>2, <2>5
    <3>2. k \in 1 .. known[m][s]
      BY <2>0, <2>5
    <3> QED BY <3>1, <3>2 DEF GroupsAreNewest
  <2> QED BY <2>4, <2>5
<1>16. NextEditWins'
  <2> SUFFICES ASSUME NEW m \in Replica, NEW i \in Issue
               PROVE  fields'[m][i].clock <= clock'[m]
    BY DEF NextEditWins
  <2>1. fields[m][i].clock \in Nat /\ fields[m][i].clock <= clock[m]
    BY DEF NextEditWins, Shape, Field
  <2>2. m = n => f.clock <= clock'[m]
    BY <1>1, <1>8 DEF Shape
  <2> QED BY <1>4, <1>6, <1>11, <2>1, <2>2 DEF Value
<1> QED BY <1>9, <1>10, <1>12, <1>14, <1>15, <1>16

\* The next-state relation, by who acts.
LEMMA NextIs ==
  ASSUME Next
  PROVE  \/ \E n \in Replica : Command(n)
         \/ \E n, r \in Replica, last \in BOOLEAN : Import(n, r, last)
         \/ \E n \in Replica : Materialize(n)
BY DEF Next, Command

DirtyOK == dirty \in [Replica -> SUBSET Issue]

\* Rows are only ever marked for tasks of the project.
LEMMA DirtyHolds == IInv /\ DirtyOK /\ [Next]_vars => DirtyOK'
<1> SUFFICES ASSUME IInv, DirtyOK, [Next]_vars PROVE DirtyOK'
  OBVIOUS
<1> USE DEF DirtyOK
<1>1. ASSUME NEW n \in Replica, Command(n) PROVE DirtyOK'
  BY <1>1, CommandRecords DEF Records, IInv
<1>2. ASSUME NEW n \in Replica, NEW r \in Replica, NEW last \in BOOLEAN, Import(n, r, last)
      PROVE  DirtyOK'
  <2>1. PICK f \in Fact, wins, ready \in BOOLEAN, group \in [Issue -> Field], due \in SUBSET Issue :
          Reduces(n, r, f, wins, group, due, ready)
    BY <1>2, ImportReduces DEF IInv
  <2> QED BY <2>1 DEF Reduces
<1>3. ASSUME NEW n \in Replica, Materialize(n) PROVE DirtyOK'
  BY <1>3 DEF Materialize
<1>4. CASE UNCHANGED vars
  BY <1>4 DEF vars
<1> QED BY <1>1, <1>2, <1>3, <1>4, NextIs

\* Every step preserves the invariant.
LEMMA NextHolds == IInv /\ DirtyOK /\ [Next]_vars => IInv'
<1> SUFFICES ASSUME IInv, DirtyOK, [Next]_vars PROVE IInv'
  OBVIOUS
<1>1. CASE \E n \in Replica : Command(n)
  BY <1>1, CommandStep
<1>2. CASE \E n, r \in Replica, last \in BOOLEAN : Import(n, r, last)
  BY <1>2, ImportStep DEF DirtyOK
<1>3. CASE \E n \in Replica : Materialize(n)
  BY <1>3, MaterializeStep
<1>4. CASE UNCHANGED vars
  <2>1. UNCHANGED <<log, known, clock, fields, active, closed>>
    BY <1>4 DEF vars
  <2>2. Shape' /\ KnownExist' /\ StampsIdentify'
    BY <2>1 DEF IInv, Shape, KnownExist, StampsIdentify
  <2>3. GroupsAreReduced'
    BY <2>1 DEF IInv, GroupsAreReduced, From, Value, Blank
  <2>4. GroupsAreNewest' /\ NextEditWins'
    BY <2>1 DEF IInv, GroupsAreNewest, Newer, NextEditWins
  <2> QED BY <2>2, <2>3, <2>4 DEF IInv
<1> QED BY <1>1, <1>2, <1>3, <1>4, NextIs

\* The invariant that all results rest on.
THEOREM Inductive == Spec => [](IInv /\ DirtyOK)
<1>1. Init => DirtyOK
  BY DEF Init, DirtyOK
<1> QED BY <1>1, InitHolds, DirtyHolds, NextHolds, PTL DEF Spec

\* An edit made on a peer is newer than everything the peer had reduced.
THEOREM EditsWin == Spec => []NextEditWins
<1>1. IInv => NextEditWins
  BY DEF IInv
<1> QED BY <1>1, Inductive, PTL

\* Peers that reduced the same facts propose the same dependencies.
THEOREM ProposalsAgree == Spec => []ProposalsConverge
<1>1. ASSUME IInv PROVE ProposalsConverge
  <2> USE <1>1 DEF IInv
  <2> SUFFICES ASSUME NEW m \in Replica, NEW n \in Replica, known[m] = known[n], NEW i \in Issue
               PROVE  fields[m][i] = fields[n][i]
    BY DEF ProposalsConverge, Shape
  <2>1. ASSUME NEW p \in Replica, NEW q \in Replica, known[p] = known[q], fields[p][i] = Blank
        PROVE  fields[q][i] = Blank
    <3> SUFFICES ASSUME fields[q][i] # Blank PROVE FALSE
      OBVIOUS
    <3>0. PICK r \in Replica : \E k \in 1 .. known[q][r] : log[r][k].issue = i
      BY DEF GroupsAreReduced
    <3>1. PICK k \in 1 .. known[q][r] : log[r][k].issue = i
      BY <3>0
    <3>2. k \in 1 .. Len(log[r]) /\ k \in 1 .. known[p][r]
      BY <2>1, ReducedExist
    <3>3. log[r][k].clock \in Nat /\ 0 < log[r][k].clock
      BY <3>2, FactTypes DEF StampsIdentify
    <3>4. ~Newer(log[r][k], fields[p][i])
      BY <3>1, <3>2 DEF GroupsAreNewest
    <3> QED BY <2>1, <3>3, <3>4 DEF Newer, Blank
  <2>2. CASE fields[m][i] = Blank \/ fields[n][i] = Blank
    BY <2>1, <2>2
  <2>3. CASE fields[m][i] # Blank /\ fields[n][i] # Blank
    <3>0. PICK r \in Replica, s \in Replica :
            /\ \E k \in 1 .. known[m][r] : log[r][k].issue = i /\ From(fields[m][i], log[r][k])
            /\ \E j \in 1 .. known[n][s] : log[s][j].issue = i /\ From(fields[n][i], log[s][j])
      BY <2>3 DEF GroupsAreReduced
    <3>1. PICK k \in 1 .. known[m][r] : log[r][k].issue = i /\ From(fields[m][i], log[r][k])
      BY <3>0
    <3>2. PICK j \in 1 .. known[n][s] : log[s][j].issue = i /\ From(fields[n][i], log[s][j])
      BY <3>0
    <3>3. k \in 1 .. Len(log[r]) /\ j \in 1 .. Len(log[s])
      BY ReducedExist
    <3>4. /\ log[r][k].clock \in Nat /\ log[s][j].clock \in Nat
          /\ log[r][k].origin = r /\ log[s][j].origin = s /\ r \in Nat /\ s \in Nat
      BY <3>3, FactTypes, DependencyAssumption DEF StampsIdentify
    <3>5. ~Newer(log[r][k], fields[n][i]) /\ ~Newer(log[s][j], fields[m][i])
      BY <3>1, <3>2 DEF GroupsAreNewest
    <3>6. log[r][k].clock = log[s][j].clock /\ r = s
      BY <3>1, <3>2, <3>4, <3>5 DEF Newer, From, Value
    <3>7. k = j
      BY <3>3, <3>4, <3>6 DEF StampsIdentify
    <3> QED BY <3>1, <3>2, <3>6, <3>7 DEF From
  <2> QED BY <2>2, <2>3
<1> QED BY <1>1, Inductive, PTL

---------------------------------------------------------------------------
(* Rows.  A row that is neither due nor overlooked shows the accepted      *)
(* graph, except for own changes that are still on their way.              *)

\* An own fact about an issue is still to be reduced.
Pending(n, i) ==
  \E k \in 1 .. Len(log[n]) : known[n][n] < k /\ log[n][k].issue = i

\* An own fact that waits will win, or a newer one made its row due.
PendingMatter ==
  \A n \in Replica : \A k \in 1 .. Len(log[n]) :
    known[n][n] < k =>
      \/ Newer(log[n][k], fields[n][log[n][k].issue])
      \/ log[n][k].issue \in dirty[n]

Shown ==
  \A n \in Replica : \A i \in Issue \ (dirty[n] \cup missed[n]) :
    Pending(n, i) \/ active[n][i] = Accepted(fields[n])[i]

RInv ==
  /\ dirty \in [Replica -> SUBSET Issue] /\ missed \in [Replica -> SUBSET Issue]
  /\ PendingMatter /\ Shown /\ EditsStayAcyclic

\* A project starts without dependencies.
LEMMA InitShows == Init => RInv
<1> SUFFICES ASSUME Init PROVE RInv
  OBVIOUS
<1>1. \A n \in Replica : /\ log[n] = <<>> /\ dirty[n] = {}
                         /\ \A i \in Issue : active[n][i] = {} /\ fields[n][i].blockers = {}
  BY DEF Init
<1>2. dirty \in [Replica -> SUBSET Issue] /\ missed \in [Replica -> SUBSET Issue]
  BY DEF Init
<1>3. PendingMatter
  BY <1>1 DEF PendingMatter
<1>4. Shown
  <2> SUFFICES ASSUME NEW n \in Replica, NEW i \in Issue
               PROVE  active[n][i] = Accepted(fields[n])[i]
    BY DEF Shown
  <2>1. Accepted(fields[n])[i] \subseteq {}
    BY <1>1, AcceptedAreProposed
  <2> QED BY <1>1, <2>1
<1>5. \A n \in Replica : Edges(active[n]) = {}
  BY <1>1 DEF Edges
<1>6. EditsStayAcyclic
  BY <1>5 DEF EditsStayAcyclic, Acyclic
<1> QED BY <1>2, <1>3, <1>4, <1>6 DEF RInv

\* The facts of a command wait to be reduced, and they are newer than what was;
\* the row that the command changed is the row of the first one.
LEMMA CommandShows == ASSUME IInv, RInv, NEW n \in Replica, Command(n) PROVE RInv'
<1> USE DEF IInv, RInv
<1>1. PICK i \in Issue, blockers \in [Issue -> SUBSET Issue], shut \in SUBSET Issue :
        \E facts : Records(n, i, blockers, shut, facts) /\ Changes(n, i, blockers)
  BY CommandRecords
<1>2. PICK facts : Records(n, i, blockers, shut, facts)
  BY <1>1
<1>3. /\ facts[1].issue = i
      /\ \A k \in 1 .. Len(facts) : facts[k].clock = clock[n] + k
      /\ active' = [active EXCEPT ![n] = blockers]
      /\ UNCHANGED <<known, fields, dirty, missed>>
  BY <1>2 DEF Records
<1>4. /\ Len(facts) \in Nat \ {0} /\ Len(log[n]) \in Nat
      /\ \A r \in Replica : Len(log'[r]) = IF r = n THEN Len(log[n]) + Len(facts) ELSE Len(log[r])
      /\ \A r \in Replica : \A k \in 1 .. Len(log[r]) : log'[r][k] = log[r][k]
      /\ \A k \in 1 .. Len(facts) : log'[n][Len(log[n]) + k] = facts[k]
      /\ \A r \in Replica : \A k \in 1 .. Len(log'[r]) :
           k \notin 1 .. Len(log[r]) =>
             /\ r = n /\ k - Len(log[n]) \in 1 .. Len(facts)
             /\ log'[r][k] = facts[k - Len(log[n])]
  BY <1>2, LogGrows
<1>5. \A r \in Replica : Len(log[r]) \in Nat /\ \A m \in Replica : known[m][r] \in Nat
  BY FactTypes DEF Shape
<1>6. /\ \A m \in Replica : m # n => active'[m] = active[m]
      /\ active'[n] = blockers
  BY <1>3 DEF Shape
<1>7. PendingMatter'
  <2> SUFFICES ASSUME NEW m \in Replica, NEW k \in 1 .. Len(log'[m]), known[m][m] < k
               PROVE  \/ Newer(log'[m][k], fields[m][log'[m][k].issue])
                      \/ log'[m][k].issue \in dirty[m]
    BY <1>3 DEF PendingMatter, Newer
  <2>1. CASE k \in 1 .. Len(log[m])
    BY <1>4, <2>1 DEF PendingMatter
  <2>2. CASE k \notin 1 .. Len(log[m])
    <3> DEFINE x == k - Len(log[n])
               f == facts[x]
    <3>1. m = n /\ x \in 1 .. Len(facts) /\ log'[m][k] = f
      BY <1>4, <2>2
    <3>2. f.clock = clock[n] + x /\ f.issue \in Issue
      <4>1. facts \in Seq(Fact)
        BY <1>2 DEF Records
      <4>2. f \in Fact
        BY <3>1, <4>1
      <4> QED BY <1>3, <3>1, <4>2 DEF Fact
    <3> HIDE DEF f
    <3>3. fields[n][f.issue].clock <= clock[n] /\ fields[n][f.issue].clock \in Nat
      BY <3>2 DEF NextEditWins, Shape, Field
    <3>4. clock[n] \in Nat
      BY DEF Shape
    <3> QED BY <3>1, <3>2, <3>3, <3>4 DEF Newer
  <2> QED BY <2>1, <2>2
<1>8. Shown'
  <2> SUFFICES ASSUME NEW m \in Replica, NEW j \in Issue \ (dirty[m] \cup missed[m]),
                      ~Pending(m, j)'
               PROVE  active'[m][j] = Accepted(fields[m])[j]
    BY <1>3 DEF Shown
  <2>1. ~Pending(m, j)
    <3> SUFFICES ASSUME NEW k \in 1 .. Len(log[m]), known[m][m] < k, log[m][k].issue = j
                 PROVE  FALSE
      BY DEF Pending
    <3>1. k \in 1 .. Len(log'[m]) /\ log'[m][k].issue = j
      BY <1>4, <1>5
    <3> QED BY <1>3, <3>1 DEF Pending
  <2>2. ~(m = n /\ j = i)
    <3> SUFFICES ASSUME m = n, j = i PROVE FALSE
      OBVIOUS
    <3>1. Len(log[n]) + 1 \in 1 .. Len(log'[n]) /\ known[n][n] < Len(log[n]) + 1
      BY <1>4, <1>5 DEF KnownExist
    <3>2. log'[n][Len(log[n]) + 1].issue = i
      BY <1>3, <1>4
    <3> QED BY <1>3, <3>1, <3>2 DEF Pending
  <2>3. active'[m][j] = active[m][j]
    BY <1>1, <1>6, <2>2 DEF Changes
  <2> QED BY <2>1, <2>3 DEF Shown
<1>9. EditsStayAcyclic'
  <2> SUFFICES ASSUME NEW m \in Replica, missed[m] = {} PROVE Acyclic(Edges(active'[m]))
    BY <1>3 DEF EditsStayAcyclic, Acyclic, Edges, Reaches
  <2>1. Acyclic(Edges(active[m]))
    BY DEF EditsStayAcyclic
  <2> QED BY <1>1, <1>6, <2>1 DEF Changes
<1>10. dirty' \in [Replica -> SUBSET Issue] /\ missed' \in [Replica -> SUBSET Issue]
  BY <1>3
<1> QED BY <1>7, <1>8, <1>9, <1>10

\* Rows that are written, or were not due, show the accepted graph.
LEMMA WrittenShows ==
  ASSUME NEW rows, NEW group, NEW due,
         \A i \in Issue \ due : rows[i] = Accepted(group)[i]
  PROVE  \A i \in Issue : Written(rows, group, due)[i] = Accepted(group)[i]
BY DEF Written

\* Rows that show the accepted graph are acyclic.
LEMMA ShownAcyclic ==
  ASSUME NEW rows, NEW group, \A i \in Issue : rows[i] = Accepted(group)[i]
  PROVE  Acyclic(Edges(rows))
<1>1. Edges(rows) = Edges(Accepted(group))
  BY DEF Edges
<1> QED BY <1>1, AcceptedIsAcyclic

\* Writing the rows that are due keeps what is shown.
LEMMA MaterializeShows == ASSUME IInv, RInv, NEW n \in Replica, Materialize(n) PROVE RInv'
<1> USE DEF IInv, RInv
<1>1. /\ dirty' = [dirty EXCEPT ![n] = {}]
      /\ active' = [active EXCEPT ![n] = Written(active[n], fields[n], dirty[n])]
      /\ missed' = [missed EXCEPT ![n] = missed[n] \ dirty[n]]
      /\ UNCHANGED <<log, known, clock, fields>> /\ known[n][n] = Len(log[n])
  BY DEF Materialize
<1>2. \A m \in Replica :
        /\ dirty'[m] = IF m = n THEN {} ELSE dirty[m]
        /\ missed'[m] = IF m = n THEN missed[n] \ dirty[n] ELSE missed[m]
        /\ active'[m] = IF m = n THEN Written(active[n], fields[n], dirty[n]) ELSE active[m]
        /\ \A i \in Issue : Pending(m, i)' <=> Pending(m, i)
  BY <1>1 DEF Shape, Pending
<1>3. \A i \in Issue : ~Pending(n, i) /\ Len(log[n]) \in Nat
  BY <1>1, FactTypes DEF Pending
<1>4. ASSUME NEW i \in Issue \ missed'[n]
      PROVE  active'[n][i] = Accepted(fields[n])[i]
  <2>1. i \in dirty[n] \/ active[n][i] = Accepted(fields[n])[i]
    BY <1>2, <1>3 DEF Shown
  <2> QED BY <1>2, <2>1 DEF Written
<1>5. dirty' \in [Replica -> SUBSET Issue] /\ missed' \in [Replica -> SUBSET Issue]
  BY <1>1
<1>6. PendingMatter'
  <2> SUFFICES ASSUME NEW m \in Replica, NEW k \in 1 .. Len(log[m]), known[m][m] < k
               PROVE  \/ Newer(log[m][k], fields[m][log[m][k].issue])
                      \/ log[m][k].issue \in dirty'[m]
    BY <1>1 DEF PendingMatter, Newer
  <2>1. m # n
    BY <1>1, <1>3
  <2> QED BY <1>2, <2>1 DEF PendingMatter
<1>7. Shown'
  <2> SUFFICES ASSUME NEW m \in Replica, NEW i \in Issue \ (dirty'[m] \cup missed'[m]),
                      ~Pending(m, i)
               PROVE  active'[m][i] = Accepted(fields[m])[i]
    BY <1>1, <1>2 DEF Shown
  <2>1. CASE m = n
    BY <1>4, <2>1
  <2>2. CASE m # n
    BY <1>2, <2>2 DEF Shown
  <2> QED BY <2>1, <2>2
<1>8. EditsStayAcyclic'
  <2> SUFFICES ASSUME NEW m \in Replica, missed'[m] = {} PROVE Acyclic(Edges(active'[m]))
    BY DEF EditsStayAcyclic, Acyclic, Edges, Reaches
  <2>1. CASE m = n
    BY <1>4, <2>1, ShownAcyclic
  <2>2. CASE m # n
    BY <1>2, <2>2 DEF EditsStayAcyclic
  <2> QED BY <2>1, <2>2
<1> QED BY <1>5, <1>6, <1>7, <1>8

\* A row whose accepted blockers a fact changes is due if the fact is an edit, as
\* only rows that propose nothing are left out, and overlooked if it is not.
LEMMA ImportShows ==
  ASSUME IInv, RInv, NEW n \in Replica, NEW r \in Replica, NEW last \in BOOLEAN,
         Import(n, r, last)
  PROVE  RInv'
<1> USE DEF IInv, RInv
<1> DEFINE next == known[n][r] + 1
<1>1. known[n][r] \in Nat /\ next \in 1 .. Len(log[r])
  BY NextFact
<1>2. PICK f \in Fact, wins, ready \in BOOLEAN, group \in [Issue -> Field], due \in SUBSET Issue :
        Reduces(n, r, f, wins, group, due, ready)
  BY ImportReduces
<1> DEFINE lost == Lost(f, fields[n], group)
<1>3. /\ f = log[r][next]
      /\ wins = Newer(f, fields[n][f.issue])
      /\ group = IF wins THEN [fields[n] EXCEPT ![f.issue] = Value(f)] ELSE fields[n]
      /\ dirty[n] \subseteq due /\ (wins => Touched(f, group) \subseteq due)
      /\ ready => [known[n] EXCEPT ![r] = @ + 1][n] = Len(log[n])
      /\ known' = [known EXCEPT ![n] = [known[n] EXCEPT ![r] = @ + 1]]
      /\ fields' = [fields EXCEPT ![n] = group]
      /\ dirty' = [dirty EXCEPT ![n] = IF ready THEN {} ELSE due]
      /\ active' = [active EXCEPT ![n] = IF ready THEN Written(@, group, due) ELSE @]
      /\ missed' = [missed EXCEPT ![n] = (IF ready THEN @ \ due ELSE @) \cup (lost \ due)]
      /\ UNCHANGED log
  BY <1>2 DEF Reduces
<1>4. lost \in SUBSET Issue
  BY DEF Lost
<1> HIDE DEF lost
<1>5. \A m \in Replica :
        /\ \A s \in Replica : known'[m][s] = IF m = n /\ s = r THEN next ELSE known[m][s]
        /\ fields'[m] = IF m = n THEN group ELSE fields[m]
        /\ dirty'[m] = IF m # n THEN dirty[m] ELSE IF ready THEN {} ELSE due
        /\ active'[m] = IF m = n /\ ready THEN Written(active[n], group, due)
                                          ELSE active[m]
        /\ missed'[m] = IF m # n THEN missed[m]
                        ELSE (IF ready THEN missed[n] \ due ELSE missed[n]) \cup (lost \ due)
  BY <1>3 DEF Shape
<1>6. ready => known'[n][n] = Len(log[n])
  BY <1>3 DEF Shape
<1>7. /\ f.issue \in Issue /\ (wins => f.issue \in due)
      /\ \A i \in Issue : i # f.issue \/ ~wins => group[i] = fields[n][i]
  <2>1. f.issue \in Issue
    BY DEF Fact
  <2>2. f.issue \in Touched(f, group)
    BY DEF Touched
  <2> QED BY <1>3, <2>1, <2>2 DEF Shape
<1>8. \A m, s \in Replica : known[m][s] \in Nat /\ known[m][s] <= known'[m][s]
                               /\ Len(log[s]) \in Nat /\ known'[m][s] \in Nat
  <2>1. \A m, s \in Replica : known[m][s] \in Nat /\ Len(log[s]) \in Nat
    BY FactTypes DEF Shape
  <2> QED BY <1>1, <1>5, <2>1
<1> HIDE DEF next
<1>9. ASSUME NEW i \in Issue \ (due \cup missed[n] \cup lost), ~Pending(n, i)'
      PROVE  active[n][i] = Accepted(group)[i]
  <2>1. ~Pending(n, i)
    <3> SUFFICES ASSUME NEW k \in 1 .. Len(log[n]), known[n][n] < k, log[n][k].issue = i
                 PROVE  FALSE
      BY DEF Pending
    <3>1. ~(known'[n][n] < k)
      BY <1>3, <1>9 DEF Pending
    <3>2. r = n /\ k = next
      BY <1>5, <1>8, <3>1 DEF next
    <3>3. Newer(f, fields[n][i]) \/ i \in dirty[n]
      BY <1>3, <3>2 DEF PendingMatter
    <3>4. f.issue = i /\ ~wins
      BY <1>3, <1>7, <1>9, <3>2
    <3> QED BY <1>3, <1>9, <3>3, <3>4
  <2>2. active[n][i] = Accepted(fields[n])[i]
    BY <1>3, <1>9, <2>1 DEF Shown
  <2>3. CASE wins /\ f.before # f.after
    <3>1. group[i].blockers = {} /\ group[i] = fields[n][i]
      BY <1>3, <1>7, <1>9, <2>3 DEF Touched
    <3>2. Accepted(group)[i] \subseteq {} /\ Accepted(fields[n])[i] \subseteq {}
      BY <3>1, AcceptedAreProposed
    <3> QED BY <2>2, <3>2
  <2>4. CASE f.before = f.after
    <3>1. Accepted(fields[n])[i] = Accepted(group)[i]
      BY <1>9, <2>4 DEF Lost, lost
    <3> QED BY <2>2, <3>1
  <2>5. CASE ~wins
    BY <1>3, <2>2, <2>5
  <2> QED BY <2>3, <2>4, <2>5
<1>10. ASSUME ready, NEW i \in Issue \ missed'[n]
       PROVE  active'[n][i] = Accepted(group)[i]
  <2>1. ~Pending(n, i)'
    BY <1>3, <1>6, <1>8, <1>10 DEF Pending
  <2>2. i \in due \/ i \in Issue \ (due \cup missed[n] \cup lost)
    BY <1>5, <1>10
  <2>3. i \in due \/ active[n][i] = Accepted(group)[i]
    BY <1>9, <2>1, <2>2
  <2> QED BY <1>5, <1>10, <2>3 DEF Written
<1>11. dirty' \in [Replica -> SUBSET Issue] /\ missed' \in [Replica -> SUBSET Issue]
  BY <1>3, <1>4
<1>12. PendingMatter'
  <2> SUFFICES ASSUME NEW m \in Replica, NEW k \in 1 .. Len(log[m]), known'[m][m] < k
               PROVE  \/ Newer(log[m][k], fields'[m][log[m][k].issue])
                      \/ log[m][k].issue \in dirty'[m]
    BY <1>3 DEF PendingMatter, Newer
  <2>1. known[m][m] < k
    BY <1>8
  <2>2. \/ Newer(log[m][k], fields[m][log[m][k].issue])
        \/ log[m][k].issue \in dirty[m]
    BY <2>1 DEF PendingMatter
  <2>3. CASE m # n
    BY <1>5, <2>2, <2>3
  <2>4. CASE m = n
    <3>1. ~ready
      BY <1>6, <1>8, <2>4
    <3> DEFINE i == log[m][k].issue
    <3>2. i \in Issue
      BY FactTypes
    <3>3. dirty'[m] = due /\ fields'[m] = group
      BY <1>5, <2>4, <3>1
    <3>4. i \in due \/ group[i] = fields[n][i]
      BY <1>7, <3>2
    <3>5. dirty[n] \subseteq due
      BY <1>2, Zenon DEF Reduces
    <3> HIDE DEF i, IInv, RInv
    <3> QED BY <2>2, <2>4, <3>3, <3>4, <3>5 DEF i
  <2> QED BY <2>3, <2>4
<1>13. Shown'
  <2> SUFFICES ASSUME NEW m \in Replica, NEW i \in Issue \ (dirty'[m] \cup missed'[m]),
                      ~Pending(m, i)'
               PROVE  active'[m][i] = Accepted(fields'[m])[i]
    BY DEF Shown
  <2>1. CASE m = n /\ ready
    BY <1>5, <1>10, <2>1
  <2>2. CASE m = n /\ ~ready
    <3>1. i \in Issue \ (due \cup missed[n] \cup lost)
      BY <1>5, <2>2
    <3> QED BY <1>5, <1>9, <2>2, <3>1
  <2>3. CASE m # n
    <3>1. ~Pending(m, i)
      <4>1. log' = log
        BY <1>2, Zenon DEF Reduces
      <4>2. known'[m][m] = known[m][m]
        BY <1>5, <2>3
      <4> HIDE DEF IInv, RInv
      <4> QED BY <4>1, <4>2 DEF Pending
    <3>2. /\ active'[m] = active[m] /\ fields'[m] = fields[m]
          /\ dirty'[m] = dirty[m] /\ missed'[m] = missed[m]
      BY <1>5, <2>3
    <3>3. i \in Issue \ (dirty[m] \cup missed[m])
      BY <3>2
    <3>4. active[m][i] = Accepted(fields[m])[i]
      <4> HIDE DEF IInv
      <4> QED BY <3>1, <3>3 DEF Shown
    <3> HIDE DEF IInv, RInv
    <3> QED BY <3>2, <3>4
  <2> QED BY <2>1, <2>2, <2>3
<1>14. EditsStayAcyclic'
  <2> SUFFICES ASSUME NEW m \in Replica, missed'[m] = {} PROVE Acyclic(Edges(active'[m]))
    BY DEF EditsStayAcyclic, Acyclic, Edges, Reaches
  <2>1. CASE m = n /\ ready
    <3>1. \A i \in Issue : active'[n][i] = Accepted(group)[i]
      BY <1>10, <2>1
    <3> QED BY <2>1, <3>1, ShownAcyclic
  <2>2. CASE ~(m = n /\ ready)
    <3>1. missed[m] = {} /\ active'[m] = active[m]
      BY <1>5, <2>2
    <3> QED BY <3>1 DEF EditsStayAcyclic
  <2> QED BY <2>1, <2>2
<1> QED BY <1>11, <1>12, <1>13, <1>14

\* Every step keeps the rows showing the accepted graph.
LEMMA NextShows == IInv /\ RInv /\ [Next]_vars => RInv'
<1> SUFFICES ASSUME IInv, RInv, [Next]_vars PROVE RInv'
  OBVIOUS
<1>1. CASE \E n \in Replica : Command(n)
  BY <1>1, CommandShows
<1>2. CASE \E n, r \in Replica, last \in BOOLEAN : Import(n, r, last)
  BY <1>2, ImportShows
<1>3. CASE \E n \in Replica : Materialize(n)
  BY <1>3, MaterializeShows
<1>4. CASE UNCHANGED vars
  BY <1>4 DEF vars, RInv, PendingMatter, Shown, EditsStayAcyclic, Pending,
              Newer, Acyclic, Edges, Reaches
<1> QED BY <1>1, <1>2, <1>3, <1>4, NextIs

LEMMA RowsShow == Spec => [](IInv /\ RInv)
BY InitShows, Inductive, NextShows, PTL DEF Spec

\* Commands that are merged in any order, with the reconciled states that belong
\* to them and checks against what a peer knew, never combine into a cycle of
\* dependencies that gate pickup, unless a peer overlooks a row (blockers).
THEOREM EditsNeverCycle == Spec => []EditsStayAcyclic
<1>1. RInv => EditsStayAcyclic
  BY DEF RInv
<1> QED BY <1>1, RowsShow, PTL

\* A peer shows the accepted graph of all proposals in every row that is neither
\* dirty nor overlooked, also in rows that no fact was about (reduce,
\* dirty_dependents).
THEOREM DependentsFollow == Spec => []EditsReachDependents
<1>1. ASSUME IInv, RInv PROVE EditsReachDependents
  <2> SUFFICES ASSUME NEW n \in Replica, known[n][n] = Len(log[n]),
                      NEW i \in Issue \ (dirty[n] \cup missed[n])
               PROVE  active[n][i] = Accepted(fields[n])[i]
    BY DEF EditsReachDependents
  <2>1. Len(log[n]) \in Nat
    BY <1>1, FactTypes DEF IInv
  <2>2. ~Pending(n, i)
    BY <2>1 DEF Pending
  <2> QED BY <1>1, <2>2 DEF RInv, Shown
<1> QED BY <1>1, RowsShow, PTL

\* Edges are withheld only while they would close a cycle; the others gate pickup
\* again as soon as the rows are written (blockers).
THEOREM WithheldForCycles == Spec => []WithheldOnlyForCycles
<1>1. ASSUME IInv PROVE WithheldOnlyForCycles
  <2> SUFFICES ASSUME NEW n \in Replica, NEW i \in Issue,
                      NEW b \in fields[n][i].blockers \ Accepted(fields[n])[i]
               PROVE  Reaches(Edges(Accepted(fields[n])), b, i)
    BY DEF WithheldOnlyForCycles
  <2>1. b \in Issue
    BY <1>1 DEF IInv, Shape, Field
  <2> QED BY <2>1, WithheldCloses
<1> QED BY <1>1, Inductive, PTL

---------------------------------------------------------------------------
(* Types. *)

\* The bounds: logs are no longer than clocks, which count no further than there
\* are facts.
Bounded ==
  /\ IsFiniteSet(Facts) /\ Cardinality(Facts) <= MaxFacts
  /\ \A r \in Replica : Len(log[r]) <= clock[r] /\ clock[r] <= Cardinality(Facts)

\* The facts of all logs.
LEMMA FactsAre ==
  ASSUME Shape, NEW f
  PROVE  f \in Facts <=> \E r \in Replica : \E k \in 1 .. Len(log[r]) : f = log[r][k]
<1>1. \A r \in Replica : DOMAIN log[r] = 1 .. Len(log[r])
  <2>1. \A r \in Replica : log[r] \in Seq(Fact)
    BY DEF Shape
  <2> QED BY <2>1
<1> QED BY <1>1 DEF Facts, Range

\* A command counts as many facts more as it moves a clock.
LEMMA CommandBounded ==
  ASSUME IInv, Bounded, NEW n \in Replica, Command(n)
  PROVE  Bounded'
<1> USE DEF IInv
<1>1. PICK i \in Issue, blockers \in [Issue -> SUBSET Issue], shut \in SUBSET Issue :
        \E facts : Records(n, i, blockers, shut, facts)
  BY CommandRecords
<1>2. PICK facts : Records(n, i, blockers, shut, facts)
  BY <1>1
<1>3. /\ facts \in Seq(Fact)
      /\ \A k \in 1 .. Len(facts) : facts[k].clock = clock[n] + k /\ facts[k].origin = n
      /\ Cardinality(Facts) + Len(facts) <= MaxFacts
      /\ clock' = [clock EXCEPT ![n] = @ + Len(facts)]
  BY <1>2 DEF Records
<1>4. /\ log' \in [Replica -> Seq(Fact)]
      /\ Len(facts) \in Nat \ {0} /\ Len(log[n]) \in Nat
      /\ \A r \in Replica : Len(log'[r]) = IF r = n THEN Len(log[n]) + Len(facts) ELSE Len(log[r])
      /\ \A r \in Replica : \A k \in 1 .. Len(log[r]) : log'[r][k] = log[r][k]
      /\ \A k \in 1 .. Len(facts) : log'[n][Len(log[n]) + k] = facts[k]
      /\ \A r \in Replica : \A k \in 1 .. Len(log'[r]) :
           k \notin 1 .. Len(log[r]) =>
             /\ r = n /\ k - Len(log[n]) \in 1 .. Len(facts)
             /\ log'[r][k] = facts[k - Len(log[n])]
  BY <1>2, LogGrows
<1>5. \A r \in Replica : /\ Len(log[r]) \in Nat /\ clock[r] \in Nat
                         /\ clock'[r] = IF r = n THEN clock[n] + Len(facts) ELSE clock[r]
  BY <1>3, FactTypes DEF Shape
<1> DEFINE new == {facts[k] : k \in 1 .. Len(facts)}
<1>6. Facts' = Facts \cup new
  <2> DEFINE In(g) == \E r \in Replica : \E k \in 1 .. Len(log[r]) : g = log[r][k]
             Gets(g) == \E r \in Replica : \E k \in 1 .. Len(log'[r]) : g = log'[r][k]
  <2>1. ASSUME NEW g, Gets(g) PROVE In(g) \/ g \in new
    <3>1. PICK r \in Replica : \E k \in 1 .. Len(log'[r]) : g = log'[r][k]
      BY <2>1
    <3>2. PICK k \in 1 .. Len(log'[r]) : g = log'[r][k]
      BY <3>1
    <3>3. CASE k \in 1 .. Len(log[r])
      BY <1>4, <3>2, <3>3
    <3>4. CASE k \notin 1 .. Len(log[r])
      BY <1>4, <3>2, <3>4
    <3> QED BY <3>3, <3>4
  <2>2. ASSUME NEW g, In(g) PROVE Gets(g)
    <3>1. PICK r \in Replica : \E k \in 1 .. Len(log[r]) : g = log[r][k]
      BY <2>2
    <3>2. PICK k \in 1 .. Len(log[r]) : g = log[r][k]
      BY <3>1
    <3>3. k \in 1 .. Len(log'[r])
      BY <1>4, <1>5
    <3> QED BY <1>4, <3>2, <3>3
  <2>3. ASSUME NEW g \in new PROVE Gets(g)
    <3>1. PICK k \in 1 .. Len(facts) : g = facts[k]
      BY <2>3
    <3>2. Len(log[n]) + k \in 1 .. Len(log'[n])
      BY <1>4
    <3> QED BY <1>4, <3>1, <3>2
  <2>4. \A g : g \in Facts <=> In(g)
    BY FactsAre
  <2>5. \A g : g \in Facts' <=> Gets(g)
    <3>1. \A r \in Replica : DOMAIN log'[r] = 1 .. Len(log'[r])
      BY <1>4
    <3> QED BY <3>1 DEF Facts, Range
  <2> HIDE DEF In, Gets, new
  <2> QED BY <2>1, <2>2, <2>3, <2>4, <2>5
<1>7. Facts \cap new = {}
  <2> SUFFICES ASSUME NEW g \in Facts, g \in new PROVE FALSE
    OBVIOUS
  <2>1. PICK r \in Replica : \E k \in 1 .. Len(log[r]) : g = log[r][k]
    BY FactsAre
  <2>2. PICK k \in 1 .. Len(log[r]) : g = log[r][k]
    BY <2>1
  <2>3. PICK x \in 1 .. Len(facts) : g = facts[x]
    OBVIOUS
  <2>4. g.origin = r /\ g.clock <= clock[r]
    BY <2>2 DEF StampsIdentify
  <2>5. g.origin = n /\ g.clock = clock[n] + x
    BY <1>3, <2>3
  <2> QED BY <1>5, <2>4, <2>5
<1>8. IsFiniteSet(new) /\ Cardinality(new) = Len(facts)
  <2> DEFINE count == 1 .. Len(facts)
             name == [k \in count |-> facts[k]]
  <2>1. IsFiniteSet(count) /\ Cardinality(count) = Len(facts)
    <3>1. 1 \in Int /\ Len(facts) \in Int /\ ~(1 > Len(facts)) /\ Len(facts) - 1 + 1 = Len(facts)
      BY <1>4
    <3>2. /\ IsFiniteSet(1 .. Len(facts))
          /\ Cardinality(1 .. Len(facts)) =
               IF 1 > Len(facts) THEN 0 ELSE Len(facts) - 1 + 1
      BY <3>1, FS_Interval, Zenon
    <3> QED BY <3>1, <3>2
  <2>2. name \in Bijection(count, new)
    <3>1. \A j, k \in count : facts[j] = facts[k] => j = k
      BY <1>3, <1>5
    <3> QED BY <3>1 DEF Bijection, Injection, Surjection, IsInjective
  <2> HIDE DEF count, name, new
  <2>3. ExistsBijection(count, new)
    BY <2>2 DEF ExistsBijection
  <2> QED BY <2>1, <2>3, FS_Bijection
<1> HIDE DEF new
<1>9. /\ IsFiniteSet(Facts') /\ Cardinality(Facts') = Cardinality(Facts) + Len(facts)
      /\ Cardinality(Facts) \in Nat
  <2>1. IsFiniteSet(Facts) /\ Cardinality(Facts) \in Nat
    BY FS_CardinalityType DEF Bounded
  <2>2. Cardinality(Facts \cap new) = 0
    BY <1>7, FS_EmptySet
  <2>3. /\ IsFiniteSet(Facts \cup new)
        /\ Cardinality(Facts \cup new) = Cardinality(Facts) + Cardinality(new)
                                           - Cardinality(Facts \cap new)
    BY <1>8, <2>1, FS_Union
  <2> QED BY <1>4, <1>6, <1>8, <2>1, <2>2, <2>3
<1>10. ASSUME NEW r \in Replica
       PROVE  Len(log'[r]) <= clock'[r] /\ clock'[r] <= Cardinality(Facts')
  <2>1. /\ Len(log[r]) \in Nat /\ clock[r] \in Nat
        /\ Len(log[r]) <= clock[r] /\ clock[r] <= Cardinality(Facts)
    BY FactTypes DEF Bounded, Shape
  <2>2. /\ clock'[r] = IF r = n THEN clock[n] + Len(facts) ELSE clock[r]
        /\ Len(log'[r]) = IF r = n THEN Len(log[n]) + Len(facts) ELSE Len(log[r])
    BY <1>3, <1>4, <1>5 DEF Shape
  <2> HIDE DEF IInv
  <2> QED BY <1>4, <1>9, <2>1, <2>2
<1>11. Cardinality(Facts') <= MaxFacts
  BY <1>3, <1>9
<1> QED BY <1>9, <1>10, <1>11 DEF Bounded

\* Merging a fact moves a clock up to one that its author counted.
LEMMA ImportBounded ==
  ASSUME IInv, Bounded, NEW n \in Replica, NEW r \in Replica, NEW last \in BOOLEAN,
         Import(n, r, last)
  PROVE  Bounded'
<1> USE DEF IInv
<1>1. known[n][r] + 1 \in 1 .. Len(log[r])
  BY NextFact
<1>2. PICK f \in Fact : f = log[r][known[n][r] + 1]
  BY <1>1, FactTypes
<1>3. clock' = [clock EXCEPT ![n] = Advanced(@, f)] /\ UNCHANGED log
  BY <1>2 DEF Import
<1>4. f.clock \in Nat /\ f.clock <= clock[r]
  BY <1>1, <1>2, FactTypes DEF StampsIdentify
<1>5. Facts' = Facts /\ Cardinality(Facts) \in Nat
  BY <1>3, FS_CardinalityType DEF Facts, Bounded
<1>6. ASSUME NEW m \in Replica PROVE Len(log[m]) <= clock'[m] /\ clock'[m] <= Cardinality(Facts)
  <2>1. clock'[m] = IF m = n THEN Advanced(clock[n], f) ELSE clock[m]
    BY <1>3 DEF Shape
  <2>2. /\ Len(log[m]) <= clock[m] /\ clock[m] <= Cardinality(Facts)
        /\ f.clock <= Cardinality(Facts)
        /\ Len(log[m]) \in Nat /\ clock[m] \in Nat /\ clock[r] \in Nat
    <3>1. Len(log[m]) \in Nat /\ clock[m] \in Nat /\ clock[r] \in Nat
      BY FactTypes DEF Shape
    <3>2. clock[r] <= Cardinality(Facts)
      BY DEF Bounded
    <3> QED BY <1>4, <1>5, <3>1, <3>2 DEF Bounded
  <2> QED BY <1>4, <1>5, <2>1, <2>2 DEF Advanced
<1> QED BY <1>3, <1>5, <1>6 DEF Bounded

\* Every step respects the bounds.
LEMMA NextBounded == IInv /\ DirtyOK /\ Bounded /\ [Next]_vars => Bounded'
<1> SUFFICES ASSUME IInv, DirtyOK, Bounded, [Next]_vars PROVE Bounded'
  OBVIOUS
<1>1. CASE \E n \in Replica : Command(n)
  BY <1>1, CommandBounded
<1>2. CASE \E n, r \in Replica, last \in BOOLEAN : Import(n, r, last)
  BY <1>2, ImportBounded
<1>3. CASE (\E n \in Replica : Materialize(n)) \/ UNCHANGED vars
  BY <1>3 DEF Materialize, vars, Bounded, Facts
<1> QED BY <1>1, <1>2, <1>3, NextIs

\* Every variable has its type: the clocks and the cursors of capture and import
\* count no further than there are changes.
THEOREM TypeCorrect == Spec => []TypeOK
<1>1. Init => Bounded
  <2> SUFFICES ASSUME Init PROVE Bounded
    OBVIOUS
  <2>1. Facts = {}
    BY DEF Init, Facts, Range
  <2>2. \A r \in Replica : clock[r] = 0 /\ Len(log[r]) = 0
    BY DEF Init
  <2> QED BY <2>1, <2>2, FS_EmptySet, DependencyAssumption DEF Bounded
<1>2. ASSUME IInv, RInv, Bounded PROVE TypeOK
  <2> USE <1>2 DEF IInv, Shape
  <2>1. Cardinality(Facts) \in Nat
    BY FS_CardinalityType DEF Bounded
  <2>2. ASSUME NEW r \in Replica
        PROVE  /\ clock[r] \in Count
               /\ \A n \in Replica : known[n][r] \in Count
    <3>1. /\ clock[r] \in Nat /\ Len(log[r]) \in Nat
          /\ clock[r] <= MaxFacts /\ Len(log[r]) <= MaxFacts
      BY <2>1, FactTypes, DependencyAssumption DEF Bounded
    <3>2. \A n \in Replica : known[n][r] \in Nat /\ known[n][r] <= Len(log[r])
      BY DEF KnownExist
    <3> QED BY <3>1, <3>2, DependencyAssumption DEF Count
  <2>3. clock \in [Replica -> Count] /\ known \in [Replica -> [Replica -> Count]]
    BY <2>2
  <2> QED BY <2>3 DEF TypeOK, RInv
<1>3. Spec => [](IInv /\ RInv /\ Bounded)
  BY <1>1, Inductive, RowsShow, NextBounded, PTL DEF Spec
<1> QED BY <1>2, <1>3, PTL
=============================================================================
