-------------------------- MODULE Allocations_proofs --------------------------
(***************************************************************************)
(* The safety of Allocations for every fleet, every set of attempts and    *)
(* every timing: what an omitted attempt proves, what a launch is ordered  *)
(* after, which attempts may take a task or stop an agent, that a living   *)
(* attempt is displaced by a better one only, and that a fleet which keeps *)
(* its times never runs two attempts of a task.                            *)
(***************************************************************************)
EXTENDS Allocations, WellFoundedInduction, TLAPS

Process == {"none", "reserved", "running", "stopping", "dead", "done"}

(***************************************************************************)
(* The invariant is stated of any databases b and runs, so that it can be  *)
(* stated between the statements of a transaction too.                     *)
(***************************************************************************)
OwnRow(b, x) == b[Owner[x]].rows[x]

\* An attempt that nobody picked up has no row.
Unborn(b, run) == \A x \in Attempt : run[x] = "none" => ~OwnRow(b, x).known

\* A living attempt without a row predates reservations, and then its machine
\* never sent a pulse.
Adoptable(b, run) ==
  \A x \in Attempt :
    Alive(run[x]) /\ ~OwnRow(b, x).known =>
      x \in Legacy /\ b[Owner[x]].sequence = 0

\* The row of a waiting or a running attempt says so on its own machine.
Truthful(b, run) ==
  \A x \in Attempt :
    /\ run[x] = "reserved" => OwnRow(b, x).launched = Null
    /\ run[x] = "running" /\ OwnRow(b, x).known =>
         OwnRow(b, x).launched # Null /\ ~OwnRow(b, x).released

\* A row that arrived is an earlier version of its owner's.
Copied(b) ==
  \A n \in Machine, x \in Attempt :
    LET r == b[n].rows[x]
        s == OwnRow(b, x)
    IN r.known => /\ s.known /\ r.ticket = s.ticket /\ r.after = s.after
                  /\ r.launched # Null => r.launched = s.launched

\* No pulse is numbered after the last one that its machine sent.
Numbered(b) ==
  \A n, m \in Machine :
    b[n].pulses[m].boot # "none" =>
      1 <= b[n].pulses[m].sequence /\ b[n].pulses[m].sequence <= b[m].sequence

\* A pulse that may judge a reservation and omits it was sent after its end.
Judged(b, run) ==
  \A n \in Machine, x \in Attempt :
    LET p == b[n].pulses[Owner[x]]
    IN /\ p.boot # "none"
       /\ OwnRow(b, x).known
       /\ p.sequence >= OwnRow(b, x).after
       /\ x \notin p.attempts
       => ~Alive(run[x])

\* The Lamport clock of a machine has caught up with every row it knows.
Clocked(b) ==
  \A n \in Machine, x \in Attempt :
    LET r == b[n].rows[x]
    IN r.known => /\ r.ticket <= b[n].clock
                  /\ r.launched # Null => r.launched <= b[n].clock

Good(b, run) ==
  /\ Unborn(b, run)
  /\ Adoptable(b, run)
  /\ Truthful(b, run)
  /\ Copied(b)
  /\ Numbered(b)
  /\ Judged(b, run)
  /\ Clocked(b)

\* Attempt y keeps x from its task: it was launched and precedes x.
Displaces(d, y, x) ==
  /\ TaskOf[y] = TaskOf[x]
  /\ d.rows[y].known /\ d.rows[y].launched # Null
  /\ Precedes(d.rows[y], y, d.rows[x], x)

\* A running attempt has its task or was displaced.
Fenced(b, run) ==
  \A x \in Attempt :
    run[x] = "running" /\ OwnRow(b, x).known =>
      LET w == b[Owner[x]].winner[TaskOf[x]]
      IN w = x \/ (w \in Attempt /\ Displaces(b[Owner[x]], w, x))

IInv == TypeOK /\ Good(db, proc) /\ Fenced(db, proc)

----------------------------------------------------------------------------
(* The election. *)

\* A set of natural numbers has a least member.
LEMMA LeastNumber ==
  ASSUME NEW S \in SUBSET Nat, S # {}
  PROVE  \E m \in S : \A k \in S : m <= k
<1> DEFINE R == OpToRel(<, Nat)
<1>1. \A a, b \in Nat : a < b => <<a, b>> \in R
  BY DEF OpToRel
<1>2. IsWellFoundedOn(R, Nat)
  BY NatLessThanWellFounded
<1> HIDE DEF R
<1>3. PICK m \in S : \A k \in S : ~ (<<k, m>> \in R)
  BY <1>2, WFMin
<1>4. \A k \in S : ~ (k < m)
  BY <1>1, <1>3
<1>5. \A k \in S : m <= k
  BY <1>4
<1> QED BY <1>5

Candidates(d, t) == {x \in Attempt : TaskOf[x] = t /\ Standing(d, x)}

\* Attempt w precedes every other candidate.
Leads(d, w, t) ==
  /\ w \in Candidates(d, t)
  /\ \A y \in Candidates(d, t) \ {w} :
       Precedes(d.rows[w], w, d.rows[y], y)

\* Every task has the winner that the rows and observations demand.
Decided(d) ==
  \A t \in Task :
    IF Candidates(d, t) = {} THEN d.winner[t] = Null
                             ELSE Leads(d, d.winner[t], t)

\* The order of attempts is total, so that some candidate leads.
LEMMA SomeoneLeads ==
  ASSUME NEW d, d.rows \in [Attempt -> Row], NEW t \in Task,
         Candidates(d, t) # {}
  PROVE  \E w : Leads(d, w, t)
<1> DEFINE all == Candidates(d, t)
           waits(x) == d.rows[x].launched = Null
           number(x) == IF waits(x) THEN d.rows[x].ticket ELSE d.rows[x].launched
           first == IF \E x \in all : ~waits(x)
                    THEN {x \in all : ~waits(x)} ELSE all
<1>1. all \subseteq Attempt
  BY DEF Candidates
<1>2. /\ first \subseteq all /\ first # {}
      /\ \A x \in first, y \in all : waits(x) # waits(y) => waits(y)
      /\ \A x \in first, y \in all : waits(x) = waits(y) => y \in first
  <2>1. CASE \E x \in all : ~waits(x)
    BY <2>1
  <2>2. CASE ~ \E x \in all : ~waits(x)
    BY <2>2
  <2> QED BY <2>1, <2>2
<1>3. \A x \in all : number(x) \in Nat /\ Rank[x] \in Nat
  BY <1>1, RankAssumption DEF Row
<1> HIDE DEF first, number
<1> DEFINE numbers == {number(x) : x \in first}
<1>4. PICK m \in numbers : \A k \in numbers : m <= k
  <2>1. numbers \in SUBSET Nat /\ numbers # {}
    BY <1>2, <1>3
  <2> QED BY <2>1, LeastNumber
<1> DEFINE least == {x \in first : number(x) = m}
           ranks == {Rank[x] : x \in least}
<1>5. PICK k \in ranks : \A j \in ranks : k <= j
  <2>1. ranks \in SUBSET Nat /\ ranks # {}
    BY <1>2, <1>3, <1>4
  <2> QED BY <2>1, LeastNumber
<1>6. PICK w \in least : Rank[w] = k
  BY <1>5
<1>7. w \in all
  BY <1>2, <1>6
<1>8. ASSUME NEW y \in all \ {w}
      PROVE  Precedes(d.rows[w], w, d.rows[y], y)
  <2>1. CASE waits(w) # waits(y)
    BY <1>2, <1>6, <2>1 DEF Precedes
  <2>2. CASE waits(w) = waits(y)
    <3>1. y \in first
      BY <1>2, <1>6, <1>8, <2>2
    <3>2. number(w) <= number(y)
      BY <1>4, <1>6, <3>1
    <3>3. number(w) = number(y) => Rank[w] <= Rank[y]
      BY <1>5, <1>6, <3>1
    <3>4. Rank[w] # Rank[y]
      BY <1>1, <1>7, <1>8, RankAssumption
    <3>5. /\ number(w) \in Nat /\ number(y) \in Nat
          /\ Rank[w] \in Nat /\ Rank[y] \in Nat
      BY <1>3, <1>7, <1>8
    <3>6. \/ number(w) < number(y)
          \/ number(w) = number(y) /\ Rank[w] < Rank[y]
      BY <3>2, <3>3, <3>4, <3>5
    <3> QED BY <2>2, <3>6 DEF Precedes, number
  <2> QED BY <2>1, <2>2
<1> QED BY <1>7, <1>8 DEF Leads

\* What the statements that observe and elect leave alone.
Kept(e, d) ==
  /\ e.clock = d.clock /\ e.booted = d.booted /\ e.due = d.due
  /\ e.sequence = d.sequence /\ e.rows = d.rows /\ e.pulses = d.pulses

\* Elect decides every task.
LEMMA ElectDecides ==
  ASSUME NEW d \in Database
  PROVE  Elect(d) \in Database /\ Kept(Elect(d), d) /\ Decided(Elect(d))
<1> DEFINE leader(t) ==
             CHOOSE x \in Candidates(d, t) :
               \A y \in Candidates(d, t) \ {x} :
                 Precedes(d.rows[x], x, d.rows[y], y)
           won == [t \in Task |->
                     IF Candidates(d, t) = {} THEN Null ELSE leader(t)]
<1>1. Elect(d) = [d EXCEPT !.winner = won]
  BY DEF Elect, Candidates
<1>2. \A t \in Task : Candidates(d, t) # {} => Leads(d, leader(t), t)
  <2> SUFFICES ASSUME NEW t \in Task, Candidates(d, t) # {}
               PROVE  Leads(d, leader(t), t)
    OBVIOUS
  <2>1. d.rows \in [Attempt -> Row]
    BY DEF Database
  <2>2. \E x \in Candidates(d, t) :
          \A y \in Candidates(d, t) \ {x} :
            Precedes(d.rows[x], x, d.rows[y], y)
    BY <2>1, SomeoneLeads DEF Leads
  <2> QED BY <2>2 DEF Leads
<1> HIDE DEF leader
<1>3. won \in [Task -> Attempt \cup {Null}]
  BY <1>2 DEF Leads, Candidates
<1> HIDE DEF won
<1>4. Elect(d) \in Database /\ Kept(Elect(d), d)
      /\ Elect(d).seen = d.seen /\ Elect(d).winner = won
  BY <1>1, <1>3 DEF Database, Kept
<1>5. \A t \in Task : Candidates(Elect(d), t) = Candidates(d, t)
  BY <1>4 DEF Candidates, Standing, Active, Kept
<1>6. \A t \in Task : \A w : Leads(Elect(d), w, t) <=> Leads(d, w, t)
  BY <1>4, <1>5 DEF Leads, Kept
<1> QED BY <1>2, <1>4, <1>5, <1>6 DEF Decided, won

----------------------------------------------------------------------------
(* The statements of a transaction. *)

\* Times are natural numbers.
LEMMA TimesType ==
  ASSUME timing \in Timings
  PROVE  /\ timing.traversal \in Nat /\ Settle \in Nat /\ Lease \in Nat
         /\ timing.exchanges \subseteq Nat
<1>1. /\ timing.traversal \in Nat /\ timing.missed \in Nat
      /\ timing.exchanges \subseteq Nat
  BY BoundsAssumption
<1>2. Settle \in Nat
  BY <1>1 DEF Settle, SettleTraversals
<1>3. Lease \in Nat
  BY <1>1, <1>2 DEF Lease
<1> QED BY <1>1, <1>2, <1>3

\* Observing starts countdowns only.
LEMMA ObserveKeeps ==
  ASSUME timing \in Timings, NEW d \in Database
  PROVE  Observe(d) \in Database /\ Kept(Observe(d), d)
<1> DEFINE seen == Observe(d).seen
<1>1. seen \in [Attempt -> Observation]
  <2>1. d.seen \in [Attempt -> Observation]
    BY DEF Database
  <2>2. \A x \in Attempt :
          seen[x] = IF Active(d, x) /\ d.seen[x].boot = "none"
                    THEN [boot |-> "current", left |-> Lease, wait |-> Settle,
                          seen |-> -1]
                    ELSE IF Active(d, x) /\ d.seen[x].boot = "stale"
                    THEN [boot |-> "current", left |-> 0, wait |-> Settle,
                          seen |-> -1]
                    ELSE d.seen[x]
    BY DEF Observe, Database
  <2>3. \A x \in Attempt : seen[x] \in Observation
    BY <2>1, <2>2, TimesType DEF Observation
  <2>4. seen = [x \in Attempt |-> seen[x]]
    BY DEF Observe, Database
  <2> QED BY <2>3, <2>4
<1>2. Observe(d) = [d EXCEPT !.seen = seen]
  BY DEF Observe, Database
<1> HIDE DEF seen
<1> QED BY <1>1, <1>2 DEF Database, Kept

\* Heeding pulses renews and ends countdowns only.
LEMMA HeedKeeps ==
  ASSUME timing \in Timings, NEW d \in Database
  PROVE  Heed(d) \in Database /\ Kept(Heed(d), d)
<1> DEFINE seen == Heed(d).seen
<1>1. seen \in [Attempt -> Observation]
  <2>1. /\ d.seen \in [Attempt -> Observation]
        /\ d.pulses \in [Machine -> Pulse]
    BY DEF Database
  <2>2. \A x \in Attempt :
          seen[x] = IF ~Heeded(d, x) THEN d.seen[x]
                    ELSE [d.seen[x] EXCEPT
                            !.seen = d.pulses[Owner[x]].sequence,
                            !.left = IF x \in d.pulses[Owner[x]].attempts
                                     THEN d.pulses[Owner[x]].left ELSE 0]
    BY DEF Heed, Database
  <2>3. \A x \in Attempt : d.pulses[Owner[x]] \in Pulse
    BY <2>1, OwnersAssumption
  <2>4. ASSUME NEW x \in Attempt PROVE seen[x] \in Observation
    <3> DEFINE p == d.pulses[Owner[x]]
               left == IF x \in p.attempts THEN p.left ELSE 0
    <3>1. /\ d.seen[x] \in Observation
          /\ p.sequence \in Nat \cup {-1} /\ left \in 0 .. Lease
      BY <2>1, <2>3, TimesType DEF Pulse
    <3>2. seen[x] = IF ~Heeded(d, x) THEN d.seen[x]
                    ELSE [d.seen[x] EXCEPT !.seen = p.sequence, !.left = left]
      BY <2>2
    <3> HIDE DEF p, left, seen
    <3> QED BY <3>1, <3>2 DEF Observation
  <2>5. seen = [x \in Attempt |-> seen[x]]
    BY DEF Heed, Database
  <2> QED BY <2>4, <2>5
<1>2. Heed(d) = [d EXCEPT !.seen = seen]
  BY DEF Heed, Database
<1> HIDE DEF seen
<1> QED BY <1>1, <1>2 DEF Database, Kept

\* What renewing leases may change: living attempts get their rows, dead ones
\* are released, and one pulse is sent that lists the living ones.
Living(n, run) == {x \in Attempt : Owner[x] = n /\ Alive(run[x])}

AdoptedRow(state) ==
  [known |-> TRUE, ticket |-> 0,
   launched |-> IF state = "reserved" THEN Null ELSE 0,
   released |-> FALSE, after |-> 0]

\* An adopted row is a row.
LEMMA AdoptedIsRow ==
  \A state : /\ AdoptedRow(state) \in Row /\ AdoptedRow(state).known
             /\ AdoptedRow(state).ticket = 0 /\ AdoptedRow(state).after = 0
             /\ ~AdoptedRow(state).released
             /\ AdoptedRow(state).launched =
                  IF state = "reserved" THEN Null ELSE 0
<1> TAKE state
<1> DEFINE number == IF state = "reserved" THEN Null ELSE 0
<1>1. AdoptedRow(state) = [known |-> TRUE, ticket |-> 0, launched |-> number,
                           released |-> FALSE, after |-> 0]
  BY DEF AdoptedRow
<1>2. number \in Nat \cup {Null}
  OBVIOUS
<1> HIDE DEF number
<1>3. /\ AdoptedRow(state) \in Row /\ AdoptedRow(state).known
      /\ AdoptedRow(state).ticket = 0 /\ AdoptedRow(state).after = 0
      /\ ~AdoptedRow(state).released /\ AdoptedRow(state).launched = number
  BY <1>1, <1>2 DEF Row
<1> QED BY <1>3 DEF number

\* Two versions of a row that differ in their release only.
SameLaunch(r, s) ==
  r.known = s.known /\ r.ticket = s.ticket /\ r.launched = s.launched
    /\ r.after = s.after

RowRefreshed(e, d, n, run, x) ==
  \/ e.rows[x] = d.rows[x]
  \/ /\ d.rows[x].known /\ SameLaunch(e.rows[x], d.rows[x])
     /\ d.rows[x].released => e.rows[x].released
     /\ Owner[x] = n /\ run[x] = "dead"
  \/ /\ ~d.rows[x].known /\ d.sequence < e.sequence
     /\ x \in Living(n, run) /\ e.rows[x] = AdoptedRow(run[x])

PulseRefreshed(e, d, n, run, m) ==
  \/ e.pulses[m] = d.pulses[m]
  \/ /\ m = n
     /\ e.pulses[m].attempts = Living(n, run)
     /\ d.sequence < e.pulses[m].sequence
     /\ e.pulses[m].sequence <= e.sequence

Refreshed(e, d, n, run) ==
  /\ e.clock = d.clock
  /\ d.sequence <= e.sequence
  /\ d.sequence < e.sequence => \A x \in Living(n, run) : e.rows[x].known
  /\ \A x \in Attempt : RowRefreshed(e, d, n, run, x)
  /\ \A m \in Machine : PulseRefreshed(e, d, n, run, m)

\* Renewing refreshes.
LEMMA RenewRefreshes ==
  ASSUME timing \in Timings, NEW d \in Database, NEW n \in Machine,
         NEW run \in [Attempt -> Process]
  PROVE  /\ Renew(d, n, run) \in Database
         /\ Refreshed(Renew(d, n, run), d, n, run)
<1>1. CASE d.booted /\ ~d.due
  <2>1. Renew(d, n, run) = d
    BY <1>1 DEF Renew
  <2>2. d.sequence \in Nat
    BY DEF Database
  <2> QED BY <2>1, <2>2
      DEF Refreshed, RowRefreshed, PulseRefreshed
<1>2. CASE ~(d.booted /\ ~d.due)
  <2> DEFINE e == Renew(d, n, run)
             living == Living(n, run)
             dead == {x \in Attempt : Owner[x] = n /\ run[x] = "dead"}
             pulse == [boot |-> "current", sequence |-> d.sequence + 1,
                       attempts |-> living, left |-> Lease]
  <2>1. /\ d.sequence \in Nat /\ d.rows \in [Attempt -> Row]
        /\ d.pulses \in [Machine -> Pulse]
    BY DEF Database
  <2>2. e = [d EXCEPT !.booted = TRUE, !.due = FALSE,
                      !.sequence = d.sequence + 1,
                      !.rows = e.rows,
                      !.pulses = [d.pulses EXCEPT ![n] = pulse]]
    BY <1>2 DEF Renew, Living, Database
  <2>3. living \cap dead = {}
    BY DEF Living, Alive
  <2>4. \A x \in Attempt :
          e.rows[x] =
            IF x \in dead /\ d.rows[x].known
            THEN [d.rows[x] EXCEPT !.released = TRUE]
            ELSE IF x \in living /\ ~d.rows[x].known
            THEN AdoptedRow(run[x])
            ELSE d.rows[x]
    <3> SUFFICES ASSUME NEW x \in Attempt
                 PROVE  e.rows[x] =
                          IF x \in dead /\ d.rows[x].known
                          THEN [d.rows[x] EXCEPT !.released = TRUE]
                          ELSE IF x \in living /\ ~d.rows[x].known
                          THEN AdoptedRow(run[x])
                          ELSE d.rows[x]
      OBVIOUS
    <3>1. e.rows[x] =
            CASE x \in dead /\ d.rows[x].known ->
                   [d.rows[x] EXCEPT !.released = TRUE]
              [] x \in living /\ ~d.rows[x].known ->
                   [NoRow EXCEPT !.known = TRUE,
                      !.launched = IF run[x] = "reserved" THEN Null ELSE 0]
              [] OTHER -> d.rows[x]
      BY <1>2 DEF Renew, Living, Database
    <3>2. [NoRow EXCEPT !.known = TRUE,
             !.launched = IF run[x] = "reserved" THEN Null ELSE 0]
            = AdoptedRow(run[x])
      <4> DEFINE number == IF run[x] = "reserved" THEN Null ELSE 0
      <4>1. AdoptedRow(run[x]) = [known |-> TRUE, ticket |-> 0,
              launched |-> number, released |-> FALSE, after |-> 0]
        BY DEF AdoptedRow
      <4> HIDE DEF number
      <4>2. ASSUME NEW r, r = [NoRow EXCEPT !.known = TRUE, !.launched = number]
            PROVE  r = [known |-> TRUE, ticket |-> 0, launched |-> number,
                        released |-> FALSE, after |-> 0]
        BY <4>2 DEF NoRow
      <4> QED BY <4>1, <4>2 DEF number
    <3> QED BY <3>1, <3>2
  <2>5. e.rows = [x \in Attempt |-> e.rows[x]]
    BY <1>2 DEF Renew, Database
  <2>6. \A x \in Attempt : e.rows[x] \in Row
    <3> SUFFICES ASSUME NEW x \in Attempt PROVE e.rows[x] \in Row
      OBVIOUS
    <3>1. AdoptedRow(run[x]) \in Row
      BY AdoptedIsRow
    <3>2. d.rows[x] \in Row /\ [d.rows[x] EXCEPT !.released = TRUE] \in Row
      BY <2>1 DEF Row
    <3> QED BY <2>4, <3>1, <3>2
  <2>7. e.rows \in [Attempt -> Row]
    BY <2>5, <2>6
  <2>8. [d.pulses EXCEPT ![n] = pulse] \in [Machine -> Pulse]
    <3>1. pulse \in Pulse
      BY <2>1, TimesType DEF Pulse, Living
    <3> QED BY <2>1, <3>1
  <2> DEFINE rows == e.rows
             pulses == [d.pulses EXCEPT ![n] = pulse]
  <2>9. \A m \in Machine : pulses[m] = IF m = n THEN pulse ELSE d.pulses[m]
    BY <2>1
  <2> HIDE DEF pulse
  <2>10. \A x \in Attempt :
           \/ rows[x] = d.rows[x]
           \/ /\ d.rows[x].known /\ SameLaunch(rows[x], d.rows[x])
              /\ rows[x].released /\ x \in dead
           \/ ~d.rows[x].known /\ x \in living /\ rows[x] = AdoptedRow(run[x])
    <3> SUFFICES ASSUME NEW x \in Attempt
                 PROVE  \/ rows[x] = d.rows[x]
                        \/ /\ d.rows[x].known
                           /\ SameLaunch(rows[x], d.rows[x])
                           /\ rows[x].released /\ x \in dead
                        \/ /\ ~d.rows[x].known /\ x \in living
                           /\ rows[x] = AdoptedRow(run[x])
      OBVIOUS
    <3> DEFINE r == d.rows[x]
    <3>1. r \in Row
      BY <2>1
    <3>2. /\ SameLaunch([r EXCEPT !.released = TRUE], r)
          /\ [r EXCEPT !.released = TRUE].released
      BY <3>1 DEF SameLaunch, Row
    <3>3. rows[x] = IF x \in dead /\ r.known THEN [r EXCEPT !.released = TRUE]
                    ELSE IF x \in living /\ ~r.known THEN AdoptedRow(run[x])
                    ELSE r
      BY <2>4
    <3> HIDE DEF r, rows
    <3> QED BY <3>2, <3>3 DEF r
  <2>11. \A x \in living : rows[x].known
    <3>1. \A x \in living : x \in Attempt /\ x \notin dead
      BY <2>3 DEF Living
    <3> QED BY <2>4, <3>1, AdoptedIsRow
  <2> HIDE DEF rows, pulses
  <2>12. /\ e \in Database
         /\ e.clock = d.clock /\ e.sequence = d.sequence + 1
         /\ e.rows = rows /\ e.pulses = pulses
    <3>1. e = [d EXCEPT !.booted = TRUE, !.due = FALSE,
                        !.sequence = d.sequence + 1,
                        !.rows = rows, !.pulses = pulses]
      BY <2>2 DEF rows, pulses
    <3>2. rows \in [Attempt -> Row] /\ pulses \in [Machine -> Pulse]
      BY <2>7, <2>8 DEF rows, pulses
    <3>3. d.sequence + 1 \in Nat
      BY <2>1
    <3> DEFINE next == d.sequence + 1
    <3> HIDE DEF e, next
    <3>4. e = [d EXCEPT !.booted = TRUE, !.due = FALSE, !.sequence = next,
                        !.rows = rows, !.pulses = pulses]
      BY <3>1 DEF next
    <3>5. next \in Nat
      BY <3>3 DEF next
    <3>6. e \in Database
      BY <3>2, <3>4, <3>5 DEF Database
    <3>7. /\ e.clock = d.clock /\ e.sequence = next
          /\ e.rows = rows /\ e.pulses = pulses
      BY <3>4 DEF Database
    <3> QED BY <3>6, <3>7 DEF next
  <2> HIDE DEF e
  <2>13. \A x \in Attempt : RowRefreshed(e, d, n, run, x)
    BY <2>1, <2>10, <2>12 DEF RowRefreshed
  <2>14. pulse.attempts = living /\ pulse.sequence = d.sequence + 1
    BY DEF pulse
  <2>15. \A m \in Machine : PulseRefreshed(e, d, n, run, m)
    BY <2>1, <2>9, <2>12, <2>14 DEF PulseRefreshed
  <2>16. Refreshed(e, d, n, run)
    BY <2>1, <2>11, <2>12, <2>13, <2>15 DEF Refreshed
  <2> QED BY <2>12, <2>16 DEF e
<1> QED BY <1>1, <1>2

\* Refreshing twice is refreshing.
LEMMA RefreshedTwice ==
  ASSUME NEW d \in Database, NEW c \in Database, NEW e \in Database,
         NEW n \in Machine, NEW run \in [Attempt -> Process],
         Refreshed(c, d, n, run), Refreshed(e, c, n, run)
  PROVE  Refreshed(e, d, n, run)
<1>1. /\ d.sequence \in Nat /\ c.sequence \in Nat /\ e.sequence \in Nat
      /\ d.sequence <= c.sequence /\ c.sequence <= e.sequence
      /\ e.clock = d.clock
  BY DEF Database, Refreshed
<1>2. ASSUME NEW x \in Attempt PROVE RowRefreshed(e, d, n, run, x)
  <2>1. RowRefreshed(c, d, n, run, x) /\ RowRefreshed(e, c, n, run, x)
    BY DEF Refreshed
  <2>2. CASE c.rows[x] = d.rows[x]
    BY <1>1, <2>1, <2>2 DEF RowRefreshed
  <2>3. CASE /\ d.rows[x].known /\ SameLaunch(c.rows[x], d.rows[x])
             /\ d.rows[x].released => c.rows[x].released
             /\ Owner[x] = n /\ run[x] = "dead"
    BY <2>1, <2>3 DEF RowRefreshed, SameLaunch
  <2>4. CASE /\ ~d.rows[x].known /\ d.sequence < c.sequence
             /\ x \in Living(n, run) /\ c.rows[x] = AdoptedRow(run[x])
    <3>1. c.rows[x].known /\ run[x] # "dead"
      BY <2>4 DEF AdoptedRow, Living, Alive
    <3>2. e.rows[x] = c.rows[x]
      BY <2>1, <3>1 DEF RowRefreshed
    <3> QED BY <1>1, <2>4, <3>2 DEF RowRefreshed
  <2> QED BY <2>1, <2>2, <2>3, <2>4 DEF RowRefreshed
<1>3. ASSUME NEW m \in Machine PROVE PulseRefreshed(e, d, n, run, m)
  <2>1. PulseRefreshed(c, d, n, run, m) /\ PulseRefreshed(e, c, n, run, m)
    BY DEF Refreshed
  <2>2. e.pulses[m].sequence \in Int /\ c.pulses[m].sequence \in Int
    BY DEF Database, Pulse
  <2> QED BY <1>1, <2>1, <2>2 DEF PulseRefreshed
<1>4. ASSUME d.sequence < e.sequence, NEW x \in Living(n, run)
      PROVE  e.rows[x].known
  <2>1. CASE c.sequence < e.sequence
    BY <2>1 DEF Refreshed
  <2>2. CASE ~(c.sequence < e.sequence)
    <3>1. d.sequence < c.sequence
      BY <1>1, <1>4, <2>2
    <3>2. c.rows[x].known /\ x \in Attempt
      BY <3>1 DEF Refreshed, Living
    <3>3. RowRefreshed(e, c, n, run, x)
      BY <3>2 DEF Refreshed
    <3> QED BY <3>2, <3>3 DEF RowRefreshed, SameLaunch
  <2> QED BY <2>1, <2>2
<1> QED BY <1>1, <1>2, <1>3, <1>4 DEF Refreshed

\* Reconciling refreshes and decides.
LEMMA ReconcileRefreshes ==
  ASSUME timing \in Timings, NEW d \in Database, NEW n \in Machine,
         NEW run \in [Attempt -> Process]
  PROVE  /\ Reconcile(d, n, run) \in Database
         /\ Refreshed(Reconcile(d, n, run), d, n, run)
         /\ Decided(Reconcile(d, n, run))
<1> DEFINE expired ==
             \E x \in Attempt :
               /\ Owner[x] = n /\ Active(d, x) /\ Unfinished(run[x])
               /\ \/ d.seen[x].boot = "stale"
                  \/ d.seen[x].boot = "current" /\ d.seen[x].left = 0
           c == IF expired THEN Renew(d, n, run) ELSE d
           e == Reconcile(d, n, run)
<1>1. e = Elect(Heed(Observe(c)))
  BY DEF Reconcile
<1>2. c \in Database /\ Refreshed(c, d, n, run)
  <2>1. d.sequence \in Nat
    BY DEF Database
  <2>2. Refreshed(d, d, n, run)
    BY <2>1 DEF Refreshed, RowRefreshed, PulseRefreshed
  <2> QED BY <2>2, RenewRefreshes
<1> HIDE DEF c, e
<1>3. Observe(c) \in Database /\ Kept(Observe(c), c)
  BY <1>2, ObserveKeeps
<1>4. Heed(Observe(c)) \in Database /\ Kept(Heed(Observe(c)), Observe(c))
  BY <1>3, HeedKeeps
<1>5. /\ e \in Database /\ Decided(e)
      /\ Kept(e, Heed(Observe(c)))
  BY <1>1, <1>4, ElectDecides
<1>6. Kept(e, c)
  BY <1>3, <1>4, <1>5 DEF Kept
<1>7. Refreshed(e, d, n, run)
  BY <1>2, <1>6 DEF Kept, Refreshed, RowRefreshed, PulseRefreshed
<1> QED BY <1>5, <1>7 DEF e

----------------------------------------------------------------------------
(* The invariant survives the statements that refresh a database. *)

\* The types of a database's parts.
LEMMA Parts ==
  ASSUME NEW d \in Database
  PROVE  /\ d.clock \in Nat /\ d.sequence \in Nat
         /\ \A x \in Attempt : d.rows[x] \in Row
         /\ \A x \in Attempt : /\ d.rows[x].ticket \in Nat
                               /\ d.rows[x].launched \in Nat \cup {Null}
                               /\ d.rows[x].after \in Nat
         /\ \A m \in Machine : d.pulses[m].sequence \in Int
  BY DEF Database, Row, Pulse

\* Only the rows of attempts of this machine are refreshed.
LEMMA RefreshKeeps ==
  ASSUME NEW b \in [Machine -> Database], NEW n \in Machine,
         NEW run \in [Attempt -> Process], Good(b, run),
         NEW e \in Database, Refreshed(e, b[n], n, run)
  PROVE  Good([b EXCEPT ![n] = e], run)
<1> DEFINE c == [b EXCEPT ![n] = e]
<1>1. /\ c \in [Machine -> Database]
      /\ \A m \in Machine : c[m] = IF m = n THEN e ELSE b[m]
      /\ \A m \in Machine : b[m] \in Database /\ c[m] \in Database
  OBVIOUS
<1>2. \A x \in Attempt : Owner[x] \in Machine
  BY OwnersAssumption
<1> HIDE DEF c
<1>3. \A m \in Machine, x \in Attempt :
        m # Owner[x] => c[m].rows[x] = b[m].rows[x]
  <2>1. \A x \in Attempt : Owner[x] # n => e.rows[x] = b[n].rows[x]
    BY DEF Refreshed, RowRefreshed, Living
  <2> QED BY <1>1, <2>1
<1>4. \A x \in Attempt :
        \/ OwnRow(c, x) = OwnRow(b, x)
        \/ /\ OwnRow(b, x).known /\ SameLaunch(OwnRow(c, x), OwnRow(b, x))
           /\ run[x] = "dead"
        \/ /\ ~OwnRow(b, x).known /\ Alive(run[x]) /\ Owner[x] = n
           /\ OwnRow(c, x) = AdoptedRow(run[x])
  BY <1>1, <1>2 DEF OwnRow, Refreshed, RowRefreshed, Living
<1>5. /\ \A m \in Machine : c[m].clock = b[m].clock
      /\ \A m \in Machine : b[m].sequence <= c[m].sequence
      /\ \A m \in Machine : b[m].sequence \in Nat /\ c[m].sequence \in Nat
  BY <1>1, Parts DEF Refreshed
<1>6. \A m, k \in Machine :
        \/ c[m].pulses[k] = b[m].pulses[k]
        \/ /\ m = n /\ k = n
           /\ c[m].pulses[k].attempts = Living(n, run)
           /\ b[n].sequence < c[m].pulses[k].sequence
           /\ c[m].pulses[k].sequence <= c[n].sequence
  BY <1>1 DEF Refreshed, PulseRefreshed
<1>7. Unborn(c, run)
  BY <1>4 DEF Good, Unborn, Alive
<1>8. Adoptable(c, run)
  <2> SUFFICES ASSUME NEW x \in Attempt, Alive(run[x]), ~OwnRow(c, x).known
               PROVE  x \in Legacy /\ c[Owner[x]].sequence = 0
    BY DEF Adoptable
  <2>1. OwnRow(c, x) = OwnRow(b, x)
    BY <1>4, AdoptedIsRow DEF Alive
  <2>2. x \in Legacy /\ b[Owner[x]].sequence = 0
    BY <2>1 DEF Good, Adoptable
  <2>3. c[Owner[x]].sequence = b[Owner[x]].sequence
    <3>1. CASE Owner[x] = n
      <4>1. ~e.rows[x].known /\ x \in Living(n, run)
        BY <1>1, <3>1 DEF OwnRow, Living
      <4>2. ~(b[n].sequence < e.sequence)
        BY <4>1 DEF Refreshed
      <4> QED BY <1>1, <1>5, <3>1, <4>2
    <3>2. CASE Owner[x] # n
      BY <1>1, <1>2, <3>2
    <3> QED BY <3>1, <3>2
  <2> QED BY <2>2, <2>3
<1>9. Truthful(c, run)
  <2> SUFFICES ASSUME NEW x \in Attempt
               PROVE  /\ run[x] = "reserved" => OwnRow(c, x).launched = Null
                      /\ run[x] = "running" /\ OwnRow(c, x).known =>
                           OwnRow(c, x).launched # Null /\ ~OwnRow(c, x).released
    BY DEF Truthful
  <2>1. CASE OwnRow(c, x) = OwnRow(b, x)
    BY <2>1 DEF Good, Truthful
  <2>2. CASE run[x] = "dead"
    BY <2>2
  <2>3. CASE OwnRow(c, x) = AdoptedRow(run[x])
    <3>1. 0 # Null
      BY OwnersAssumption
    <3> QED BY <2>3, <3>1, AdoptedIsRow
  <2> QED BY <1>4, <2>1, <2>2, <2>3
<1>10. Copied(c)
  <2> SUFFICES ASSUME NEW m \in Machine, NEW x \in Attempt, c[m].rows[x].known
               PROVE  LET r == c[m].rows[x]
                          s == OwnRow(c, x)
                      IN /\ s.known /\ r.ticket = s.ticket /\ r.after = s.after
                         /\ r.launched # Null => r.launched = s.launched
    BY DEF Copied
  <2>1. CASE m = Owner[x]
    BY <2>1 DEF OwnRow
  <2>2. CASE m # Owner[x]
    <3>1. c[m].rows[x] = b[m].rows[x]
      BY <1>3, <2>2
    <3>2. LET r == b[m].rows[x]
              s == OwnRow(b, x)
          IN /\ s.known /\ r.ticket = s.ticket /\ r.after = s.after
             /\ r.launched # Null => r.launched = s.launched
      BY <3>1 DEF Good, Copied
    <3>3. OwnRow(c, x) = OwnRow(b, x) \/ SameLaunch(OwnRow(c, x), OwnRow(b, x))
      BY <1>4, <3>2
    <3> QED BY <3>1, <3>2, <3>3 DEF SameLaunch
  <2> QED BY <2>1, <2>2
<1>11. Numbered(c)
  <2> SUFFICES ASSUME NEW m \in Machine, NEW k \in Machine,
                      c[m].pulses[k].boot # "none"
               PROVE  /\ 1 <= c[m].pulses[k].sequence
                      /\ c[m].pulses[k].sequence <= c[k].sequence
    BY DEF Numbered
  <2>1. c[m].pulses[k].sequence \in Int
    BY <1>1, Parts
  <2>2. CASE c[m].pulses[k] = b[m].pulses[k]
    <3>1. /\ 1 <= b[m].pulses[k].sequence
          /\ b[m].pulses[k].sequence <= b[k].sequence
      BY <2>2 DEF Good, Numbered
    <3> QED BY <1>5, <2>1, <2>2, <3>1
  <2>3. CASE c[m].pulses[k] # b[m].pulses[k]
    BY <1>5, <1>6, <2>1, <2>3
  <2> QED BY <2>2, <2>3
<1>12. Judged(c, run)
  <2> SUFFICES ASSUME NEW m \in Machine, NEW x \in Attempt,
                      c[m].pulses[Owner[x]].boot # "none",
                      OwnRow(c, x).known,
                      c[m].pulses[Owner[x]].sequence >= OwnRow(c, x).after,
                      x \notin c[m].pulses[Owner[x]].attempts,
                      Alive(run[x])
               PROVE  FALSE
    BY DEF Judged
  <2>1. c[m].pulses[Owner[x]] = b[m].pulses[Owner[x]]
    <3>1. Owner[x] = n => x \in Living(n, run)
      BY DEF Living
    <3> QED BY <1>2, <1>6, <3>1
  <2>2. ~OwnRow(b, x).known
    <3>1. OwnRow(b, x).known => OwnRow(c, x) = OwnRow(b, x)
      BY <1>4 DEF Alive
    <3> QED BY <2>1, <3>1 DEF Good, Judged
  <2>3. b[Owner[x]].sequence = 0
    BY <2>2 DEF Good, Adoptable
  <2>4. /\ 1 <= b[m].pulses[Owner[x]].sequence
        /\ b[m].pulses[Owner[x]].sequence <= b[Owner[x]].sequence
    BY <1>2, <2>1 DEF Good, Numbered
  <2>5. b[m].pulses[Owner[x]].sequence \in Int
    BY <1>1, <1>2, Parts
  <2> QED BY <2>3, <2>4, <2>5
<1>13. Clocked(c)
  <2> SUFFICES ASSUME NEW m \in Machine, NEW x \in Attempt, c[m].rows[x].known
               PROVE  LET r == c[m].rows[x]
                      IN /\ r.ticket <= b[m].clock
                         /\ r.launched # Null => r.launched <= b[m].clock
    BY <1>5 DEF Clocked
  <2>1. b[m].rows[x].known =>
          LET r == b[m].rows[x]
          IN /\ r.ticket <= b[m].clock
             /\ r.launched # Null => r.launched <= b[m].clock
    BY DEF Good, Clocked
  <2>2. CASE c[m].rows[x] = b[m].rows[x]
    BY <2>1, <2>2
  <2>3. CASE b[m].rows[x].known /\ SameLaunch(c[m].rows[x], b[m].rows[x])
    BY <2>1, <2>3 DEF SameLaunch
  <2>4. CASE c[m].rows[x] = AdoptedRow(run[x])
    <3>1. b[m].clock \in Nat
      BY <1>1, Parts
    <3> QED BY <2>4, <3>1, AdoptedIsRow
  <2> QED BY <1>3, <1>4, <2>2, <2>3, <2>4 DEF OwnRow
<1> QED BY <1>7, <1>8, <1>9, <1>10, <1>11, <1>12, <1>13 DEF Good, c

\* A decided database fences every running attempt of its machine.
LEMMA DecidedFences ==
  ASSUME NEW e \in Database, Decided(e), NEW x \in Attempt,
         e.rows[x].known, ~e.rows[x].released, e.rows[x].launched # Null
  PROVE  LET w == e.winner[TaskOf[x]]
         IN w = x \/ (w \in Attempt /\ Active(e, w) /\ Displaces(e, w, x))
<1> DEFINE t == TaskOf[x]
           w == e.winner[t]
<1>1. t \in Task
  BY OwnersAssumption
<1>2. x \in Candidates(e, t)
  BY DEF Candidates, Standing, Active
<1>3. Leads(e, w, t)
  BY <1>1, <1>2 DEF Decided
<1>4. CASE w # x
  <2>1. /\ w \in Attempt /\ TaskOf[w] = TaskOf[x] /\ Active(e, w)
        /\ Precedes(e.rows[w], w, e.rows[x], x)
    BY <1>2, <1>3, <1>4 DEF Leads, Candidates, Standing
  <2>2. e.rows[w].launched # Null
    BY <2>1 DEF Precedes
  <2> QED BY <2>1, <2>2 DEF Displaces, Active
<1> QED BY <1>4

\* A transaction that ends with a refresh and an election keeps the invariant.
LEMMA CommitKeeps ==
  ASSUME IInv, NEW n \in Machine, NEW d \in Database, NEW e \in Database,
         NEW run \in [Attempt -> Process],
         Good([db EXCEPT ![n] = d], run),
         Refreshed(e, d, n, run), Decided(e),
         \A x \in Attempt :
           run[x] = "running" /\ Owner[x] # n => proc[x] = "running"
  PROVE  LET c == [db EXCEPT ![n] = e]
         IN c \in [Machine -> Database] /\ Good(c, run) /\ Fenced(c, run)
<1> DEFINE b == [db EXCEPT ![n] = d]
           c == [db EXCEPT ![n] = e]
<1>1. db \in [Machine -> Database]
  BY DEF IInv, TypeOK
<1>2. /\ b \in [Machine -> Database] /\ b[n] = d
      /\ c \in [Machine -> Database] /\ c = [b EXCEPT ![n] = e]
      /\ \A m \in Machine : c[m] = IF m = n THEN e ELSE db[m]
  BY <1>1
<1> HIDE DEF b, c
<1>3. Good(c, run)
  <2>1. Good(b, run)
    BY DEF b
  <2> QED BY <1>2, <2>1, RefreshKeeps
<1>4. Fenced(c, run)
  <2> SUFFICES ASSUME NEW x \in Attempt, run[x] = "running", OwnRow(c, x).known
               PROVE  LET w == c[Owner[x]].winner[TaskOf[x]]
                      IN w = x \/ (w \in Attempt /\ Displaces(c[Owner[x]], w, x))
    BY DEF Fenced
  <2>1. Owner[x] \in Machine
    BY OwnersAssumption
  <2>2. CASE Owner[x] = n
    <3>1. e.rows[x].known /\ ~e.rows[x].released /\ e.rows[x].launched # Null
      BY <1>2, <1>3, <2>2 DEF Good, Truthful, OwnRow
    <3> QED BY <1>2, <2>2, <3>1, DecidedFences
  <2>3. CASE Owner[x] # n
    <3>1. c[Owner[x]] = db[Owner[x]] /\ proc[x] = "running"
      BY <1>2, <2>1, <2>3
    <3> QED BY <3>1 DEF IInv, Fenced, OwnRow
  <2> QED BY <2>2, <2>3
<1> QED BY <1>2, <1>3, <1>4 DEF c

\* Attempts that stop, die or finish.
Quieter(after, before) ==
  \A x \in Attempt :
    \/ after[x] = before[x]
    \/ /\ before[x] # "none"
       /\ after[x] \in {"stopping", "dead", "done"}
       /\ Alive(after[x]) => Alive(before[x])

\* They keep the invariant.
LEMMA QuietKeeps ==
  ASSUME NEW b, NEW before \in [Attempt -> Process],
         NEW after \in [Attempt -> Process], Quieter(after, before),
         Good(b, before)
  PROVE  /\ Good(b, after)
         /\ Fenced(b, before) => Fenced(b, after)
<1>1. \A x \in Attempt :
        /\ Alive(after[x]) => Alive(before[x])
        /\ after[x] = "none" => before[x] = "none"
        /\ after[x] = "running" => before[x] = "running"
        /\ after[x] = "reserved" => before[x] = "reserved"
  BY DEF Quieter
<1>2. Good(b, after)
  BY <1>1 DEF Good, Unborn, Adoptable, Truthful, Judged
<1>3. Fenced(b, before) => Fenced(b, after)
  BY <1>1 DEF Fenced
<1> QED BY <1>2, <1>3

\* What a step other than an exchange or an election leaves of the databases.
Quiet(c, b) ==
  /\ \A n \in Machine :
       /\ c[n].clock = b[n].clock /\ c[n].sequence = b[n].sequence
       /\ c[n].rows = b[n].rows /\ c[n].winner = b[n].winner
  /\ \A n, m \in Machine :
       /\ c[n].pulses[m].boot # "none" => b[n].pulses[m].boot # "none"
       /\ c[n].pulses[m].sequence = b[n].pulses[m].sequence
       /\ c[n].pulses[m].attempts = b[n].pulses[m].attempts

\* It keeps the invariant.
LEMMA QuietDatabases ==
  ASSUME NEW b, NEW c, NEW run, Quiet(c, b), Good(b, run), Fenced(b, run)
  PROVE  Good(c, run) /\ Fenced(c, run)
<1>1. /\ \A x \in Attempt : Owner[x] \in Machine
      /\ \A x \in Attempt : OwnRow(c, x) = OwnRow(b, x)
  BY OwnersAssumption DEF Quiet, OwnRow
<1>2. Unborn(c, run) /\ Truthful(c, run)
  BY <1>1 DEF Good, Unborn, Truthful
<1>3. Adoptable(c, run)
  BY <1>1 DEF Good, Adoptable, Quiet
<1>4. Copied(c)
  BY <1>1 DEF Good, Copied, Quiet
<1>5. Numbered(c)
  BY DEF Good, Numbered, Quiet
<1>6. Judged(c, run)
  BY <1>1 DEF Good, Judged, Quiet
<1>7. Clocked(c)
  BY DEF Good, Clocked, Quiet
<1>8. Fenced(c, run)
  <2> SUFFICES ASSUME NEW x \in Attempt, run[x] = "running", OwnRow(c, x).known
               PROVE  LET w == c[Owner[x]].winner[TaskOf[x]]
                      IN w = x \/ (w \in Attempt /\ Displaces(c[Owner[x]], w, x))
    BY DEF Fenced
  <2> DEFINE o == Owner[x]
             w == b[o].winner[TaskOf[x]]
  <2>1. c[o].rows = b[o].rows /\ c[o].winner = b[o].winner
    BY <1>1 DEF Quiet
  <2>2. w = x \/ (w \in Attempt /\ Displaces(b[o], w, x))
    BY <1>1 DEF Fenced
  <2>3. Displaces(c[o], w, x) <=> Displaces(b[o], w, x)
    BY <2>1 DEF Displaces
  <2> HIDE DEF o
  <2> QED BY <2>1, <2>2, <2>3 DEF o
<1> QED BY <1>2, <1>3, <1>4, <1>5, <1>6, <1>7, <1>8 DEF Good

----------------------------------------------------------------------------
(* Every step keeps the invariant. *)

\* The types of the variables that the invariant refers to.
LEMMA Types ==
  ASSUME IInv
  PROVE  /\ timing \in Timings
         /\ db \in [Machine -> Database]
         /\ \A n \in Machine : db[n] \in Database
         /\ proc \in [Attempt -> Process]
         /\ lag \in [Machine -> [Attempt -> 0 .. timing.traversal]]
         /\ failures \in 0 .. MaxFailures
         /\ Good(db, proc) /\ Fenced(db, proc)
         /\ \A x \in Attempt : Owner[x] \in Machine
  BY OwnersAssumption DEF IInv, TypeOK, Process

\* What is left to show of a step.
LEMMA TypeParts ==
  ASSUME IInv, db' \in [Machine -> Database], proc' \in [Attempt -> Process],
         UNCHANGED timing,
         lag' \in [Machine -> [Attempt -> 0 .. timing.traversal]],
         failures' \in 0 .. MaxFailures,
         Good(db', proc'), Fenced(db', proc')
  PROVE  IInv'
<1>1. TypeOK'
  <2>1. timing' = timing /\ timing' \in Timings
    BY DEF IInv, TypeOK
  <2>2. lag' \in [Machine -> [Attempt -> 0 .. timing'.traversal]]
    BY <2>1
  <2>3. proc' \in [Attempt -> {"none", "reserved", "running", "stopping",
                              "dead", "done"}]
    BY DEF Process
  <2>4. Database' = Database
    BY <2>1 DEF Database, Observation, Pulse, Lease, Settle
  <2> QED BY <2>1, <2>2, <2>3, <2>4 DEF TypeOK
<1> QED BY <1>1 DEF IInv, Good, Unborn, Adoptable, Truthful, Copied, Numbered,
     Judged, Clocked, Fenced, OwnRow, Displaces

\* A database whose entry is replaced by itself stays the same.
LEMMA Itself ==
  ASSUME NEW b \in [Machine -> Database], NEW n \in Machine
  PROVE  [b EXCEPT ![n] = b[n]] = b
  OBVIOUS

\* After a transaction its machine has decided and launched nothing itself.
Settles(n) ==
  /\ Decided(db'[n])
  /\ \A x \in Attempt :
       Owner[x] = n /\ x \notin Legacy /\ Launched(db'[n], x) => Launched(db[n], x)

\* What precedes the reconciliation launches nothing.
KeepsLaunches(d, n, run) ==
  \A x \in Attempt :
    Owner[x] = n =>
      \/ d.rows[x] = db[n].rows[x] /\ run[x] = proc[x]
      \/ d.rows[x].known /\ d.rows[x].launched = Null

\* Refreshing launches attempts that predate reservations only.
LEMMA RefreshSettles ==
  ASSUME IInv, NEW n \in Machine, NEW d \in Database, NEW e \in Database,
         NEW run \in [Attempt -> Process], Refreshed(e, d, n, run), Decided(e),
         db' = [db EXCEPT ![n] = e],
         KeepsLaunches(d, n, run)
  PROVE  Settles(n)
<1>1. db'[n] = e
  BY Types
<1>2. ASSUME NEW x \in Attempt, Owner[x] = n, x \notin Legacy, Launched(e, x)
      PROVE  Launched(db[n], x)
  <2>1. RowRefreshed(e, d, n, run, x)
    BY DEF Refreshed
  <2>2. CASE d.rows[x] = db[n].rows[x] /\ run[x] = proc[x]
    <3>1. ~d.rows[x].known => ~Alive(run[x])
      BY <1>2, <2>2, Types DEF Good, Adoptable, OwnRow
    <3>2. d.rows[x].known /\ ~d.rows[x].released /\ d.rows[x].launched # Null
      BY <1>2, <2>1, <3>1 DEF RowRefreshed, SameLaunch, Living, Launched, Active
    <3> QED BY <2>2, <3>2 DEF Launched, Active
  <2>3. CASE d.rows[x].known /\ d.rows[x].launched = Null
    BY <1>2, <2>1, <2>3 DEF RowRefreshed, SameLaunch, Launched
  <2> QED BY <1>2, <2>2, <2>3 DEF KeepsLaunches
<1> QED BY <1>1, <1>2 DEF Settles

\* maintain
LEMMA MaintainStep ==
  ASSUME IInv, NEW n \in Machine, Maintain(n)
  PROVE  IInv' /\ Settles(n)
<1> DEFINE d == Renew(db[n], n, proc)
           e == Reconcile(d, n, proc)
<1>1. db' = [db EXCEPT ![n] = e] /\ UNCHANGED <<timing, proc, lag, failures>>
  BY DEF Maintain
<1>2. d \in Database /\ Refreshed(d, db[n], n, proc)
  BY Types, RenewRefreshes
<1>3. e \in Database /\ Refreshed(e, d, n, proc) /\ Decided(e)
  BY <1>2, Types, ReconcileRefreshes
<1> HIDE DEF d, e
<1>4. Good([db EXCEPT ![n] = d], proc)
  BY <1>2, Types, RefreshKeeps
<1>5. LET c == [db EXCEPT ![n] = e]
      IN c \in [Machine -> Database] /\ Good(c, proc) /\ Fenced(c, proc)
  BY <1>2, <1>3, <1>4, Types, CommitKeeps
<1>6. Refreshed(e, db[n], n, proc)
  BY <1>2, <1>3, Types, RefreshedTwice
<1>7. Settles(n)
  BY <1>1, <1>3, <1>6, Types, RefreshSettles DEF KeepsLaunches
<1> QED BY <1>7, <1>1, <1>5, Types, TypeParts

\* Picking up: the new row is judged by later pulses only.
LEMMA ReserveStep ==
  ASSUME IInv, NEW n \in Machine, NEW x \in Attempt, Reserve(n, x)
  PROVE  IInv' /\ Settles(n)
<1> DEFINE row == Reservation(db[n])
           d == [db[n] EXCEPT !.clock = @ + 1, !.rows[x] = row]
           e == Reconcile(d, n, proc')
           b == [db EXCEPT ![n] = d]
<1>1. /\ proc[x] = "none" /\ Owner[x] = n
      /\ proc' = [proc EXCEPT ![x] = "reserved"]
      /\ db' = [db EXCEPT ![n] = e]
      /\ UNCHANGED <<timing, lag, failures>>
  BY DEF Reserve
<1>2. /\ proc' \in [Attempt -> Process]
      /\ proc'[x] = "reserved"
      /\ \A y \in Attempt : y # x => proc'[y] = proc[y]
  BY <1>1, Types DEF Process
<1>3. /\ row \in Row /\ row.known /\ row.launched = Null /\ ~row.released
      /\ row.ticket = db[n].clock + 1 /\ row.after = db[n].sequence + 1
  BY Types, Parts DEF Reservation, Row
<1> HIDE DEF row
<1>4. /\ d \in Database
      /\ d.clock = db[n].clock + 1 /\ d.sequence = db[n].sequence
      /\ d.pulses = db[n].pulses
      /\ \A y \in Attempt : d.rows[y] = IF y = x THEN row ELSE db[n].rows[y]
  <2> DEFINE clock == db[n].clock + 1
             rows == [db[n].rows EXCEPT ![x] = row]
  <2>1. d = [db[n] EXCEPT !.clock = clock, !.rows = rows]
    OBVIOUS
  <2>2. /\ db[n] \in Database /\ db[n].rows \in [Attempt -> Row]
        /\ clock \in Nat
    BY Types, Parts DEF Database
  <2>3. /\ rows \in [Attempt -> Row]
        /\ \A y \in Attempt : rows[y] = IF y = x THEN row ELSE db[n].rows[y]
    BY <1>3, <2>2
  <2> HIDE DEF d, clock, rows
  <2>4. /\ d \in Database
        /\ d.clock = clock /\ d.sequence = db[n].sequence
        /\ d.pulses = db[n].pulses /\ d.rows = rows
    BY <2>1, <2>2, <2>3 DEF Database
  <2> QED BY <2>3, <2>4 DEF clock
<1>5. e \in Database /\ Refreshed(e, d, n, proc') /\ Decided(e)
  BY <1>2, <1>4, Types, ReconcileRefreshes
<1> HIDE DEF d, e
<1>6. \A m \in Machine : b[m] = IF m = n THEN d ELSE db[m]
  BY Types
<1> HIDE DEF b
<1>7. /\ \A m \in Machine : b[m].pulses = db[m].pulses
      /\ \A m \in Machine : b[m].sequence = db[m].sequence
      /\ \A m \in Machine : b[m].clock \in Nat /\ db[m].clock \in Nat
      /\ \A m \in Machine : db[m].clock <= b[m].clock
      /\ \A m \in Machine, y \in Attempt :
           ~(m = n /\ y = x) => b[m].rows[y] = db[m].rows[y]
      /\ b[n].rows[x] = row
  <2>1. \A m \in Machine : db[m].clock \in Nat
    BY Types, Parts
  <2>2. db[n].clock <= d.clock /\ d.clock \in Nat
    BY <1>4, <2>1
  <2> QED BY <1>4, <1>6, <2>1, <2>2
<1>8. /\ OwnRow(b, x) = row
      /\ \A y \in Attempt : y # x => OwnRow(b, y) = OwnRow(db, y)
  BY <1>1, <1>7, Types DEF OwnRow
<1>9. ~OwnRow(db, x).known
  BY <1>1, Types DEF Good, Unborn
<1>10. Good(b, proc')
  <2>1. Unborn(b, proc')
    BY <1>2, <1>8, Types DEF Good, Unborn
  <2>2. Adoptable(b, proc')
    BY <1>2, <1>3, <1>7, <1>8, Types DEF Good, Adoptable
  <2>3. Truthful(b, proc')
    BY <1>2, <1>3, <1>8, Types DEF Good, Truthful
  <2>4. Copied(b)
    <3> SUFFICES ASSUME NEW m \in Machine, NEW y \in Attempt, b[m].rows[y].known
                 PROVE  LET r == b[m].rows[y]
                            s == OwnRow(b, y)
                        IN /\ s.known /\ r.ticket = s.ticket
                           /\ r.after = s.after
                           /\ r.launched # Null => r.launched = s.launched
      BY DEF Copied
    <3>1. CASE m = n /\ y = x
      BY <1>3, <1>7, <1>8, <3>1
    <3>2. CASE ~(m = n /\ y = x)
      <4>1. b[m].rows[y] = db[m].rows[y]
        BY <1>7, <3>2
      <4>2. y # x
        BY <4>1, <1>9, Types DEF Good, Copied
      <4> QED BY <4>1, <4>2, <1>8, Types DEF Good, Copied
    <3> QED BY <3>1, <3>2
  <2>5. Numbered(b)
    BY <1>7, Types DEF Good, Numbered
  <2>6. Judged(b, proc')
    <3> SUFFICES ASSUME NEW m \in Machine, NEW y \in Attempt,
                        b[m].pulses[Owner[y]].boot # "none",
                        OwnRow(b, y).known,
                        b[m].pulses[Owner[y]].sequence >= OwnRow(b, y).after,
                        y \notin b[m].pulses[Owner[y]].attempts
                 PROVE  ~Alive(proc'[y])
      BY DEF Judged
    <3>1. CASE y = x
      <4>1. /\ db[m].pulses[n].sequence >= db[n].sequence + 1
            /\ db[m].pulses[n].boot # "none"
        BY <1>1, <1>3, <1>7, <1>8, <3>1
      <4>2. db[m].pulses[n].sequence <= db[n].sequence
        BY <4>1, Types DEF Good, Numbered
      <4>3. db[m].pulses[n].sequence \in Int /\ db[n].sequence \in Nat
        BY Types, Parts
      <4> QED BY <4>1, <4>2, <4>3
    <3>2. CASE y # x
      BY <1>2, <1>7, <1>8, <3>2, Types DEF Good, Judged
    <3> QED BY <3>1, <3>2
  <2>7. Clocked(b)
    <3> SUFFICES ASSUME NEW m \in Machine, NEW y \in Attempt, b[m].rows[y].known
                 PROVE  LET r == b[m].rows[y]
                        IN /\ r.ticket <= b[m].clock
                           /\ r.launched # Null => r.launched <= b[m].clock
      BY DEF Clocked
    <3>1. CASE m = n /\ y = x
      BY <1>3, <1>4, <1>6, <1>7, <3>1
    <3>2. CASE ~(m = n /\ y = x)
      <4> DEFINE r == b[m].rows[y]
      <4>1. /\ r = db[m].rows[y]
            /\ r.ticket <= db[m].clock
            /\ r.launched # Null => r.launched <= db[m].clock
        BY <1>7, <3>2, Types DEF Good, Clocked
      <4>2. r.ticket \in Nat /\ r.launched \in Nat \cup {Null}
        BY <4>1, Types, Parts
      <4> HIDE DEF r
      <4>3. /\ r.ticket <= b[m].clock
            /\ r.launched # Null => r.launched <= b[m].clock
        BY <1>7, <4>1, <4>2
      <4> QED BY <4>3 DEF r
    <3> QED BY <3>1, <3>2
  <2> QED BY <2>1, <2>2, <2>3, <2>4, <2>5, <2>6, <2>7 DEF Good
<1>11. \A y \in Attempt :
         proc'[y] = "running" /\ Owner[y] # n => proc[y] = "running"
  BY <1>1, <1>2
<1>12. LET c == [db EXCEPT ![n] = e]
       IN c \in [Machine -> Database] /\ Good(c, proc') /\ Fenced(c, proc')
  BY <1>2, <1>4, <1>5, <1>10, <1>11, CommitKeeps DEF b
<1>13. KeepsLaunches(d, n, proc')
  BY <1>2, <1>3, <1>4 DEF KeepsLaunches
<1>14. Settles(n)
  BY <1>1, <1>2, <1>4, <1>5, <1>13, RefreshSettles
<1> QED BY <1>14, <1>1, <1>2, <1>12, Types, TypeParts

\* A transaction that only reconciles.
LEMMA ReconcileKeeps ==
  ASSUME IInv, NEW n \in Machine
  PROVE  LET d == Reconcile(db[n], n, proc)
             c == [db EXCEPT ![n] = d]
         IN /\ d \in Database /\ Refreshed(d, db[n], n, proc) /\ Decided(d)
            /\ c \in [Machine -> Database] /\ Good(c, proc) /\ Fenced(c, proc)
<1> DEFINE d == Reconcile(db[n], n, proc)
<1>1. d \in Database /\ Refreshed(d, db[n], n, proc) /\ Decided(d)
  BY Types, ReconcileRefreshes
<1> HIDE DEF d
<1>2. Good([db EXCEPT ![n] = db[n]], proc)
  BY Types, Itself
<1>3. LET c == [db EXCEPT ![n] = d]
      IN c \in [Machine -> Database] /\ Good(c, proc) /\ Fenced(c, proc)
  BY <1>1, <1>2, Types, CommitKeeps
<1> QED BY <1>1, <1>3 DEF d

\* A worker that asks may have to wait ...
LEMMA LaunchWaitStep ==
  ASSUME IInv, NEW n \in Machine, NEW x \in Attempt, LaunchWait(n, x)
  PROVE  IInv' /\ Settles(n)
<1>1. /\ db' = [db EXCEPT ![n] = Reconcile(db[n], n, proc)]
      /\ UNCHANGED <<timing, proc, lag, failures>>
  BY DEF LaunchWait
<1>2. /\ db' \in [Machine -> Database]
      /\ Good(db', proc) /\ Fenced(db', proc)
  BY <1>1, ReconcileKeeps
<1>3. Settles(n)
  BY <1>1, Types, ReconcileKeeps, RefreshSettles
     DEF KeepsLaunches
<1> QED BY <1>3, <1>1, <1>2, Types, TypeParts

\* ... or to stop ...
LEMMA LaunchRefusedStep ==
  ASSUME IInv, NEW n \in Machine, NEW x \in Attempt, LaunchRefused(n, x)
  PROVE  IInv' /\ Settles(n)
<1>1. /\ proc[x] = "reserved"
      /\ db' = [db EXCEPT ![n] = Reconcile(db[n], n, proc)]
      /\ proc' = [proc EXCEPT ![x] = "stopping"]
      /\ UNCHANGED <<timing, lag, failures>>
  BY DEF LaunchRefused
<1>2. /\ db' \in [Machine -> Database]
      /\ Good(db', proc) /\ Fenced(db', proc)
  BY <1>1, ReconcileKeeps
<1>3. proc' \in [Attempt -> Process] /\ Quieter(proc', proc)
  BY <1>1, Types DEF Quieter, Process, Alive
<1>4. Good(db', proc') /\ Fenced(db', proc')
  BY <1>2, <1>3, Types, QuietKeeps
<1>5. Settles(n)
  BY <1>1, Types, ReconcileKeeps, RefreshSettles
     DEF KeepsLaunches
<1> QED BY <1>5, <1>1, <1>2, <1>3, <1>4, Types, TypeParts

\* check_job
LEMMA CheckJobStep ==
  ASSUME IInv, NEW n \in Machine, NEW x \in Attempt, CheckJob(n, x)
  PROVE  IInv'
<1>1. /\ proc[x] \in {"reserved", "running"}
      /\ proc' = [proc EXCEPT ![x] = "stopping"]
      /\ UNCHANGED <<timing, db, lag, failures>>
  BY DEF CheckJob
<1>2. proc' \in [Attempt -> Process] /\ Quieter(proc', proc)
  BY <1>1, Types DEF Quieter, Process, Alive
<1>3. Good(db, proc') /\ Fenced(db, proc')
  BY <1>2, Types, QuietKeeps
<1> QED BY <1>1, <1>2, <1>3, Types, TypeParts

\* A worker dies.
LEMMA CrashStep ==
  ASSUME IInv, NEW n \in Machine, NEW x \in Attempt, Crash(n, x)
  PROVE  IInv'
<1>1. /\ Alive(proc[x]) /\ failures < MaxFailures
      /\ failures' = failures + 1
      /\ proc' = [proc EXCEPT ![x] = "dead"]
      /\ UNCHANGED <<timing, db, lag>>
  BY DEF Crash
<1>2. proc' \in [Attempt -> Process] /\ Quieter(proc', proc)
  BY <1>1, Types DEF Quieter, Process, Alive
<1>3. Good(db, proc') /\ Fenced(db, proc')
  BY <1>2, Types, QuietKeeps
<1>4. failures' \in 0 .. MaxFailures
  BY <1>1, Types, BoundsAssumption
<1> QED BY <1>1, <1>2, <1>3, <1>4, Types, TypeParts

\* After a launch its machine has decided, the launch is numbered after all
\* that the machine knew, and no other attempt of the task is launched.
LaunchFollows(n, x) ==
  /\ Decided(db'[n])
  /\ \A y \in Attempt \ {x} :
       /\ Owner[y] = n /\ y \notin Legacy /\ Launched(db'[n], y) =>
            Launched(db[n], y)
       /\ db[n].rows[y].known =>
            LET r == db'[n].rows[x]
                s == db[n].rows[y]
            IN /\ s.launched # Null => r.launched > s.launched
               /\ r.launched > s.ticket
               /\ ~(TaskOf[x] = TaskOf[y] /\ Launched(db'[n], y))

\* ... or is launched: its number follows everything its machine knows.
LEMMA LaunchStep ==
  ASSUME IInv, NEW n \in Machine, NEW x \in Attempt, Launch(n, x)
  PROVE  IInv' /\ LaunchFollows(n, x)
<1> DEFINE c == Reconcile(db[n], n, proc)
           number == c.clock + 1
           d == [c EXCEPT !.clock = @ + 1, !.rows[x].launched = c.clock + 1]
           e == Reconcile(d, n, proc)
           a == [db EXCEPT ![n] = c]
           b == [db EXCEPT ![n] = d]
<1>1. /\ proc[x] = "reserved" /\ Owner[x] = n /\ Active(c, x)
      /\ proc' = [proc EXCEPT ![x] = "running"]
      /\ db' = [db EXCEPT ![n] = e]
      /\ Owns(c, x) /\ UNCHANGED <<timing, lag, failures>>
  BY DEF Launch
<1>2. /\ c \in Database /\ Refreshed(c, db[n], n, proc) /\ Decided(c)
      /\ a \in [Machine -> Database] /\ Good(a, proc)
  BY ReconcileKeeps
<1> HIDE DEF c
<1>3. /\ proc' \in [Attempt -> Process] /\ proc'[x] = "running"
      /\ \A y \in Attempt : y # x => proc'[y] = proc[y]
  BY <1>1, Types DEF Process
<1>4. /\ number \in Nat /\ number # Null /\ c.clock <= number /\ c.clock \in Nat
      /\ c.rows \in [Attempt -> Row]
  <2>1. c.clock \in Nat
    BY <1>2, Parts
  <2> QED BY <1>2, <2>1, OwnersAssumption DEF Database
<1> HIDE DEF number
<1>5. /\ d \in Database
      /\ d.clock = number /\ d.sequence = c.sequence /\ d.pulses = c.pulses
      /\ \A y \in Attempt : y # x => d.rows[y] = c.rows[y]
      /\ d.rows[x].launched = number /\ d.rows[x].known = c.rows[x].known
      /\ d.rows[x].released = c.rows[x].released
      /\ d.rows[x].ticket = c.rows[x].ticket /\ d.rows[x].after = c.rows[x].after
  <2> DEFINE row == [c.rows[x] EXCEPT !.launched = number]
             rows == [c.rows EXCEPT ![x] = row]
  <2>1. d = [c EXCEPT !.clock = number, !.rows = rows]
    BY DEF number
  <2>2. /\ row \in Row /\ row.launched = number
        /\ row.known = c.rows[x].known /\ row.released = c.rows[x].released
        /\ row.ticket = c.rows[x].ticket /\ row.after = c.rows[x].after
    BY <1>4 DEF Row
  <2> HIDE DEF row
  <2>3. /\ rows \in [Attempt -> Row]
        /\ \A y \in Attempt : rows[y] = IF y = x THEN row ELSE c.rows[y]
    BY <1>4, <2>2
  <2> HIDE DEF d, rows
  <2>4. /\ d \in Database /\ d.clock = number /\ d.rows = rows
        /\ d.sequence = c.sequence /\ d.pulses = c.pulses
    BY <1>2, <1>4, <2>1, <2>3 DEF Database
  <2> QED BY <2>2, <2>3, <2>4
<1>6. e \in Database /\ Refreshed(e, d, n, proc) /\ Decided(e)
  BY <1>5, Types, ReconcileRefreshes
<1> HIDE DEF d, e
<1>7. /\ \A m \in Machine : a[m] = IF m = n THEN c ELSE db[m]
      /\ \A m \in Machine : b[m] = IF m = n THEN d ELSE db[m]
      /\ \A m \in Machine : a[m] \in Database
  BY <1>2, Types
<1> HIDE DEF a, b
<1>8. /\ \A m \in Machine : b[m].pulses = a[m].pulses
      /\ \A m \in Machine : b[m].sequence = a[m].sequence
      /\ \A m \in Machine, y \in Attempt :
           ~(m = n /\ y = x) => b[m].rows[y] = a[m].rows[y]
      /\ \A m \in Machine :
           a[m].clock <= b[m].clock /\ a[m].clock \in Nat /\ b[m].clock \in Nat
      /\ b[n].clock = number
  <2>1. \A m \in Machine : db[m].clock \in Nat
    BY Types, Parts
  <2> QED BY <1>4, <1>5, <1>7, <2>1
<1>9. /\ \A y \in Attempt : y # x => OwnRow(b, y) = OwnRow(a, y)
      /\ OwnRow(b, x) = b[n].rows[x] /\ OwnRow(a, x) = a[n].rows[x]
      /\ OwnRow(b, x).launched = number
      /\ OwnRow(b, x).known = OwnRow(a, x).known
      /\ OwnRow(b, x).ticket = OwnRow(a, x).ticket
      /\ OwnRow(b, x).after = OwnRow(a, x).after
      /\ OwnRow(a, x).known /\ ~OwnRow(b, x).released
  <2>1. Owner[x] = n /\ \A y \in Attempt : Owner[y] \in Machine
    BY <1>1, Types
  <2>2. \A y \in Attempt : y # x => OwnRow(b, y) = OwnRow(a, y)
    BY <1>8, <2>1 DEF OwnRow
  <2>3. OwnRow(b, x) = b[n].rows[x] /\ OwnRow(a, x) = a[n].rows[x]
    BY <2>1 DEF OwnRow
  <2>4. a[n] = c /\ b[n] = d
    BY <1>7
  <2>5. /\ d.rows[x].launched = number
        /\ d.rows[x].known = c.rows[x].known
        /\ d.rows[x].ticket = c.rows[x].ticket
        /\ d.rows[x].after = c.rows[x].after
        /\ d.rows[x].released = c.rows[x].released
    BY <1>5
  <2>6. c.rows[x].known /\ ~c.rows[x].released
    BY <1>1 DEF Active
  <2> QED BY <2>2, <2>3, <2>4, <2>5, <2>6
<1>10. OwnRow(a, x).launched = Null
  BY <1>1, <1>2 DEF Good, Truthful
<1>11. Good(b, proc')
  <2>1. Unborn(b, proc')
    BY <1>2, <1>3, <1>9 DEF Good, Unborn
  <2>2. Adoptable(b, proc')
    BY <1>2, <1>3, <1>8, <1>9, Types DEF Good, Adoptable
  <2>3. Truthful(b, proc')
    BY <1>2, <1>3, <1>4, <1>9 DEF Good, Truthful
  <2>4. Copied(b)
    <3> SUFFICES ASSUME NEW m \in Machine, NEW y \in Attempt, b[m].rows[y].known
                 PROVE  LET r == b[m].rows[y]
                            s == OwnRow(b, y)
                        IN /\ s.known /\ r.ticket = s.ticket
                           /\ r.after = s.after
                           /\ r.launched # Null => r.launched = s.launched
      BY DEF Copied
    <3>1. CASE m = n /\ y = x
      BY <1>9, <3>1
    <3>2. CASE ~(m = n /\ y = x)
      <4>1. b[m].rows[y] = a[m].rows[y]
        BY <1>8, <3>2
      <4>2. LET r == a[m].rows[y]
                s == OwnRow(a, y)
            IN /\ s.known /\ r.ticket = s.ticket /\ r.after = s.after
               /\ r.launched # Null => r.launched = s.launched
        BY <1>2, <4>1 DEF Good, Copied
      <4>3. CASE y # x
        BY <1>9, <4>1, <4>2, <4>3
      <4>4. CASE y = x
        BY <1>9, <1>10, <4>1, <4>2, <4>4
      <4> QED BY <4>3, <4>4
    <3> QED BY <3>1, <3>2
  <2>5. Numbered(b)
    BY <1>2, <1>8 DEF Good, Numbered
  <2>6. Judged(b, proc')
    <3> SUFFICES ASSUME NEW m \in Machine, NEW y \in Attempt,
                        b[m].pulses[Owner[y]].boot # "none",
                        OwnRow(b, y).known,
                        b[m].pulses[Owner[y]].sequence >= OwnRow(b, y).after,
                        y \notin b[m].pulses[Owner[y]].attempts
                 PROVE  ~Alive(proc'[y])
      BY DEF Judged
    <3>1. ~Alive(proc[y])
      BY <1>2, <1>8, <1>9 DEF Good, Judged
    <3> QED BY <1>1, <1>3, <3>1 DEF Alive
  <2>7. Clocked(b)
    <3> SUFFICES ASSUME NEW m \in Machine, NEW y \in Attempt, b[m].rows[y].known
                 PROVE  LET r == b[m].rows[y]
                        IN /\ r.ticket <= b[m].clock
                           /\ r.launched # Null => r.launched <= b[m].clock
      BY DEF Clocked
    <3>1. a[m].rows[y].known =>
            LET r == a[m].rows[y]
            IN /\ r.ticket <= a[m].clock /\ r.ticket \in Nat
               /\ r.launched # Null => r.launched <= a[m].clock
               /\ r.launched \in Nat \cup {Null}
      BY <1>2, <1>7, Parts DEF Good, Clocked
    <3>2. CASE m = n /\ y = x
      <4>1. a[n].clock = c.clock
        BY <1>7
      <4>2. OwnRow(a, x).ticket <= c.clock /\ OwnRow(a, x).ticket \in Nat
        BY <1>9, <3>1, <3>2, <4>1
      <4> QED BY <1>4, <1>8, <1>9, <3>2, <4>2
    <3>3. CASE ~(m = n /\ y = x)
      <4> DEFINE r == b[m].rows[y]
      <4>1. /\ r.ticket <= a[m].clock /\ r.ticket \in Nat
            /\ r.launched # Null => r.launched <= a[m].clock
            /\ r.launched \in Nat \cup {Null}
        BY <1>8, <3>1, <3>3
      <4> HIDE DEF r
      <4>2. /\ r.ticket <= b[m].clock
            /\ r.launched # Null => r.launched <= b[m].clock
        BY <1>8, <4>1
      <4> QED BY <4>2 DEF r
    <3> QED BY <3>2, <3>3
  <2> QED BY <2>1, <2>2, <2>3, <2>4, <2>5, <2>6, <2>7 DEF Good
<1>12. Refreshed(e, d, n, proc')
  <2>1. d.rows[x].known
    BY <1>1, <1>5 DEF Active
  <2>2. Living(n, proc') = Living(n, proc)
    BY <1>1, <1>3 DEF Living, Alive
  <2>3. \A y \in Attempt : RowRefreshed(e, d, n, proc', y)
    <3> SUFFICES ASSUME NEW y \in Attempt PROVE RowRefreshed(e, d, n, proc', y)
      OBVIOUS
    <3>1. RowRefreshed(e, d, n, proc, y)
      BY <1>6 DEF Refreshed
    <3>2. CASE y = x
      BY <1>1, <2>1, <3>1, <3>2 DEF RowRefreshed
    <3>3. CASE y # x
      BY <1>3, <2>2, <3>1, <3>3 DEF RowRefreshed
    <3> QED BY <3>2, <3>3
  <2>4. \A m \in Machine : PulseRefreshed(e, d, n, proc', m)
    BY <1>6, <2>2 DEF Refreshed, PulseRefreshed
  <2> QED BY <1>6, <2>2, <2>3, <2>4 DEF Refreshed
<1>13. \A y \in Attempt :
         proc'[y] = "running" /\ Owner[y] # n => proc[y] = "running"
  BY <1>1, <1>3
<1>14. LET k == [db EXCEPT ![n] = e]
       IN k \in [Machine -> Database] /\ Good(k, proc') /\ Fenced(k, proc')
  BY <1>3, <1>5, <1>6, <1>11, <1>12, <1>13, CommitKeeps DEF b
<1>15. db'[n] = e
  BY <1>1, Types
<1>16. e.rows[x].launched = number
  <2>1. RowRefreshed(e, d, n, proc, x) /\ d.rows[x].known
    BY <1>1, <1>5, <1>6 DEF Refreshed, Active
  <2> QED BY <1>5, <2>1 DEF RowRefreshed, SameLaunch
<1>17. ASSUME NEW y \in Attempt \ {x}, Owner[y] = n, y \notin Legacy,
              Launched(e, y)
       PROVE  Launched(db[n], y)
  <2>1. /\ RowRefreshed(e, d, n, proc, y) /\ d.rows[y] = c.rows[y]
        /\ RowRefreshed(c, db[n], n, proc, y)
    BY <1>2, <1>5, <1>6 DEF Refreshed
  <2>2. ~db[n].rows[y].known => ~Alive(proc[y])
    BY <1>17, Types DEF Good, Adoptable, OwnRow
  <2>3. ~c.rows[y].known => ~db[n].rows[y].known
    BY <2>1 DEF RowRefreshed, SameLaunch
  <2>4. Launched(c, y)
    BY <1>17, <2>1, <2>2, <2>3
       DEF RowRefreshed, SameLaunch, Living, Launched, Active
  <2> QED BY <2>1, <2>2, <2>4
          DEF RowRefreshed, SameLaunch, Living, Launched, Active
<1>18. ASSUME NEW y \in Attempt \ {x}, db[n].rows[y].known
       PROVE  LET s == db[n].rows[y]
              IN /\ s.launched # Null => number > s.launched
                 /\ number > s.ticket
                 /\ ~(TaskOf[x] = TaskOf[y] /\ Launched(e, y))
  <2>1. /\ RowRefreshed(e, d, n, proc, y) /\ d.rows[y] = c.rows[y]
        /\ RowRefreshed(c, db[n], n, proc, y)
    BY <1>2, <1>5, <1>6 DEF Refreshed
  <2>2. c.rows[y].known /\ SameLaunch(c.rows[y], db[n].rows[y])
    BY <1>18, <2>1 DEF RowRefreshed, SameLaunch
  <2>3. /\ c.rows[y].ticket <= c.clock
        /\ c.rows[y].launched # Null => c.rows[y].launched <= c.clock
    BY <1>2, <1>7, <2>2 DEF Good, Clocked
  <2>4. c.rows[y].ticket \in Nat /\ c.rows[y].launched \in Nat \cup {Null}
    BY <1>2, Parts
  <2> DEFINE ticket == db[n].rows[y].ticket
             launched == db[n].rows[y].launched
  <2>5. /\ ticket <= c.clock
        /\ launched # Null => launched <= c.clock
        /\ ticket \in Nat /\ launched \in Nat \cup {Null}
    BY <2>2, <2>3, <2>4 DEF SameLaunch
  <2> HIDE DEF ticket, launched
  <2>6. /\ number > ticket
        /\ launched # Null => number > launched
    BY <1>4, <2>5 DEF number
  <2>7. TaskOf[x] = TaskOf[y] => ~Launched(e, y)
    <3> SUFFICES ASSUME TaskOf[x] = TaskOf[y], Launched(e, y) PROVE FALSE
      OBVIOUS
    <3>1. Launched(c, y)
      BY <2>1, <2>2 DEF RowRefreshed, SameLaunch, Launched, Active
    <3>2. c.winner[TaskOf[x]] = x
      BY <1>1 DEF Owns, Active
    <3>3. c.rows[x].launched = Null
      BY <1>7, <1>9, <1>10
    <3>4. y \in Candidates(c, TaskOf[x]) /\ TaskOf[x] \in Task
      BY <3>1, OwnersAssumption DEF Candidates, Standing, Launched
    <3>5. Precedes(c.rows[x], x, c.rows[y], y)
      BY <1>2, <1>18, <3>2, <3>4 DEF Decided, Leads
    <3> QED BY <3>1, <3>3, <3>5 DEF Precedes, Launched
  <2> QED BY <2>6, <2>7 DEF ticket, launched
<1>19. LaunchFollows(n, x)
  BY <1>6, <1>15, <1>16, <1>17, <1>18 DEF LaunchFollows
<1> QED BY <1>19, <1>1, <1>3, <1>14, Types, TypeParts

\* A finished attempt is released.
LEMMA FinishStep ==
  ASSUME IInv, NEW n \in Machine, NEW x \in Attempt, Finish(n, x)
  PROVE  IInv'
<1> DEFINE b == [db EXCEPT ![n].rows[x].released = db[n].rows[x].known]
<1>1. /\ Unfinished(proc[x]) /\ Owner[x] = n /\ db' = b
      /\ proc' = [proc EXCEPT ![x] = "done"]
      /\ UNCHANGED <<timing, lag, failures>>
  BY DEF Finish
<1>2. /\ proc' \in [Attempt -> Process] /\ proc'[x] = "done"
      /\ \A y \in Attempt : y # x => proc'[y] = proc[y]
      /\ Quieter(proc', proc)
  BY <1>1, Types DEF Process, Quieter, Unfinished, Alive
<1>3. /\ b \in [Machine -> Database]
      /\ \A m \in Machine :
           /\ b[m].clock = db[m].clock /\ b[m].sequence = db[m].sequence
           /\ b[m].pulses = db[m].pulses /\ b[m].winner = db[m].winner
      /\ \A m \in Machine, y \in Attempt :
           ~(m = n /\ y = x) => b[m].rows[y] = db[m].rows[y]
      /\ SameLaunch(b[n].rows[x], db[n].rows[x])
  <2> DEFINE row == [db[n].rows[x] EXCEPT !.released = db[n].rows[x].known]
             rows == [db[n].rows EXCEPT ![x] = row]
             d == [db[n] EXCEPT !.rows = rows]
  <2>1. b = [db EXCEPT ![n] = d]
    OBVIOUS
  <2>2. db[n] \in Database /\ db[n].rows \in [Attempt -> Row]
    BY Types DEF Database
  <2>3. row \in Row /\ SameLaunch(row, db[n].rows[x])
    BY <2>2 DEF Row, SameLaunch
  <2> HIDE DEF row
  <2>4. /\ rows \in [Attempt -> Row]
        /\ \A y \in Attempt : rows[y] = IF y = x THEN row ELSE db[n].rows[y]
    BY <2>2, <2>3
  <2> HIDE DEF rows
  <2>5. /\ d \in Database /\ d.clock = db[n].clock
        /\ d.sequence = db[n].sequence /\ d.pulses = db[n].pulses
        /\ d.winner = db[n].winner /\ d.rows = rows
    BY <2>2, <2>4 DEF Database
  <2> HIDE DEF d, b
  <2>6. /\ b \in [Machine -> Database]
        /\ \A m \in Machine : b[m] = IF m = n THEN d ELSE db[m]
    BY <2>1, <2>5, Types
  <2> QED BY <2>3, <2>4, <2>5, <2>6
<1> HIDE DEF b
<1>4. \A m \in Machine, y \in Attempt :
        SameLaunch(b[m].rows[y], db[m].rows[y])
  BY <1>3 DEF SameLaunch
<1>5. /\ \A y \in Attempt : SameLaunch(OwnRow(b, y), OwnRow(db, y))
      /\ \A y \in Attempt : y # x => OwnRow(b, y) = OwnRow(db, y)
  BY <1>3, <1>4, Types DEF OwnRow
<1>6. Good(db, proc') /\ Fenced(db, proc')
  BY <1>2, Types, QuietKeeps
<1>7. Unborn(b, proc') /\ Truthful(b, proc')
  BY <1>2, <1>5, <1>6 DEF Good, Unborn, Truthful, SameLaunch
<1>8. Adoptable(b, proc')
  BY <1>3, <1>5, <1>6, Types DEF Good, Adoptable, SameLaunch
<1>9. Copied(b)
  BY <1>4, <1>5, <1>6 DEF Good, Copied, SameLaunch
<1>10. Numbered(b)
  BY <1>3, <1>6 DEF Good, Numbered
<1>11. Judged(b, proc')
  <2>1. \A y \in Attempt : /\ OwnRow(b, y).known = OwnRow(db, y).known
                           /\ OwnRow(b, y).after = OwnRow(db, y).after
    BY <1>5 DEF SameLaunch
  <2>2. \A m \in Machine : b[m].pulses = db[m].pulses
    BY <1>3
  <2>3. Judged(db, proc')
    BY <1>6 DEF Good
  <2> QED BY <2>1, <2>2, <2>3 DEF Judged
<1>12. Clocked(b)
  <2>1. Clocked(db) /\ \A m \in Machine : b[m].clock = db[m].clock
    BY <1>3, <1>6 DEF Good
  <2> QED BY <1>4, <2>1 DEF Clocked, SameLaunch
<1>13. Fenced(b, proc')
  <2> SUFFICES ASSUME NEW y \in Attempt, proc'[y] = "running",
                      OwnRow(b, y).known
               PROVE  LET w == b[Owner[y]].winner[TaskOf[y]]
                      IN w = y \/ (w \in Attempt /\ Displaces(b[Owner[y]], w, y))
    BY DEF Fenced
  <2> DEFINE w == b[Owner[y]].winner[TaskOf[y]]
  <2>1. w = y \/ (w \in Attempt /\ Displaces(db[Owner[y]], w, y))
    BY <1>3, <1>5, <1>6, Types DEF Fenced, SameLaunch
  <2> HIDE DEF w
  <2>2. CASE w \in Attempt /\ Displaces(db[Owner[y]], w, y)
    <3>1. /\ SameLaunch(b[Owner[y]].rows[w], db[Owner[y]].rows[w])
          /\ SameLaunch(b[Owner[y]].rows[y], db[Owner[y]].rows[y])
      BY <1>4, <2>2, Types
    <3>2. Displaces(b[Owner[y]], w, y)
      BY <2>2, <3>1 DEF Displaces, Precedes, SameLaunch
    <3> QED BY <2>2, <3>2 DEF w
  <2> QED BY <2>1, <2>2 DEF w
<1>14. Good(b, proc')
  BY <1>7, <1>8, <1>9, <1>10, <1>11, <1>12 DEF Good
<1> QED BY <1>1, <1>2, <1>3, <1>13, <1>14, Types, TypeParts

\* A fact arrives: what it says of the row, its owner's row said before.
LEMMA DeliverStep ==
  ASSUME IInv, NEW n \in Machine, NEW x \in Attempt, Deliver(n, x)
  PROVE  IInv' /\ Settles(n)
<1>1. Owner[x] # n /\ UNCHANGED <<timing, proc, failures>>
  BY DEF Deliver
<1>2. PICK r \in Versions(db[Owner[x]].rows[x]) :
        /\ db' = [db EXCEPT ![n] = Reconcile(Learned(db[n], x, r), n, proc)]
        /\ lag' = [lag EXCEPT ![n][x] =
                     IF Newer(db[Owner[x]].rows[x], r) THEN @ ELSE 0]
  BY DEF Deliver
<1> DEFINE own == db[Owner[x]].rows[x]
           d == Learned(db[n], x, r)
           e == Reconcile(d, n, proc)
           b == [db EXCEPT ![n] = d]
<1>3. /\ own \in Row /\ r \in Row
      /\ r.known = own.known /\ r.ticket = own.ticket /\ r.after = own.after
      /\ r.launched # Null => r.launched = own.launched
  <2>1. own \in Row
    BY Types, Parts
  <2> HIDE DEF own
  <2>2. r \in {[own EXCEPT !.launched = Null, !.released = FALSE],
               [own EXCEPT !.released = FALSE], own}
    BY DEF own, Versions
  <2>3. CASE r = [own EXCEPT !.launched = Null, !.released = FALSE]
    BY <2>1, <2>3 DEF Row
  <2>4. CASE r = [own EXCEPT !.released = FALSE]
    BY <2>1, <2>4 DEF Row
  <2> QED BY <2>1, <2>2, <2>3, <2>4
<1>4. /\ d \in Database
      /\ db[n].clock <= d.clock /\ r.ticket <= d.clock
      /\ r.launched # Null => r.launched <= d.clock
      /\ d.clock \in Nat /\ db[n].clock \in Nat
      /\ d.sequence = db[n].sequence /\ d.pulses = db[n].pulses
      /\ \A y \in Attempt : d.rows[y] = IF y = x THEN r ELSE db[n].rows[y]
  <2> DEFINE number == IF r.launched = Null \/ r.launched < r.ticket
                       THEN r.ticket ELSE r.launched
             clock == IF number > db[n].clock THEN number ELSE db[n].clock
             rows == [db[n].rows EXCEPT ![x] = r]
  <2>1. d = [db[n] EXCEPT !.rows = rows, !.clock = clock]
    BY DEF Learned
  <2>2. /\ db[n] \in Database /\ db[n].clock \in Nat
        /\ db[n].rows \in [Attempt -> Row]
    BY Types, Parts DEF Database
  <2>3. r.ticket \in Nat /\ r.launched \in Nat \cup {Null}
    BY <1>3 DEF Row
  <2>4. /\ number \in Nat /\ r.ticket <= number
        /\ r.launched # Null => r.launched <= number
    BY <2>3
  <2> HIDE DEF number
  <2>5. /\ clock \in Nat /\ db[n].clock <= clock /\ r.ticket <= clock
        /\ r.launched # Null => r.launched <= clock
    BY <2>2, <2>3, <2>4
  <2>6. /\ rows \in [Attempt -> Row]
        /\ \A y \in Attempt : rows[y] = IF y = x THEN r ELSE db[n].rows[y]
    BY <1>3, <2>2
  <2> HIDE DEF d, clock, rows
  <2>7. /\ d \in Database /\ d.clock = clock /\ d.rows = rows
        /\ d.sequence = db[n].sequence /\ d.pulses = db[n].pulses
    BY <2>1, <2>2, <2>5, <2>6 DEF Database
  <2> QED BY <2>2, <2>5, <2>6, <2>7
<1>5. e \in Database /\ Refreshed(e, d, n, proc) /\ Decided(e)
  BY <1>4, Types, ReconcileRefreshes
<1>6. /\ db' = [db EXCEPT ![n] = e]
      /\ lag' \in [Machine -> [Attempt -> 0 .. timing.traversal]]
  <2>1. /\ timing.traversal \in Nat
        /\ lag \in [Machine -> [Attempt -> 0 .. timing.traversal]]
    BY Types, TimesType
  <2>2. lag' \in [Machine -> [Attempt -> 0 .. timing.traversal]]
    BY <1>2, <2>1
  <2> QED BY <1>2, <2>2
<1> HIDE DEF d, e
<1>7. \A m \in Machine : b[m] = IF m = n THEN d ELSE db[m]
  BY Types
<1> HIDE DEF b
<1>8. /\ \A m \in Machine : b[m].pulses = db[m].pulses
      /\ \A m \in Machine : b[m].sequence = db[m].sequence
      /\ \A m \in Machine, y \in Attempt :
           ~(m = n /\ y = x) => b[m].rows[y] = db[m].rows[y]
      /\ b[n].rows[x] = r
      /\ \A m \in Machine :
           db[m].clock <= b[m].clock /\ db[m].clock \in Nat /\ b[m].clock \in Nat
  <2>1. \A m \in Machine : db[m].clock \in Nat
    BY Types, Parts
  <2> QED BY <1>4, <1>7, <2>1
<1>9. \A y \in Attempt : OwnRow(b, y) = OwnRow(db, y)
  BY <1>1, <1>8, Types DEF OwnRow
<1>10. Good(b, proc)
  <2>1. Unborn(b, proc) /\ Truthful(b, proc)
    BY <1>9, Types DEF Good, Unborn, Truthful
  <2>2. Adoptable(b, proc)
    BY <1>8, <1>9, Types DEF Good, Adoptable
  <2>3. Copied(b)
    <3> SUFFICES ASSUME NEW m \in Machine, NEW y \in Attempt, b[m].rows[y].known
                 PROVE  LET q == b[m].rows[y]
                            s == OwnRow(b, y)
                        IN /\ s.known /\ q.ticket = s.ticket
                           /\ q.after = s.after
                           /\ q.launched # Null => q.launched = s.launched
      BY DEF Copied
    <3>1. CASE m = n /\ y = x
      BY <1>3, <1>8, <1>9, <3>1 DEF OwnRow
    <3>2. CASE ~(m = n /\ y = x)
      BY <1>8, <1>9, <3>2, Types DEF Good, Copied
    <3> QED BY <3>1, <3>2
  <2>4. Numbered(b)
    BY <1>8, Types DEF Good, Numbered
  <2>5. Judged(b, proc)
    BY <1>8, <1>9, Types DEF Good, Judged
  <2>6. Clocked(b)
    <3> SUFFICES ASSUME NEW m \in Machine, NEW y \in Attempt, b[m].rows[y].known
                 PROVE  LET q == b[m].rows[y]
                        IN /\ q.ticket <= b[m].clock
                           /\ q.launched # Null => q.launched <= b[m].clock
      BY DEF Clocked
    <3>1. CASE m = n /\ y = x
      BY <1>4, <1>7, <1>8, <3>1
    <3>2. CASE ~(m = n /\ y = x)
      <4> DEFINE q == b[m].rows[y]
      <4>1. /\ q = db[m].rows[y]
            /\ q.ticket <= db[m].clock
            /\ q.launched # Null => q.launched <= db[m].clock
        BY <1>8, <3>2, Types DEF Good, Clocked
      <4>2. q.ticket \in Nat /\ q.launched \in Nat \cup {Null}
        BY <4>1, Types, Parts
      <4> HIDE DEF q
      <4>3. /\ q.ticket <= b[m].clock
            /\ q.launched # Null => q.launched <= b[m].clock
        BY <1>8, <4>1, <4>2
      <4> QED BY <4>3 DEF q
    <3> QED BY <3>1, <3>2
  <2> QED BY <2>1, <2>2, <2>3, <2>4, <2>5, <2>6 DEF Good
<1>11. LET c == [db EXCEPT ![n] = e]
       IN c \in [Machine -> Database] /\ Good(c, proc) /\ Fenced(c, proc)
  BY <1>4, <1>5, <1>10, Types, CommitKeeps DEF b
<1>12. KeepsLaunches(d, n, proc)
  BY <1>1, <1>4 DEF KeepsLaunches
<1>13. Settles(n)
  BY <1>4, <1>5, <1>6, <1>12, Types, RefreshSettles
<1> QED BY <1>13, <1>1, <1>6, <1>11, Types, TypeParts

\* Evidence arrives: it is as it was sent, but for its age.
LEMMA HearPresenceStep ==
  ASSUME IInv, NEW m \in Machine, NEW n \in Machine,
         NEW exchange \in timing.exchanges, HearPresence(m, n, exchange)
  PROVE  IInv' /\ Settles(n)
<1> DEFINE fresher(k) == /\ k # n
                         /\ db[m].pulses[k].boot = "current"
                         /\ db[m].pulses[k].left > 0
                         /\ db[m].pulses[k].sequence > db[n].pulses[k].sequence
           heard(k) == [db[m].pulses[k] EXCEPT !.left = Deducted(@, exchange)]
           pulses == [k \in Machine |-> IF fresher(k) THEN heard(k)
                                        ELSE db[n].pulses[k]]
           d == [db[n] EXCEPT !.pulses = pulses]
           e == Reconcile(d, n, proc)
           b == [db EXCEPT ![n] = d]
<1>1. db' = [db EXCEPT ![n] = e] /\ UNCHANGED <<timing, proc, lag, failures>>
  BY DEF HearPresence
<1>2. \A k \in Machine :
        /\ pulses[k] \in Pulse
        /\ pulses[k].boot # "none" =>
             \E j \in {m, n} :
               /\ db[j].pulses[k].boot # "none"
               /\ pulses[k].sequence = db[j].pulses[k].sequence
               /\ pulses[k].attempts = db[j].pulses[k].attempts
  <2> SUFFICES ASSUME NEW k \in Machine
               PROVE  /\ pulses[k] \in Pulse
                      /\ pulses[k].boot # "none" =>
                           \E j \in {m, n} :
                             /\ db[j].pulses[k].boot # "none"
                             /\ pulses[k].sequence = db[j].pulses[k].sequence
                             /\ pulses[k].attempts = db[j].pulses[k].attempts
    OBVIOUS
  <2>1. db[m].pulses[k] \in Pulse /\ db[n].pulses[k] \in Pulse
    BY Types DEF Database
  <2>2. CASE ~fresher(k)
    BY <2>1, <2>2
  <2>3. CASE fresher(k)
    <3> DEFINE p == db[m].pulses[k]
               left == Deducted(p.left, exchange)
    <3>1. left \in 0 .. Lease
      BY <2>1, Types, TimesType DEF Pulse, Deducted
    <3>2. pulses[k] = [p EXCEPT !.left = left]
      BY <2>3
    <3>3. p \in Pulse /\ p.boot = "current"
      BY <2>1, <2>3
    <3> HIDE DEF left, p, pulses
    <3>4. /\ pulses[k] \in Pulse
          /\ pulses[k].sequence = p.sequence /\ pulses[k].attempts = p.attempts
      BY <3>1, <3>2, <3>3 DEF Pulse
    <3> QED BY <3>3, <3>4 DEF p
  <2> QED BY <2>2, <2>3
<1>3. pulses \in [Machine -> Pulse]
  BY <1>2
<1> HIDE DEF pulses
<1>4. /\ d \in Database /\ d.clock = db[n].clock /\ d.rows = db[n].rows
      /\ d.sequence = db[n].sequence /\ d.pulses = pulses
  <2>1. db[n] \in Database
    BY Types
  <2> QED BY <1>3, <2>1 DEF Database
<1>5. e \in Database /\ Refreshed(e, d, n, proc) /\ Decided(e)
  BY <1>4, Types, ReconcileRefreshes
<1> HIDE DEF d, e
<1>6. \A k \in Machine : b[k] = IF k = n THEN d ELSE db[k]
  BY Types
<1> HIDE DEF b
<1>7. /\ \A k \in Machine : b[k].clock = db[k].clock
      /\ \A k \in Machine : b[k].rows = db[k].rows
      /\ \A k \in Machine : b[k].sequence = db[k].sequence
      /\ \A y \in Attempt : OwnRow(b, y) = OwnRow(db, y)
  BY <1>4, <1>6, Types DEF OwnRow
<1>8. \A i, k \in Machine :
        b[i].pulses[k].boot # "none" =>
          \E j \in Machine :
            /\ db[j].pulses[k].boot # "none"
            /\ b[i].pulses[k].sequence = db[j].pulses[k].sequence
            /\ b[i].pulses[k].attempts = db[j].pulses[k].attempts
  BY <1>2, <1>4, <1>6
<1>9. Good(b, proc)
  <2>1. Unborn(b, proc) /\ Truthful(b, proc)
    BY <1>7, Types DEF Good, Unborn, Truthful
  <2>2. Adoptable(b, proc)
    BY <1>7, Types DEF Good, Adoptable
  <2>3. Copied(b) /\ Clocked(b)
    BY <1>7, Types DEF Good, Copied, Clocked
  <2>4. Numbered(b)
    <3> SUFFICES ASSUME NEW i \in Machine, NEW k \in Machine,
                        b[i].pulses[k].boot # "none"
                 PROVE  /\ 1 <= b[i].pulses[k].sequence
                        /\ b[i].pulses[k].sequence <= b[k].sequence
      BY DEF Numbered
    <3>1. PICK j \in Machine :
            /\ db[j].pulses[k].boot # "none"
            /\ b[i].pulses[k].sequence = db[j].pulses[k].sequence
      BY <1>8
    <3>2. /\ 1 <= db[j].pulses[k].sequence
          /\ db[j].pulses[k].sequence <= db[k].sequence
      BY <3>1, Types DEF Good, Numbered
    <3> QED BY <1>7, <3>1, <3>2
  <2>5. Judged(b, proc)
    <3> SUFFICES ASSUME NEW i \in Machine, NEW x \in Attempt,
                        b[i].pulses[Owner[x]].boot # "none",
                        OwnRow(b, x).known,
                        b[i].pulses[Owner[x]].sequence >= OwnRow(b, x).after,
                        x \notin b[i].pulses[Owner[x]].attempts
                 PROVE  ~Alive(proc[x])
      BY DEF Judged
    <3>1. Owner[x] \in Machine /\ OwnRow(b, x) = OwnRow(db, x)
      BY <1>7, Types
    <3>2. PICK j \in Machine :
            /\ db[j].pulses[Owner[x]].boot # "none"
            /\ b[i].pulses[Owner[x]].sequence = db[j].pulses[Owner[x]].sequence
            /\ b[i].pulses[Owner[x]].attempts = db[j].pulses[Owner[x]].attempts
      BY <1>8, <3>1
    <3>3. Judged(db, proc)
      BY Types DEF Good
    <3> QED BY <3>1, <3>2, <3>3 DEF Judged
  <2> QED BY <2>1, <2>2, <2>3, <2>4, <2>5 DEF Good
<1>10. LET c == [db EXCEPT ![n] = e]
       IN c \in [Machine -> Database] /\ Good(c, proc) /\ Fenced(c, proc)
  BY <1>4, <1>5, <1>9, Types, CommitKeeps DEF b
<1>11. Settles(n)
  BY <1>1, <1>4, <1>5, Types, RefreshSettles DEF KeepsLaunches
<1> QED BY <1>11, <1>1, <1>10, Types, TypeParts

\* Time passes: evidence ages.
LEMMA TickStep ==
  ASSUME IInv, Tick
  PROVE  IInv'
<1>1. /\ db' = [n \in Machine |-> AgedDatabase(db[n])]
      /\ UNCHANGED <<timing, proc, failures>>
  BY DEF Tick
<1>2. \A left \in Nat : Aged(left) \in 0 .. left
  BY DEF Aged
<1>3. ASSUME NEW n \in Machine
      PROVE  LET d == AgedDatabase(db[n])
             IN /\ d \in Database /\ d.clock = db[n].clock
                /\ d.sequence = db[n].sequence /\ d.rows = db[n].rows
                /\ d.winner = db[n].winner
                /\ \A k \in Machine :
                     /\ d.pulses[k].boot = db[n].pulses[k].boot
                     /\ d.pulses[k].sequence = db[n].pulses[k].sequence
                     /\ d.pulses[k].attempts = db[n].pulses[k].attempts
  <2> DEFINE d == AgedDatabase(db[n])
             seen == [x \in Attempt |-> [db[n].seen[x] EXCEPT
                        !.left = Aged(@), !.wait = Aged(@)]]
             pulses == [k \in Machine |-> [db[n].pulses[k] EXCEPT
                          !.left = Aged(@)]]
  <2>1. d = [db[n] EXCEPT !.due = TRUE, !.seen = seen, !.pulses = pulses]
    BY DEF AgedDatabase
  <2>2. /\ db[n] \in Database
        /\ \A x \in Attempt : db[n].seen[x] \in Observation
        /\ \A k \in Machine : db[n].pulses[k] \in Pulse
    BY Types DEF Database
  <2>3. \A x \in Attempt : seen[x] \in Observation
    <3> SUFFICES ASSUME NEW x \in Attempt PROVE seen[x] \in Observation
      OBVIOUS
    <3> DEFINE s == db[n].seen[x]
    <3>1. s \in Observation
      BY <2>2
    <3>2. Aged(s.left) \in 0 .. Lease /\ Aged(s.wait) \in 0 .. Settle
      BY <1>2, <3>1, Types, TimesType DEF Observation
    <3>3. seen[x] = [s EXCEPT !.left = Aged(s.left), !.wait = Aged(s.wait)]
      OBVIOUS
    <3> HIDE DEF s, seen
    <3> QED BY <3>1, <3>2, <3>3 DEF Observation
  <2>4. \A k \in Machine :
          /\ pulses[k] \in Pulse
          /\ pulses[k].boot = db[n].pulses[k].boot
          /\ pulses[k].sequence = db[n].pulses[k].sequence
          /\ pulses[k].attempts = db[n].pulses[k].attempts
    <3> SUFFICES ASSUME NEW k \in Machine
                 PROVE  /\ pulses[k] \in Pulse
                        /\ pulses[k].boot = db[n].pulses[k].boot
                        /\ pulses[k].sequence = db[n].pulses[k].sequence
                        /\ pulses[k].attempts = db[n].pulses[k].attempts
      OBVIOUS
    <3> DEFINE p == db[n].pulses[k]
    <3>1. p \in Pulse
      BY <2>2
    <3>2. Aged(p.left) \in 0 .. Lease
      BY <1>2, <3>1, Types, TimesType DEF Pulse
    <3>3. pulses[k] = [p EXCEPT !.left = Aged(p.left)]
      OBVIOUS
    <3> HIDE DEF p, pulses
    <3>4. /\ pulses[k] \in Pulse /\ pulses[k].boot = p.boot
          /\ pulses[k].sequence = p.sequence /\ pulses[k].attempts = p.attempts
      BY <3>1, <3>2, <3>3 DEF Pulse
    <3> QED BY <3>4 DEF p
  <2>5. seen \in [Attempt -> Observation] /\ pulses \in [Machine -> Pulse]
    BY <2>3, <2>4
  <2> HIDE DEF d, seen, pulses
  <2>6. /\ d \in Database /\ d.clock = db[n].clock
        /\ d.sequence = db[n].sequence /\ d.rows = db[n].rows
        /\ d.winner = db[n].winner /\ d.pulses = pulses
    BY <2>1, <2>2, <2>5 DEF Database
  <2> QED BY <2>4, <2>6 DEF d
<1>4. db' \in [Machine -> Database] /\ Quiet(db', db)
  BY <1>1, <1>3 DEF Quiet
<1>5. Good(db', proc) /\ Fenced(db', proc)
  BY <1>4, Types, QuietDatabases
<1>6. lag' \in [Machine -> [Attempt -> 0 .. timing.traversal]]
  <2>1. timing.traversal \in Nat
    BY Types, TimesType
  <2>2. ASSUME NEW n \in Machine, NEW x \in Attempt
        PROVE  (IF timing.kept /\ Behind(n, x) THEN lag[n][x] + 1 ELSE 0)
                 \in 0 .. timing.traversal
    <3>1. timing.kept /\ Behind(n, x) => lag[n][x] + 1 < timing.traversal
      BY DEF Tick, InTime
    <3>2. lag[n][x] \in Nat
      BY <2>1, Types
    <3> QED BY <2>1, <3>1, <3>2
  <2>3. lag' = [n \in Machine |-> [x \in Attempt |->
                  IF timing.kept /\ Behind(n, x) THEN lag[n][x] + 1 ELSE 0]]
    BY DEF Tick
  <2> QED BY <2>2, <2>3
<1> QED BY <1>1, <1>4, <1>5, <1>6, Types, TypeParts

\* A machine restarts: its workers are dead and its evidence is worthless.
LEMMA RebootStep ==
  ASSUME IInv, NEW n \in Machine, Reboot(n)
  PROVE  IInv'
<1> DEFINE seen == [x \in Attempt |->
                      IF db[n].seen[x].boot = "none" THEN db[n].seen[x]
                      ELSE [boot |-> "stale", left |-> 0, wait |-> 0, seen |-> -1]]
           pulses == [k \in Machine |->
                        IF db[n].pulses[k].boot = "none" THEN db[n].pulses[k]
                        ELSE [db[n].pulses[k] EXCEPT !.boot = "stale", !.left = 0]]
           d == [db[n] EXCEPT !.booted = FALSE, !.due = TRUE,
                              !.seen = seen, !.pulses = pulses]
<1>1. /\ failures < MaxFailures /\ failures' = failures + 1
      /\ proc' = [x \in Attempt |->
                    IF Owner[x] = n /\ Alive(proc[x]) THEN "dead" ELSE proc[x]]
      /\ UNCHANGED <<timing, lag>>
  BY DEF Reboot
<1>2. db' = [db EXCEPT ![n] = d]
  BY DEF Reboot
<1>3. /\ db[n] \in Database /\ Lease \in Nat /\ Settle \in Nat
      /\ \A x \in Attempt : db[n].seen[x] \in Observation
      /\ \A k \in Machine : db[n].pulses[k] \in Pulse
  BY Types, TimesType DEF Database
<1>4. seen \in [Attempt -> Observation]
  BY <1>3 DEF Observation
<1>5. \A k \in Machine :
        /\ pulses[k] \in Pulse
        /\ pulses[k].boot # "none" => db[n].pulses[k].boot # "none"
        /\ pulses[k].sequence = db[n].pulses[k].sequence
        /\ pulses[k].attempts = db[n].pulses[k].attempts
  <2> SUFFICES ASSUME NEW k \in Machine
               PROVE  /\ pulses[k] \in Pulse
                      /\ pulses[k].boot # "none" => db[n].pulses[k].boot # "none"
                      /\ pulses[k].sequence = db[n].pulses[k].sequence
                      /\ pulses[k].attempts = db[n].pulses[k].attempts
    OBVIOUS
  <2> DEFINE p == db[n].pulses[k]
  <2>1. /\ p \in Pulse
        /\ pulses[k] = IF p.boot = "none" THEN p
                       ELSE [p EXCEPT !.boot = "stale", !.left = 0]
    BY <1>3
  <2> HIDE DEF p, pulses
  <2>2. /\ pulses[k] \in Pulse
        /\ pulses[k].boot # "none" => p.boot # "none"
        /\ pulses[k].sequence = p.sequence /\ pulses[k].attempts = p.attempts
    <3>1. CASE p.boot = "none"
      BY <2>1, <3>1
    <3>2. CASE p.boot # "none"
      <4>1. pulses[k] = [p EXCEPT !.boot = "stale", !.left = 0]
        BY <2>1, <3>2
      <4>2. 0 \in 0 .. Lease
        BY <1>3
      <4> QED BY <2>1, <3>2, <4>1, <4>2 DEF Pulse
    <3> QED BY <3>1, <3>2
  <2> QED BY <2>2 DEF p
<1>6. pulses \in [Machine -> Pulse]
  BY <1>5
<1> HIDE DEF seen, pulses
<1>7. /\ d \in Database /\ d.clock = db[n].clock
      /\ d.sequence = db[n].sequence /\ d.rows = db[n].rows
      /\ d.winner = db[n].winner /\ d.pulses = pulses
  BY <1>3, <1>4, <1>6 DEF Database
<1> HIDE DEF d
<1>8. /\ db' \in [Machine -> Database]
      /\ \A m \in Machine : db'[m] = IF m = n THEN d ELSE db[m]
  BY <1>2, <1>7, Types
<1>9. Quiet(db', db)
  BY <1>5, <1>7, <1>8 DEF Quiet
<1>10. proc' \in [Attempt -> Process] /\ Quieter(proc', proc)
  BY <1>1, Types DEF Process, Quieter, Alive
<1>11. Good(db', proc') /\ Fenced(db', proc')
  BY <1>9, <1>10, Types, QuietDatabases, QuietKeeps
<1>12. failures' \in 0 .. MaxFailures
  BY <1>1, Types, BoundsAssumption
<1> QED BY <1>1, <1>8, <1>10, <1>11, <1>12, Types, TypeParts

\* The first states.
LEMMA InitIInv == Init => IInv
<1> SUFFICES ASSUME Init PROVE IInv
  OBVIOUS
<1> DEFINE first == [clock |-> 0, booted |-> FALSE, due |-> TRUE, sequence |-> 0,
                     rows |-> [x \in Attempt |-> NoRow],
                     seen |-> [x \in Attempt |-> NoObservation],
                     pulses |-> [m \in Machine |-> NoPulse],
                     winner |-> [t \in Task |-> Null]]
<1>1. /\ timing \in Timings /\ Lease \in Nat /\ Settle \in Nat
      /\ timing.traversal \in Nat /\ MaxFailures \in Nat
  BY TimesType, BoundsAssumption DEF Init
<1>2. NoRow \in Row /\ ~NoRow.known
  BY DEF NoRow, Row
<1>3. NoObservation \in Observation
  BY <1>1 DEF NoObservation, Observation
<1>4. NoPulse \in Pulse /\ NoPulse.boot = "none"
  BY <1>1 DEF NoPulse, Pulse
<1>5. /\ first \in Database /\ first.sequence = 0
      /\ \A x \in Attempt : ~first.rows[x].known
      /\ \A m \in Machine : first.pulses[m].boot = "none"
  BY <1>2, <1>3, <1>4 DEF Database
<1>6. db = [n \in Machine |-> first]
  BY DEF Init
<1> HIDE DEF first
<1>7. TypeOK
  <2>1. db \in [Machine -> Database]
    BY <1>5, <1>6
  <2>2. /\ proc \in [Attempt -> {"none", "reserved", "running", "stopping",
                              "dead", "done"}]
        /\ failures \in 0 .. MaxFailures
    BY <1>1 DEF Init
  <2>3. 0 \in 0 .. timing.traversal
    BY <1>1
  <2>4. lag \in [Machine -> [Attempt -> 0 .. timing.traversal]]
    BY <2>3 DEF Init
  <2> QED BY <1>1, <2>1, <2>2, <2>4 DEF TypeOK
<1>8. /\ \A x \in Attempt : Owner[x] \in Machine
      /\ \A n \in Machine : db[n] = first
      /\ \A x \in Attempt : proc[x] = IF x \in Legacy THEN "running" ELSE "none"
  BY <1>6, OwnersAssumption DEF Init
<1>9. \A x \in Attempt : ~OwnRow(db, x).known
  BY <1>5, <1>8 DEF OwnRow
<1>10. Good(db, proc)
  <2>1. Unborn(db, proc) /\ Truthful(db, proc)
    BY <1>8, <1>9 DEF Unborn, Truthful
  <2>2. Adoptable(db, proc)
    BY <1>5, <1>8 DEF Adoptable, Alive
  <2>3. Copied(db) /\ Clocked(db)
    BY <1>5, <1>8 DEF Copied, Clocked
  <2>4. Numbered(db)
    BY <1>5, <1>8 DEF Numbered
  <2>5. Judged(db, proc)
    BY <1>9 DEF Judged
  <2> QED BY <2>1, <2>2, <2>3, <2>4, <2>5 DEF Good
<1>11. Fenced(db, proc)
  BY <1>9 DEF Fenced
<1> QED BY <1>7, <1>10, <1>11 DEF IInv

\* Every step.
LEMMA NextIInv == IInv /\ [Next]_vars => IInv'
<1> SUFFICES ASSUME IInv, [Next]_vars PROVE IInv'
  OBVIOUS
<1>1. CASE Tick
  BY <1>1, TickStep
<1>2. ASSUME NEW n \in Machine, Maintain(n) PROVE IInv'
  BY <1>2, MaintainStep
<1>3. ASSUME NEW n \in Machine, Reboot(n) PROVE IInv'
  BY <1>3, RebootStep
<1>4. ASSUME NEW m \in Machine, NEW n \in Machine,
             NEW exchange \in timing.exchanges, HearPresence(m, n, exchange)
      PROVE  IInv'
  BY <1>4, HearPresenceStep
<1>5. ASSUME NEW n \in Machine, NEW x \in Attempt, Reserve(n, x) PROVE IInv'
  BY <1>5, ReserveStep
<1>6. ASSUME NEW n \in Machine, NEW x \in Attempt, LaunchRefused(n, x) PROVE IInv'
  BY <1>6, LaunchRefusedStep
<1>7. ASSUME NEW n \in Machine, NEW x \in Attempt, LaunchWait(n, x) PROVE IInv'
  BY <1>7, LaunchWaitStep
<1>8. ASSUME NEW n \in Machine, NEW x \in Attempt, Launch(n, x) PROVE IInv'
  BY <1>8, LaunchStep
<1>9. ASSUME NEW n \in Machine, NEW x \in Attempt, CheckJob(n, x) PROVE IInv'
  BY <1>9, CheckJobStep
<1>10. ASSUME NEW n \in Machine, NEW x \in Attempt, Finish(n, x) PROVE IInv'
  BY <1>10, FinishStep
<1>11. ASSUME NEW n \in Machine, NEW x \in Attempt, Crash(n, x) PROVE IInv'
  BY <1>11, CrashStep
<1>12. ASSUME NEW n \in Machine, NEW x \in Attempt, Deliver(n, x) PROVE IInv'
  BY <1>12, DeliverStep
<1>13. CASE UNCHANGED vars
  BY <1>13, Types, TypeParts DEF vars
<1> QED BY <1>1, <1>2, <1>3, <1>4, <1>5, <1>6, <1>7, <1>8, <1>9, <1>10, <1>11,
          <1>12, <1>13 DEF Next

\* The times measured on a fleet stay as they are.
LEMMA TimingStays == [Next]_vars => UNCHANGED timing
<1> SUFFICES ASSUME [Next]_vars PROVE UNCHANGED timing
  OBVIOUS
<1>1. ASSUME Tick PROVE UNCHANGED timing
  BY <1>1 DEF Tick
<1>2. ASSUME NEW n \in Machine, Maintain(n) \/ Reboot(n) PROVE UNCHANGED timing
  BY <1>2 DEF Maintain, Reboot
<1>3. ASSUME NEW m \in Machine, NEW n \in Machine,
             NEW exchange \in timing.exchanges, HearPresence(m, n, exchange)
      PROVE  UNCHANGED timing
  BY <1>3 DEF HearPresence
<1>4. ASSUME NEW n \in Machine, NEW x \in Attempt,
             \/ Reserve(n, x) \/ LaunchRefused(n, x) \/ LaunchWait(n, x)
             \/ Launch(n, x) \/ CheckJob(n, x) \/ Finish(n, x) \/ Crash(n, x)
             \/ Deliver(n, x)
      PROVE  UNCHANGED timing
  BY <1>4 DEF Reserve, LaunchRefused, LaunchWait, Launch, CheckJob, Finish,
              Crash, Deliver
<1>5. ASSUME UNCHANGED vars PROVE UNCHANGED timing
  BY <1>5 DEF vars
<1> QED BY <1>1, <1>2, <1>3, <1>4, <1>5 DEF Next

\* The inductive invariant.
LEMMA SpecIInv == Spec => []IInv
  BY InitIInv, NextIInv, PTL DEF Spec

----------------------------------------------------------------------------
(* The theorems. *)

\* Every variable has its type: no lease is longer than the settings allow,
\* and no row, observation or pulse is out of its range.
THEOREM TypeCorrect == Spec => []TypeOK
<1>1. IInv => TypeOK
  BY DEF IInv
<1> QED BY <1>1, SpecIInv, PTL

\* On every machine, a pulse that may judge a reservation and omits it was
\* sent after the worker had ended: renew_local lists the living workers in
\* the transaction that numbers the pulse, and the trigger's presence_after
\* excludes the pulses that were numbered before the reservation.
THEOREM OmissionsProveStops == Spec => []OmissionProvesStopped
<1>1. IInv => OmissionProvesStopped
  <2> SUFFICES ASSUME IInv, NEW n \in Machine, NEW x \in Attempt,
                      Active(db[n], x),
                      db[n].pulses[Owner[x]].boot # "none",
                      db[n].pulses[Owner[x]].sequence >= db[n].rows[x].after,
                      x \notin db[n].pulses[Owner[x]].attempts
               PROVE  ~Alive(proc[x])
    BY DEF OmissionProvesStopped
  <2>1. /\ OwnRow(db, x).known
        /\ db[n].rows[x].after = OwnRow(db, x).after
    BY Types DEF Active, Good, Copied
  <2> QED BY <2>1, Types DEF Good, Judged
<1> QED BY <1>1, SpecIInv, PTL

\* A step leaves the winners and the launches of a machine alone, or it is a
\* transaction of that machine.
Calm(n) ==
  /\ db'[n].winner = db[n].winner
  /\ \A x \in Attempt : Launched(db'[n], x) => Launched(db[n], x)

Outcome(n) == Calm(n) \/ Settles(n) \/ (\E x \in Attempt : LaunchFollows(n, x))

\* The database of another machine stays as it is.
LEMMA ElsewhereCalm ==
  ASSUME IInv, NEW m \in Machine, NEW n \in Machine, n # m,
         NEW value, db' = [db EXCEPT ![m] = value]
  PROVE  Outcome(n)
<1>1. db'[n] = db[n]
  BY Types
<1> QED BY <1>1 DEF Outcome, Calm

\* Finishing only releases.
LEMMA FinishCalm ==
  ASSUME IInv, NEW m \in Machine, NEW x \in Attempt, Finish(m, x),
         NEW n \in Machine
  PROVE  Calm(n)
<1> DEFINE row == [db[m].rows[x] EXCEPT !.released = db[m].rows[x].known]
           rows == [db[m].rows EXCEPT ![x] = row]
           d == [db[m] EXCEPT !.rows = rows]
<1>1. db' = [db EXCEPT ![m] = d] /\ Unfinished(proc[x]) /\ Owner[x] = m
  BY DEF Finish
<1>2. db[m] \in Database /\ db[m].rows \in [Attempt -> Row]
  BY Types DEF Database
<1>3. row.known = db[m].rows[x].known /\ row.launched = db[m].rows[x].launched
      /\ row.released = db[m].rows[x].known
  BY <1>2 DEF Row
<1> HIDE DEF row
<1>4. \A y \in Attempt : rows[y] = IF y = x THEN row ELSE db[m].rows[y]
  BY <1>2
<1> HIDE DEF rows
<1>5. d.winner = db[m].winner /\ d.rows = rows
  BY <1>2 DEF Database
<1> HIDE DEF d
<1>6. db'[n] = IF n = m THEN d ELSE db[n]
  BY <1>1, Types
<1>7. \A y \in Attempt : Launched(d, y) => Launched(db[m], y)
  BY <1>3, <1>4, <1>5 DEF Launched, Active
<1> QED BY <1>5, <1>6, <1>7 DEF Calm

\* Time and restarts touch neither rows nor winners.
LEMMA TickCalm ==
  ASSUME IInv, Tick, NEW n \in Machine
  PROVE  Calm(n)
<1>1. db'[n] = AgedDatabase(db[n])
  BY DEF Tick
<1>2. db[n] \in Database
  BY Types
<1>3. /\ AgedDatabase(db[n]).rows = db[n].rows
      /\ AgedDatabase(db[n]).winner = db[n].winner
  BY <1>2 DEF AgedDatabase, Database
<1> QED BY <1>1, <1>3 DEF Calm, Launched, Active

LEMMA RebootCalm ==
  ASSUME IInv, NEW m \in Machine, Reboot(m), NEW n \in Machine
  PROVE  Calm(n)
<1>1. db[m] \in Database
  BY Types
<1>2. db'[n].rows = db[n].rows /\ db'[n].winner = db[n].winner
  BY <1>1, Types DEF Reboot, Database
<1> QED BY <1>2 DEF Calm, Launched, Active

\* Every step.
LEMMA NextOutcome ==
  ASSUME IInv, [Next]_vars, NEW n \in Machine
  PROVE  Outcome(n)
<1> USE DEF Outcome
<1>1. CASE Tick
  BY <1>1, TickCalm
<1>2. ASSUME NEW m \in Machine, Maintain(m) PROVE Outcome(n)
  <2>1. CASE n = m
    BY <1>2, <2>1, MaintainStep
  <2>2. CASE n # m
    BY <1>2, <2>2, ElsewhereCalm DEF Maintain
  <2> QED BY <2>1, <2>2
<1>3. ASSUME NEW m \in Machine, Reboot(m) PROVE Outcome(n)
  BY <1>3, RebootCalm
<1>4. ASSUME NEW k \in Machine, NEW m \in Machine,
             NEW exchange \in timing.exchanges, HearPresence(k, m, exchange)
      PROVE  Outcome(n)
  <2>1. CASE n = m
    BY <1>4, <2>1, HearPresenceStep
  <2>2. CASE n # m
    BY <1>4, <2>2, ElsewhereCalm DEF HearPresence
  <2> QED BY <2>1, <2>2
<1>5. ASSUME NEW m \in Machine, NEW x \in Attempt, Reserve(m, x)
      PROVE  Outcome(n)
  <2>1. CASE n = m
    BY <1>5, <2>1, ReserveStep
  <2>2. CASE n # m
    BY <1>5, <2>2, ElsewhereCalm DEF Reserve
  <2> QED BY <2>1, <2>2
<1>6. ASSUME NEW m \in Machine, NEW x \in Attempt,
             LaunchRefused(m, x) \/ LaunchWait(m, x)
      PROVE  Outcome(n)
  <2>1. CASE n = m
    BY <1>6, <2>1, LaunchRefusedStep, LaunchWaitStep
  <2>2. CASE n # m
    BY <1>6, <2>2, ElsewhereCalm DEF LaunchRefused, LaunchWait
  <2> QED BY <2>1, <2>2
<1>7. ASSUME NEW m \in Machine, NEW x \in Attempt, Launch(m, x)
      PROVE  Outcome(n)
  <2>1. CASE n = m
    BY <1>7, <2>1, LaunchStep
  <2>2. CASE n # m
    BY <1>7, <2>2, ElsewhereCalm DEF Launch
  <2> QED BY <2>1, <2>2
<1>8. ASSUME NEW m \in Machine, NEW x \in Attempt, Finish(m, x)
      PROVE  Outcome(n)
  BY <1>8, FinishCalm
<1>9. ASSUME NEW m \in Machine, NEW x \in Attempt, Deliver(m, x)
      PROVE  Outcome(n)
  <2>1. CASE n = m
    BY <1>9, <2>1, DeliverStep
  <2>2. CASE n # m
    BY <1>9, <2>2, ElsewhereCalm DEF Deliver
  <2> QED BY <2>1, <2>2
<1>10. CASE UNCHANGED db
  BY <1>10 DEF Calm
<1>11. ASSUME NEW m \in Machine, NEW x \in Attempt, CheckJob(m, x) \/ Crash(m, x)
       PROVE  Outcome(n)
  BY <1>10, <1>11 DEF CheckJob, Crash
<1>12. CASE UNCHANGED vars
  BY <1>10, <1>12 DEF vars
<1> QED BY <1>1, <1>2, <1>3, <1>4, <1>5, <1>6, <1>7, <1>8, <1>9, <1>11, <1>12
    DEF Next

\* A launched attempt that has its task keeps it on every machine until its
\* owner releases it or a launch that precedes it arrives: every change of
\* winners is an election, and elect considers all launched attempts,
\* whatever their evidence says.
THEOREM LaunchesAreFenced == Spec => LaunchFence
<1>1. IInv /\ [Next]_vars =>
        \A n \in Machine, x \in Attempt :
          LET d == db[n]
              e == db'[n]
              w == e.winner[TaskOf[x]]
          IN /\ d.winner[TaskOf[x]] = x /\ w # x
             /\ Launched(d, x) /\ Launched(e, x)
             => /\ w # Null /\ Launched(e, w)
                /\ Precedes(e.rows[w], w, e.rows[x], x)
  <2> SUFFICES ASSUME IInv, [Next]_vars, NEW n \in Machine, NEW x \in Attempt,
                      db[n].winner[TaskOf[x]] = x,
                      db'[n].winner[TaskOf[x]] # x,
                      Launched(db'[n], x)
               PROVE  LET e == db'[n]
                          w == e.winner[TaskOf[x]]
                      IN /\ w # Null /\ Launched(e, w)
                         /\ Precedes(e.rows[w], w, e.rows[x], x)
    OBVIOUS
  <2>1. Decided(db'[n])
    BY NextOutcome DEF Outcome, Calm, Settles, LaunchFollows
  <2>2. db'[n] \in Database
    <3>1. IInv'
      BY NextIInv
    <3>2. timing' = timing
      BY TimingStays
    <3>3. Database' = Database
      BY <3>2 DEF Database, Observation, Pulse, Lease, Settle
    <3> QED BY <3>1, <3>3 DEF IInv, TypeOK
  <2> DEFINE e == db'[n]
             w == e.winner[TaskOf[x]]
  <2>3. e \in Database /\ Decided(e) /\ w # x
        /\ e.rows[x].known /\ ~e.rows[x].released /\ e.rows[x].launched # Null
    BY <2>1, <2>2 DEF Launched, Active
  <2> HIDE DEF e
  <2>4. w \in Attempt /\ Active(e, w) /\ Displaces(e, w, x)
    BY <2>3, DecidedFences
  <2>5. w # Null
    BY <2>4, OwnersAssumption
  <2>6. /\ w # Null /\ Launched(e, w)
        /\ Precedes(e.rows[w], w, e.rows[x], x)
    BY <2>4, <2>5 DEF Displaces, Launched
  <2> QED BY <2>6 DEF e
<1> QED BY <1>1, SpecIInv, PTL DEF Spec, LaunchFence

\* A running agent is told to stop by check_job only, and only when its
\* machine has elected another attempt: the fence says that this one was
\* launched and precedes, and rows are copies, so that its owner launched it.
THEOREM LosersOnlyStop == Spec => OnlyLosersStop
<1>1. IInv /\ [Next]_vars =>
        \A x \in Attempt :
          proc[x] = "running" /\ proc'[x] = "stopping" =>
            \E y \in Attempt :
              LET r == db[Owner[y]].rows[y]
              IN /\ TaskOf[y] = TaskOf[x] /\ r.launched # Null
                 /\ Precedes(r, y, db[Owner[x]].rows[x], x)
  <2> SUFFICES ASSUME IInv, [Next]_vars, NEW x \in Attempt,
                      proc[x] = "running", proc'[x] = "stopping"
               PROVE  \E y \in Attempt :
                        LET r == db[Owner[y]].rows[y]
                        IN /\ TaskOf[y] = TaskOf[x] /\ r.launched # Null
                           /\ Precedes(r, y, db[Owner[x]].rows[x], x)
    OBVIOUS
  <2>1. PICK n \in Machine : CheckJob(n, x)
    <3>1. ASSUME NEW n \in Machine, NEW z \in Attempt,
                 \/ Reserve(n, z) \/ LaunchRefused(n, z) \/ Launch(n, z)
                 \/ Finish(n, z) \/ Crash(n, z)
          PROVE  FALSE
      BY <3>1, Types DEF Reserve, LaunchRefused, Launch, Finish, Crash
    <3>2. ASSUME NEW n \in Machine, Reboot(n) PROVE FALSE
      BY <3>2, Types DEF Reboot
    <3>3. proc' # proc
      OBVIOUS
    <3>4. ASSUME NEW n \in Machine, NEW z \in Attempt, CheckJob(n, z), z # x
          PROVE  FALSE
      BY <3>4, Types DEF CheckJob
    <3>5. /\ ~Tick /\ ~UNCHANGED vars
          /\ \A n \in Machine : ~Maintain(n)
          /\ \A m, n \in Machine, exchange \in timing.exchanges :
               ~HearPresence(m, n, exchange)
          /\ \A n \in Machine, z \in Attempt :
               ~LaunchWait(n, z) /\ ~Deliver(n, z)
      BY <3>3 DEF Tick, vars, Maintain, HearPresence, LaunchWait, Deliver
    <3> QED BY <3>1, <3>2, <3>4, <3>5 DEF Next
  <2> DEFINE d == db[Owner[x]]
             w == d.winner[TaskOf[x]]
  <2>2. d.rows[x].known /\ w # x
    BY <2>1 DEF CheckJob, Owns
  <2>3. w \in Attempt /\ Displaces(d, w, x)
    BY <2>2, Types DEF Fenced, OwnRow
  <2> DEFINE r == db[Owner[w]].rows[w]
             s == d.rows[w]
  <2>4. s.launched # Null /\ r.launched = s.launched /\ r.ticket = s.ticket
    BY <2>3, Types DEF Good, Copied, OwnRow, Displaces
  <2>5. TaskOf[w] = TaskOf[x] /\ Precedes(s, w, d.rows[x], x)
    BY <2>3 DEF Displaces
  <2>6. Precedes(r, w, d.rows[x], x)
    BY <2>4, <2>5 DEF Precedes
  <2> QED BY <2>3, <2>4, <2>5, <2>6
<1> QED BY <1>1, SpecIInv, PTL DEF Spec, OnlyLosersStop

\* A launch follows what its machine knows: it is numbered after every
\* reservation and launch there, and it is refused while another attempt of
\* the task is known to be launched.
THEOREM LaunchesFollow == Spec => LaunchesFollowKnowledge
<1>1. IInv /\ [Next]_vars =>
        \A n \in Machine, x, y \in Attempt :
          /\ ~Launched(db[n], x) /\ Launched(db'[n], x)
          /\ Owner[x] = n /\ x \notin Legacy
          /\ y # x /\ db[n].rows[y].known
          => LET r == db'[n].rows[x]
                 s == db[n].rows[y]
             IN /\ s.launched # Null => r.launched > s.launched
                /\ r.launched > s.ticket
                /\ ~(TaskOf[x] = TaskOf[y] /\ Launched(db'[n], y))
  <2> SUFFICES ASSUME IInv, [Next]_vars, NEW n \in Machine,
                      NEW x \in Attempt, NEW y \in Attempt,
                      ~Launched(db[n], x), Launched(db'[n], x),
                      Owner[x] = n, x \notin Legacy,
                      y # x, db[n].rows[y].known
               PROVE  LET r == db'[n].rows[x]
                          s == db[n].rows[y]
                      IN /\ s.launched # Null => r.launched > s.launched
                         /\ r.launched > s.ticket
                         /\ ~(TaskOf[x] = TaskOf[y] /\ Launched(db'[n], y))
    OBVIOUS
  <2>1. LaunchFollows(n, x)
    <3>1. PICK z \in Attempt : LaunchFollows(n, z)
      BY NextOutcome DEF Outcome, Calm, Settles
    <3>2. z = x
      BY <3>1 DEF LaunchFollows
    <3> QED BY <3>1, <3>2
  <2> QED BY <2>1 DEF LaunchFollows
<1> QED BY <1>1, SpecIInv, PTL DEF Spec, LaunchesFollowKnowledge

----------------------------------------------------------------------------
(***************************************************************************)
(* Evidence and time: a second invariant, SInv, says that no machine loses *)
(* the evidence for an attempt of its own that lives and, in a fleet that  *)
(* keeps its times, how long a machine that does not know an attempt has   *)
(* been behind and what keeps a second launch from happening.              *)
(***************************************************************************)

\* What a transaction makes of the observation of an attempt.
Last(d, x) == IF d.seen[x].boot = "current" THEN d.seen[x].seen ELSE -1

Heard(d, x) ==
  LET p == d.pulses[Owner[x]]
  IN p.boot = "current" /\ p.sequence >= d.rows[x].after /\ p.sequence > Last(d, x)

Evidence(d, x) ==
  LET p == d.pulses[Owner[x]]
  IN IF Heard(d, x) THEN (IF x \in p.attempts THEN p.left ELSE 0)
     ELSE IF d.seen[x].boot = "current" THEN d.seen[x].left
     ELSE IF d.seen[x].boot = "none" THEN Lease ELSE 0

\* The time that settling leaves to wait.
Remaining(d, x) == IF d.seen[x].boot = "current" THEN d.seen[x].wait ELSE Settle

Watches(e, d, x) ==
  IF Active(d, x)
  THEN /\ e.seen[x].boot = "current"
       /\ e.seen[x].wait = Remaining(d, x)
       /\ e.seen[x].left = Evidence(d, x)
       /\ e.seen[x].seen = IF Heard(d, x) THEN d.pulses[Owner[x]].sequence
                                          ELSE Last(d, x)
  ELSE e.seen[x] = d.seen[x]

\* Observing and heeding do to every observation what Watches says.
LEMMA HeedWatches ==
  ASSUME timing \in Timings, NEW d \in Database, NEW x \in Attempt
  PROVE  Watches(Heed(Observe(d)), d, x)
<1> DEFINE o == Observe(d)
           h == Heed(o)
           s == d.seen[x]
           p == d.pulses[Owner[x]]
<1>1. /\ s \in Observation /\ p \in Pulse /\ d.rows[x] \in Row
  BY OwnersAssumption DEF Database
<1>2. /\ s.boot \in {"none", "stale", "current"}
      /\ s.seen \in Int /\ p.sequence \in Int /\ d.rows[x].after \in Int
      /\ p.sequence >= -1
  BY <1>1 DEF Observation, Pulse, Row
<1>3. o \in Database /\ Kept(o, d)
  BY ObserveKeeps
<1>4. o.seen[x] = IF Active(d, x) /\ s.boot = "none"
                  THEN [boot |-> "current", left |-> Lease, wait |-> Settle,
                        seen |-> -1]
                  ELSE IF Active(d, x) /\ s.boot = "stale"
                  THEN [boot |-> "current", left |-> 0, wait |-> Settle,
                        seen |-> -1]
                  ELSE s
  BY DEF Observe, Database
<1>5. h.seen[x] = IF ~Heeded(o, x) THEN o.seen[x]
                  ELSE [o.seen[x] EXCEPT
                          !.seen = o.pulses[Owner[x]].sequence,
                          !.left = IF x \in o.pulses[Owner[x]].attempts
                                   THEN o.pulses[Owner[x]].left ELSE 0]
  BY <1>3 DEF Heed, Database
<1> DEFINE q == o.seen[x]
<1> HIDE DEF o, h
<1>6. /\ o.pulses[Owner[x]] = p /\ o.rows[x] = d.rows[x]
      /\ Active(o, x) = Active(d, x)
  BY <1>3 DEF Kept, Active
<1>7. /\ q \in Observation
      /\ q.boot = IF Active(d, x) THEN "current" ELSE s.boot
      /\ Active(d, x) => /\ q.wait = Remaining(d, x)
                         /\ q.seen = Last(d, x)
                         /\ q.left = IF s.boot = "current" THEN s.left
                                     ELSE IF s.boot = "none" THEN Lease ELSE 0
      /\ ~Active(d, x) => q = s
  <2>1. q \in Observation
    BY <1>3 DEF Database
  <2>2. CASE Active(d, x) /\ s.boot = "none"
    BY <1>4, <2>1, <2>2 DEF Remaining, Last
  <2>3. CASE Active(d, x) /\ s.boot = "stale"
    BY <1>4, <2>1, <2>3 DEF Remaining, Last
  <2>4. CASE Active(d, x) /\ s.boot = "current"
    BY <1>4, <2>1, <2>4 DEF Remaining, Last
  <2>5. CASE ~Active(d, x)
    BY <1>4, <2>1, <2>5
  <2> QED BY <1>2, <2>1, <2>2, <2>3, <2>4, <2>5
<1>8. Heeded(o, x) <=> Active(d, x) /\ Heard(d, x)
  BY <1>6, <1>7 DEF Heeded, Heard
<1> DEFINE left == IF x \in p.attempts THEN p.left ELSE 0
<1>9. h.seen[x] = IF ~Heeded(o, x) THEN q
                  ELSE [q EXCEPT !.seen = p.sequence, !.left = left]
  BY <1>5, <1>6
<1>10. CASE ~Active(d, x)
  BY <1>7, <1>8, <1>9, <1>10 DEF Watches, h, o
<1>11. CASE Active(d, x) /\ ~Heard(d, x)
  BY <1>7, <1>8, <1>9, <1>11 DEF Watches, Evidence, h, o
<1>12. CASE Active(d, x) /\ Heard(d, x)
  <2>1. Evidence(d, x) = left
    BY <1>12 DEF Evidence
  <2> HIDE DEF q, left, p
  <2>2. h.seen[x] = [q EXCEPT !.seen = p.sequence, !.left = left]
    BY <1>8, <1>9, <1>12
  <2>3. /\ h.seen[x].boot = q.boot /\ h.seen[x].wait = q.wait
        /\ h.seen[x].seen = p.sequence /\ h.seen[x].left = left
    BY <1>7, <2>2 DEF Observation
  <2> QED BY <1>7, <1>12, <2>1, <2>3 DEF Watches, p, h, o
<1> QED BY <1>10, <1>11, <1>12

\* A renewal that takes place.
Renewed(c, d, n, run) ==
  /\ Refreshed(c, d, n, run)
  /\ c.seen = d.seen /\ c.winner = d.winner
  /\ \/ c = d /\ d.booted /\ ~d.due
     \/ /\ c.booted /\ ~c.due /\ c.sequence = d.sequence + 1
        /\ \A m \in Machine : m # n => c.pulses[m] = d.pulses[m]
        /\ c.pulses[n] = [boot |-> "current", sequence |-> d.sequence + 1,
                          attempts |-> Living(n, run), left |-> Lease]

LEMMA RenewRenews ==
  ASSUME timing \in Timings, NEW d \in Database, NEW n \in Machine,
         NEW run \in [Attempt -> Process]
  PROVE  /\ Renew(d, n, run) \in Database
         /\ Renewed(Renew(d, n, run), d, n, run)
<1>1. /\ Renew(d, n, run) \in Database
      /\ Refreshed(Renew(d, n, run), d, n, run)
  BY RenewRefreshes
<1>2. CASE d.booted /\ ~d.due
  <2>1. Renew(d, n, run) = d
    BY <1>2 DEF Renew
  <2> QED BY <1>1, <1>2, <2>1 DEF Renewed
<1>3. CASE ~(d.booted /\ ~d.due)
  <2> DEFINE e == Renew(d, n, run)
             pulse == [boot |-> "current", sequence |-> d.sequence + 1,
                       attempts |-> Living(n, run), left |-> Lease]
             pulses == [d.pulses EXCEPT ![n] = pulse]
             next == d.sequence + 1
             rows == e.rows
  <2>1. e = [d EXCEPT !.booted = TRUE, !.due = FALSE, !.sequence = next,
                      !.rows = rows, !.pulses = pulses]
    BY <1>3 DEF Renew, Living, Database
  <2>2. d.pulses \in [Machine -> Pulse]
    BY DEF Database
  <2> HIDE DEF pulse
  <2>3. /\ pulses[n] = pulse
        /\ \A m \in Machine : m # n => pulses[m] = d.pulses[m]
    BY <2>2
  <2> HIDE DEF e, pulses, next, rows
  <2>4. /\ e.booted = TRUE /\ e.due = FALSE /\ e.sequence = next
        /\ e.pulses = pulses /\ e.seen = d.seen /\ e.winner = d.winner
    BY <2>1 DEF Database
  <2> QED BY <1>1, <2>3, <2>4 DEF Renewed, e, next, pulse
<1> QED BY <1>2, <1>3

\* Evidence of a local attempt seems to have expired.
Expired(d, n, run) ==
  \E x \in Attempt :
    /\ Owner[x] = n /\ Active(d, x) /\ Unfinished(run[x])
    /\ \/ d.seen[x].boot = "stale"
       \/ d.seen[x].boot = "current" /\ d.seen[x].left = 0

\* A transaction may renew, and then observes, heeds and elects.
Reconciled(e, d, n, run) ==
  /\ Decided(e)
  /\ \E c \in Database :
       /\ (c = d /\ ~Expired(d, n, run)) \/ Renewed(c, d, n, run)
       /\ Kept(e, c)
       /\ \A x \in Attempt : Watches(e, c, x)

LEMMA ElectKeepsSeen ==
  ASSUME NEW d \in Database
  PROVE  Elect(d).seen = d.seen
BY DEF Elect, Database

LEMMA StatementsReconcile ==
  ASSUME timing \in Timings, NEW c \in Database
  PROVE  LET e == Elect(Heed(Observe(c)))
         IN /\ e \in Database /\ Decided(e) /\ Kept(e, c)
            /\ \A x \in Attempt : Watches(e, c, x)
<1> DEFINE o == Observe(c)
           h == Heed(o)
           e == Elect(h)
<1>1. o \in Database /\ Kept(o, c)
  BY ObserveKeeps
<1>2. h \in Database /\ Kept(h, o)
  BY <1>1, HeedKeeps
<1>3. \A x \in Attempt : Watches(h, c, x)
  BY HeedWatches
<1> HIDE DEF o, h
<1>4. e \in Database /\ Decided(e) /\ Kept(e, h) /\ e.seen = h.seen
  BY <1>2, ElectDecides, ElectKeepsSeen
<1> HIDE DEF e
<1>5. \A x \in Attempt : Watches(e, c, x)
  BY <1>3, <1>4 DEF Watches
<1> QED BY <1>1, <1>2, <1>4, <1>5 DEF Kept, e, h, o

LEMMA ReconcileReconciles ==
  ASSUME timing \in Timings, NEW d \in Database, NEW n \in Machine,
         NEW run \in [Attempt -> Process]
  PROVE  /\ Reconcile(d, n, run) \in Database
         /\ Reconciled(Reconcile(d, n, run), d, n, run)
<1> DEFINE c == IF Expired(d, n, run) THEN Renew(d, n, run) ELSE d
<1>1. Reconcile(d, n, run) = Elect(Heed(Observe(c)))
  BY DEF Reconcile, Expired
<1>2. /\ c \in Database
      /\ (c = d /\ ~Expired(d, n, run)) \/ Renewed(c, d, n, run)
  BY RenewRenews
<1> HIDE DEF c
<1> QED BY <1>1, <1>2, StatementsReconcile DEF Reconciled

\* maintain renews at most once.
LEMMA MaintainReconciles ==
  ASSUME timing \in Timings, NEW d \in Database, NEW n \in Machine,
         NEW run \in [Attempt -> Process]
  PROVE  LET e == Reconcile(Renew(d, n, run), n, run)
         IN e \in Database /\ Reconciled(e, d, n, run)
<1> DEFINE c == Renew(d, n, run)
           e == Reconcile(c, n, run)
<1>1. c \in Database /\ Renewed(c, d, n, run)
  BY RenewRenews
<1> HIDE DEF c
<1>2. Renew(c, n, run) = c
  BY <1>1 DEF Renewed, Renew
<1>3. e = Elect(Heed(Observe(c)))
  BY <1>2 DEF Reconcile
<1> HIDE DEF e
<1> QED BY <1>1, <1>3, StatementsReconcile DEF Reconciled, e, c

----------------------------------------------------------------------------
(* A living attempt on its own machine. *)

\* Its row is current, and what the machine's pulse may say of it has been
\* heeded; evidence is not renewed only while there is some.
Kindled(d, n, x) ==
  /\ ~d.rows[x].released
  /\ d.rows[x].after <= d.sequence + 1
  /\ Last(d, x) <= d.sequence

Sustained(d, n, run) ==
  /\ d.pulses[n].boot = "current" => d.pulses[n].sequence <= d.sequence
  /\ \A x \in Living(n, run) :
       IF d.rows[x].known
       THEN /\ Kindled(d, n, x)
            /\ d.seen[x].boot = "current" /\ ~Heard(d, x)
            /\ d.booted /\ ~d.due => d.seen[x].left > 0
       ELSE d.seen[x].boot = "none"

\* The same before the transaction observes and heeds.
Prepared(d, n, run) ==
  /\ d.pulses[n].boot = "current" => d.pulses[n].sequence <= d.sequence
  /\ \A x \in Living(n, run) :
       IF d.rows[x].known
       THEN /\ Kindled(d, n, x)
            /\ d.seen[x].boot # "stale"
            /\ Heard(d, x) => x \in d.pulses[n].attempts /\ d.pulses[n].left > 0
            /\ d.seen[x].boot = "current" /\ d.booted /\ ~d.due =>
                 d.seen[x].left > 0
       ELSE d.seen[x].boot = "none"

\* The evidence for the living attempts of a machine has not run out there.
Evident(d, n, run) ==
  \A x \in Living(n, run) :
    d.rows[x].known => /\ ~d.rows[x].released
                       /\ d.seen[x].boot = "current" /\ d.seen[x].left > 0

LEMMA SustainedIsPrepared ==
  ASSUME NEW d, NEW n, NEW run, Sustained(d, n, run)
  PROVE  Prepared(d, n, run)
BY DEF Sustained, Prepared

LEMMA LeasesLast ==
  ASSUME timing \in Timings
  PROVE  /\ timing.traversal \in Nat /\ timing.traversal > 0
         /\ Settle = 2 * timing.traversal
         /\ Settle > timing.traversal
         /\ Lease \in Nat /\ Lease >= Settle /\ Lease > 0
<1>1. /\ timing.traversal \in Nat \ {0} /\ timing.missed \in Nat \ {0}
  BY BoundsAssumption
<1> DEFINE t == timing.traversal
           m == timing.missed
<1>2. Settle = 2 * t /\ Lease = Settle * m
  BY <1>1 DEF Settle, SettleTraversals, Lease
<1>3. t \in Nat /\ m \in Nat /\ t > 0 /\ m > 0
  BY <1>1
<1> HIDE DEF t, m
<1>4. ASSUME NEW s \in Nat, NEW k \in Nat, k > 0 PROVE s * k >= s /\ s * k \in Nat
  BY <1>4, Z3
<1> HIDE DEF Settle, Lease
<1>5. Settle \in Nat /\ Settle > t /\ Settle > 0
  BY <1>2, <1>3
<1>6. Lease >= Settle /\ Lease \in Nat
  BY <1>2, <1>3, <1>4, <1>5
<1>7. Lease > 0
  BY <1>5, <1>6
<1> QED BY <1>2, <1>3, <1>5, <1>6, <1>7 DEF t

\* The types of what observations and pulses count.
LEMMA Counts ==
  ASSUME timing \in Timings, NEW d \in Database
  PROVE  /\ \A x \in Attempt :
              /\ d.seen[x].boot \in {"none", "stale", "current"}
              /\ d.seen[x].left \in Nat /\ d.seen[x].wait \in Nat
              /\ d.seen[x].seen \in Int /\ Last(d, x) \in Int
              /\ Remaining(d, x) \in Nat
         /\ \A m \in Machine :
              d.pulses[m].left \in Nat /\ d.pulses[m].sequence \in Int
<1>1. /\ \A x \in Attempt : d.seen[x] \in Observation
      /\ \A m \in Machine : d.pulses[m] \in Pulse
  BY DEF Database
<1>2. Lease \in Nat /\ Settle \in Nat
  BY TimesType
<1>3. \A m \in Machine :
        d.pulses[m].left \in Nat /\ d.pulses[m].sequence \in Int
  BY <1>1, <1>2 DEF Pulse
<1>4. \A x \in Attempt :
        /\ d.seen[x].boot \in {"none", "stale", "current"}
        /\ d.seen[x].left \in Nat /\ d.seen[x].wait \in Nat
        /\ d.seen[x].seen \in Int
  BY <1>1, <1>2 DEF Observation
<1> QED BY <1>2, <1>3, <1>4 DEF Last, Remaining

\* After a renewal, or when none is needed, living attempts have evidence.
LEMMA RenewalKindles ==
  ASSUME timing \in Timings, NEW d \in Database, NEW c \in Database,
         NEW n \in Machine, NEW run \in [Attempt -> Process],
         (c = d /\ ~Expired(d, n, run)) \/ Renewed(c, d, n, run),
         Prepared(d, n, run), NEW x \in Living(n, run)
  PROVE  IF c.rows[x].known
         THEN Kindled(c, n, x) /\ c.seen[x].boot # "stale" /\ Evidence(c, x) > 0
         ELSE c.seen[x].boot = "none"
<1>1. /\ x \in Attempt /\ Owner[x] = n /\ Alive(run[x])
      /\ Unfinished(run[x]) /\ run[x] # "dead"
  BY DEF Living, Unfinished, Alive
<1>2. /\ d.seen[x].boot \in {"none", "stale", "current"}
      /\ d.seen[x].left \in Nat /\ Last(d, x) \in Int
      /\ d.sequence \in Nat /\ d.rows[x].after \in Nat
      /\ Lease > 0
  BY <1>1, Counts, Parts, LeasesLast
<1>3. CASE c = d /\ (~Expired(d, n, run) \/ (d.booted /\ ~d.due))
  <2>1. CASE d.rows[x].known
    <3>1. /\ Kindled(d, n, x) /\ d.seen[x].boot # "stale"
          /\ Heard(d, x) => x \in d.pulses[n].attempts /\ d.pulses[n].left > 0
          /\ d.seen[x].boot = "current" /\ d.booted /\ ~d.due =>
               d.seen[x].left > 0
      BY <2>1 DEF Prepared
    <3>2. d.seen[x].boot = "current" => d.seen[x].left > 0
      <4>1. Active(d, x)
        BY <2>1, <3>1 DEF Kindled, Active
      <4> QED BY <1>1, <1>2, <1>3, <3>1, <4>1 DEF Expired
    <3>3. Evidence(d, x) > 0
      BY <1>1, <1>2, <3>1, <3>2 DEF Evidence
    <3> QED BY <1>3, <2>1, <3>1, <3>3
  <2>2. CASE ~d.rows[x].known
    BY <1>3, <2>2 DEF Prepared
  <2> QED BY <2>1, <2>2
<1>4. CASE /\ Renewed(c, d, n, run)
           /\ c.sequence = d.sequence + 1
           /\ c.pulses[n] = [boot |-> "current", sequence |-> d.sequence + 1,
                             attempts |-> Living(n, run), left |-> Lease]
  <2>1. /\ c.pulses[n].boot = "current"
        /\ c.pulses[n].sequence = d.sequence + 1
        /\ x \in c.pulses[n].attempts /\ c.pulses[n].left = Lease
    BY <1>4
  <2>2. /\ c.seen = d.seen /\ Last(c, x) = Last(d, x)
        /\ RowRefreshed(c, d, n, run, x) /\ c.rows[x].known
    <3>1. d.sequence < c.sequence
      BY <1>2, <1>4
    <3> QED BY <1>1, <1>4, <3>1 DEF Renewed, Refreshed, Last
  <2>3. CASE d.rows[x].known
    <3>1. /\ Kindled(d, n, x) /\ d.seen[x].boot # "stale"
      BY <2>3 DEF Prepared
    <3>2. c.rows[x] = d.rows[x]
      BY <1>1, <2>2, <2>3 DEF RowRefreshed
    <3>3. Kindled(c, n, x)
      BY <1>2, <1>4, <2>2, <3>1, <3>2 DEF Kindled
    <3>4. Heard(c, x)
      BY <1>1, <1>2, <2>1, <2>2, <3>1, <3>2 DEF Heard, Kindled
    <3>5. Evidence(c, x) > 0
      BY <1>1, <1>2, <2>1, <3>4 DEF Evidence
    <3> QED BY <2>2, <3>1, <3>3, <3>5
  <2>4. CASE ~d.rows[x].known
    <3>1. d.seen[x].boot = "none"
      BY <2>4 DEF Prepared
    <3>2. c.rows[x] = AdoptedRow(run[x])
      BY <2>2, <2>4 DEF RowRefreshed, SameLaunch
    <3>3. ~c.rows[x].released /\ c.rows[x].after = 0
      BY <3>2, AdoptedIsRow
    <3>4. Last(c, x) = -1
      BY <2>2, <3>1 DEF Last
    <3>5. Kindled(c, n, x)
      BY <1>2, <1>4, <3>3, <3>4 DEF Kindled
    <3>6. Heard(c, x)
      BY <1>1, <1>2, <2>1, <3>3, <3>4 DEF Heard
    <3>7. Evidence(c, x) > 0
      BY <1>1, <1>2, <2>1, <3>6 DEF Evidence
    <3> QED BY <2>2, <3>1, <3>5, <3>7
  <2> QED BY <2>3, <2>4
<1> QED BY <1>3, <1>4 DEF Renewed

\* A transaction sustains the attempts that it finds prepared.
LEMMA ReconciledSustains ==
  ASSUME timing \in Timings, NEW d \in Database, NEW e \in Database,
         NEW n \in Machine, NEW run \in [Attempt -> Process],
         Reconciled(e, d, n, run), Prepared(d, n, run)
  PROVE  Sustained(e, n, run) /\ Evident(e, n, run)
<1>1. PICK c \in Database :
        /\ (c = d /\ ~Expired(d, n, run)) \/ Renewed(c, d, n, run)
        /\ Kept(e, c)
        /\ \A x \in Attempt : Watches(e, c, x)
  BY DEF Reconciled
<1>2. c.pulses[n].boot = "current" => c.pulses[n].sequence <= c.sequence
  <2>1. CASE c = d
    BY <2>1 DEF Prepared
  <2>2. CASE c # d
    <3>1. /\ c.sequence = d.sequence + 1
          /\ c.pulses[n] = [boot |-> "current", sequence |-> d.sequence + 1,
                            attempts |-> Living(n, run), left |-> Lease]
      BY <1>1, <2>2 DEF Renewed
    <3>2. c.sequence \in Nat
      BY Parts
    <3> QED BY <3>1, <3>2
  <2> QED BY <2>1, <2>2
<1>3. ASSUME NEW x \in Living(n, run)
      PROVE  IF e.rows[x].known
             THEN /\ Kindled(e, n, x)
                  /\ e.seen[x].boot = "current" /\ ~Heard(e, x)
                  /\ e.seen[x].left > 0
             ELSE e.seen[x].boot = "none"
  <2>1. x \in Attempt /\ Owner[x] = n
    BY DEF Living
  <2>2. IF c.rows[x].known
        THEN Kindled(c, n, x) /\ c.seen[x].boot # "stale" /\ Evidence(c, x) > 0
        ELSE c.seen[x].boot = "none"
    BY <1>1, RenewalKindles
  <2>3. /\ e.rows = c.rows /\ e.pulses = c.pulses /\ e.sequence = c.sequence
        /\ Watches(e, c, x)
    BY <1>1, <2>1 DEF Kept
  <2>4. CASE c.rows[x].known
    <3>1. /\ e.seen[x].boot = "current" /\ e.seen[x].left > 0
          /\ e.seen[x].seen = IF Heard(c, x) THEN c.pulses[n].sequence
                                             ELSE Last(c, x)
      BY <2>1, <2>2, <2>3, <2>4 DEF Watches, Active, Kindled
    <3>2. Last(e, x) = IF Heard(c, x) THEN c.pulses[n].sequence ELSE Last(c, x)
      BY <3>1 DEF Last
    <3>3. /\ Last(c, x) \in Int /\ c.pulses[n].sequence \in Int
          /\ c.rows[x].after \in Int
      BY <2>1, Counts, Parts
    <3>4. ~Heard(e, x)
      BY <2>1, <2>3, <3>2, <3>3 DEF Heard
    <3>5. Kindled(e, n, x)
      BY <1>2, <2>1, <2>2, <2>3, <2>4, <3>2, <3>3 DEF Kindled, Heard
    <3> QED BY <2>3, <2>4, <3>1, <3>4, <3>5
  <2>5. CASE ~c.rows[x].known
    BY <2>2, <2>3, <2>5 DEF Watches, Active
  <2> QED BY <2>4, <2>5
<1>4. e.pulses[n].boot = "current" => e.pulses[n].sequence <= e.sequence
  BY <1>1, <1>2 DEF Kept
<1> QED BY <1>3, <1>4 DEF Sustained, Evident, Kindled

----------------------------------------------------------------------------
(* A living attempt on the other machines, in a fleet that keeps its times. *)

Fresh == Attempt \ Legacy

\* Database d has evidence for the attempt whose owner's row is r, or what
\* arrives before the row is fresh enough to be evidence when it does: late
\* counts the ticks that d has been behind.
Followed(d, x, r, late) ==
  IF d.rows[x].known
  THEN /\ ~d.rows[x].released /\ d.rows[x].after = r.after
       /\ d.seen[x].boot = "current" /\ d.seen[x].left > 0
       /\ ~Heard(d, x)
  ELSE LET p == d.pulses[Owner[x]]
       IN /\ d.seen[x].boot = "none"
          /\ r.known /\ p.boot = "current" /\ p.sequence >= r.after =>
               p.left + late >= timing.traversal

\* The same before the transaction observes and heeds.
Coming(d, x, r, late) ==
  LET p == d.pulses[Owner[x]]
  IN IF d.rows[x].known
     THEN /\ ~d.rows[x].released /\ d.rows[x].after = r.after
          /\ \/ d.seen[x].boot = "none"
             \/ d.seen[x].boot = "current" /\ d.seen[x].left > 0
          /\ Heard(d, x) => x \in p.attempts /\ p.left > 0
     ELSE /\ d.seen[x].boot = "none"
          /\ r.known /\ p.boot = "current" /\ p.sequence >= r.after =>
               p.left + late >= timing.traversal

LEMMA FollowedIsComing ==
  ASSUME NEW d, NEW x, NEW r, NEW late, Followed(d, x, r, late)
  PROVE  Coming(d, x, r, late)
BY DEF Followed, Coming

\* A transaction of another machine leaves the rows of its owner's attempts.
LEMMA ReconciledRows ==
  ASSUME timing \in Timings, NEW d \in Database, NEW e \in Database,
         NEW n \in Machine, NEW run \in [Attempt -> Process],
         Reconciled(e, d, n, run)
  PROVE  /\ \A x \in Attempt : RowRefreshed(e, d, n, run, x)
         /\ \A x \in Attempt : Remaining(e, x) = Remaining(d, x)
         /\ \A x \in Attempt :
              ~d.rows[x].known /\ d.seen[x].boot = "none" /\ ~e.rows[x].known =>
                e.seen[x].boot = "none"
<1>1. PICK c \in Database :
        /\ (c = d /\ ~Expired(d, n, run)) \/ Renewed(c, d, n, run)
        /\ Kept(e, c)
        /\ \A x \in Attempt : Watches(e, c, x)
  BY DEF Reconciled
<1>2. \A x \in Attempt : RowRefreshed(c, d, n, run, x)
  BY <1>1 DEF Renewed, Refreshed, RowRefreshed
<1>3. e.rows = c.rows /\ c.seen = d.seen /\ d.sequence <= c.sequence
      /\ e.sequence = c.sequence
  <2>1. d.sequence \in Nat
    BY Parts
  <2> QED BY <1>1, <2>1 DEF Kept, Renewed, Refreshed
<1>4. \A x \in Attempt : RowRefreshed(e, d, n, run, x)
  BY <1>2, <1>3 DEF RowRefreshed
<1>5. ASSUME NEW x \in Attempt PROVE Remaining(e, x) = Remaining(d, x)
  <2>1. Watches(e, c, x) /\ Remaining(c, x) = Remaining(d, x)
    BY <1>1, <1>3 DEF Remaining
  <2>2. CASE Active(c, x)
    BY <2>1, <2>2 DEF Watches, Remaining
  <2>3. CASE ~Active(c, x)
    BY <1>3, <2>1, <2>3 DEF Watches, Remaining
  <2> QED BY <2>2, <2>3
<1>6. ASSUME NEW x \in Attempt, d.seen[x].boot = "none", ~e.rows[x].known
      PROVE  e.seen[x].boot = "none"
  BY <1>1, <1>3, <1>6 DEF Watches, Active
<1> QED BY <1>4, <1>5, <1>6

\* A transaction follows the foreign attempts that it finds coming.
LEMMA ReconciledFollows ==
  ASSUME timing \in Timings, NEW d \in Database, NEW e \in Database,
         NEW n \in Machine, NEW run \in [Attempt -> Process],
         Reconciled(e, d, n, run), NEW x \in Attempt, Owner[x] # n,
         NEW r, NEW late, Coming(d, x, r, late)
  PROVE  Followed(e, x, r, late)
<1>1. PICK c \in Database :
        /\ (c = d /\ ~Expired(d, n, run)) \/ Renewed(c, d, n, run)
        /\ Kept(e, c)
        /\ \A y \in Attempt : Watches(e, c, y)
  BY DEF Reconciled
<1>2. Owner[x] \in Machine
  BY OwnersAssumption
<1>3. /\ c.rows[x] = d.rows[x] /\ c.seen = d.seen
      /\ c.pulses[Owner[x]] = d.pulses[Owner[x]]
  <2>1. Renewed(c, d, n, run) => RowRefreshed(c, d, n, run, x)
    BY DEF Renewed, Refreshed
  <2> QED BY <1>1, <1>2, <2>1 DEF Renewed, RowRefreshed, Living
<1>4. Last(c, x) = Last(d, x) /\ Heard(c, x) = Heard(d, x)
  BY <1>3 DEF Last, Heard
<1>5. e.rows[x] = d.rows[x] /\ e.pulses[Owner[x]] = d.pulses[Owner[x]]
      /\ Watches(e, c, x)
  BY <1>1, <1>3 DEF Kept
<1>6. CASE d.rows[x].known
  <2>1. /\ ~d.rows[x].released /\ d.rows[x].after = r.after
        /\ \/ d.seen[x].boot = "none"
           \/ d.seen[x].boot = "current" /\ d.seen[x].left > 0
        /\ Heard(d, x) => /\ x \in d.pulses[Owner[x]].attempts
                          /\ d.pulses[Owner[x]].left > 0
    BY <1>6 DEF Coming
  <2>2. Evidence(c, x) > 0
    BY <1>3, <1>4, <2>1, LeasesLast DEF Evidence
  <2>3. /\ e.seen[x].boot = "current" /\ e.seen[x].left > 0
        /\ Last(e, x) = IF Heard(d, x) THEN d.pulses[Owner[x]].sequence
                                       ELSE Last(d, x)
    BY <1>3, <1>4, <1>5, <1>6, <2>1, <2>2 DEF Watches, Active, Last
  <2>4. Last(d, x) \in Int /\ d.pulses[Owner[x]].sequence \in Int
        /\ d.rows[x].after \in Int
    BY <1>2, Counts, Parts
  <2>5. ~Heard(e, x)
    BY <1>5, <2>3, <2>4 DEF Heard
  <2> QED BY <1>5, <1>6, <2>1, <2>3, <2>5 DEF Followed
<1>7. CASE ~d.rows[x].known
  <2>1. e.seen[x].boot = "none"
    BY <1>3, <1>5, <1>7 DEF Watches, Active, Coming
  <2> QED BY <1>5, <1>7, <2>1 DEF Followed, Coming
<1> QED BY <1>6, <1>7

----------------------------------------------------------------------------
(* The invariant of evidence and time, of any databases b, runs and lags. *)

\* An attempt that was picked up has its row on its own machine.
Born(b, run) == \A x \in Fresh : Alive(run[x]) => OwnRow(b, x).known

\* A release that is known anywhere followed the end.
Ended(b, run) ==
  \A n \in Machine, x \in Attempt :
    b[n].rows[x].known /\ b[n].rows[x].released => ~Alive(run[x])

\* Rows are there before they are observed or win.
Blank(b) ==
  \A n \in Machine, x \in Attempt :
    ~b[n].rows[x].known => b[n].seen[x].boot = "none"

Elected(b) ==
  \A n \in Machine, t \in Task :
    LET w == b[n].winner[t]
    IN w # Null => w \in Attempt /\ b[n].rows[w].known

\* Winners stay known where they do not change and no row is lost.
LEMMA ElectedKept ==
  ASSUME NEW b, NEW c, Elected(b),
         \A m \in Machine : c[m].winner = b[m].winner,
         \A m \in Machine, y \in Attempt :
           b[m].rows[y].known => c[m].rows[y].known
  PROVE  Elected(c)
<1> SUFFICES ASSUME NEW m \in Machine, NEW t \in Task, c[m].winner[t] # Null
             PROVE  /\ c[m].winner[t] \in Attempt
                    /\ c[m].rows[c[m].winner[t]].known
  BY DEF Elected
<1> DEFINE w == b[m].winner[t]
<1>1. c[m].winner[t] = w
  OBVIOUS
<1>2. w \in Attempt /\ b[m].rows[w].known
  BY <1>1 DEF Elected
<1> HIDE DEF w
<1> QED BY <1>1, <1>2

\* A machine picks no task up twice.
Solo(run) ==
  \A x, y \in Fresh :
    /\ Owner[x] = Owner[y] /\ TaskOf[x] = TaskOf[y]
    /\ Unfinished(run[x]) /\ Unfinished(run[y])
    => x = y

\* No machine is behind for a traversal.
Caught(late) ==
  \A n \in Machine, x \in Attempt : late[n][x] < timing.traversal

\* A machine that does not know a reservation has been behind for all the
\* time that its owner has waited.
Spread(b, late) ==
  \A n \in Machine, x \in Fresh :
    /\ Owner[x] # n /\ OwnRow(b, x).known /\ ~b[n].rows[x].known
    => late[n][x] + Remaining(b[Owner[x]], x) >= Settle

Executes(b, run, x) ==
  run[x] \in {"running", "stopping"} /\ OwnRow(b, x).launched # Null

\* x was reserved before y.
Earlier(b, x, y) ==
  LET r == OwnRow(b, x)
      s == OwnRow(b, y)
  IN r.ticket < s.ticket \/ (r.ticket = s.ticket /\ Rank[x] < Rank[y])

\* What keeps y from being launched once x is: its machine knows the launch,
\* it knows that x was reserved before, or it will know the launch before the
\* settling of y is over.
Warned(b, late, x, y) ==
  LET m == Owner[y]
      r == b[m].rows[x]
  IN \/ r.known /\ r.launched # Null
     \/ r.known /\ Earlier(b, x, y)
     \/ late[m][x] + Remaining(b[m], y) > timing.traversal

AllWarned(b, run, late) ==
  \A x, y \in Fresh :
    /\ TaskOf[x] = TaskOf[y] /\ Owner[x] # Owner[y]
    /\ Executes(b, run, x) /\ run[y] = "reserved"
    => Warned(b, late, x, y)

Exclusive(b, run) ==
  \A x, y \in Fresh :
    TaskOf[x] = TaskOf[y] /\ Executes(b, run, x) /\ Executes(b, run, y) => x = y

Timely(b, run, late) ==
  Caught(late) /\ Spread(b, late) /\ AllWarned(b, run, late) /\ Exclusive(b, run)

AllFollowed(b, n, run, late) ==
  \A x \in Fresh :
    Owner[x] # n /\ Alive(run[x]) => Followed(b[n], x, OwnRow(b, x), late[n][x])

AllComing(b, n, run, late) ==
  \A x \in Fresh :
    Owner[x] # n /\ Alive(run[x]) => Coming(b[n], x, OwnRow(b, x), late[n][x])

Steady(b, run) ==
  Born(b, run) /\ Ended(b, run) /\ Blank(b) /\ Elected(b) /\ Solo(run)

Sound(b, run, late) ==
  /\ Steady(b, run)
  /\ \A n \in Machine : Sustained(b[n], n, run)
  /\ timing.kept => /\ Timely(b, run, late)
                    /\ \A n \in Machine : AllFollowed(b, n, run, late)

\* The same while machine n is in a transaction.
Ready(b, n, run, late) ==
  /\ Steady(b, run)
  /\ Prepared(b[n], n, run)
  /\ \A m \in Machine : m # n => Sustained(b[m], m, run)
  /\ timing.kept => /\ Timely(b, run, late)
                    /\ AllComing(b, n, run, late)
                    /\ \A m \in Machine : m # n => AllFollowed(b, m, run, late)

LEMMA SoundIsReady ==
  ASSUME NEW b, NEW run, NEW late, Sound(b, run, late), NEW n \in Machine
  PROVE  Ready(b, n, run, late)
<1>1. Prepared(b[n], n, run)
  BY SustainedIsPrepared DEF Sound
<1>2. timing.kept => AllComing(b, n, run, late)
  BY FollowedIsComing DEF Sound, AllComing, AllFollowed
<1> QED BY <1>1, <1>2 DEF Sound, Ready

\* What Timely is about stays the same.
SameTimes(c, b) ==
  /\ \A n \in Machine, x \in Fresh : SameLaunch(c[n].rows[x], b[n].rows[x])
  /\ \A x \in Fresh : Remaining(c[Owner[x]], x) = Remaining(b[Owner[x]], x)

LEMMA TimelyKept ==
  ASSUME NEW b, NEW c, NEW run, NEW late, SameTimes(c, b), Timely(b, run, late)
  PROVE  Timely(c, run, late)
<1>1. \A x \in Fresh : x \in Attempt /\ Owner[x] \in Machine
  BY OwnersAssumption DEF Fresh
<1>2. /\ \A n \in Machine, x \in Fresh : SameLaunch(c[n].rows[x], b[n].rows[x])
      /\ \A x \in Fresh : SameLaunch(OwnRow(c, x), OwnRow(b, x))
  BY <1>1 DEF SameTimes, OwnRow
<1>3. Spread(c, late)
  BY <1>2 DEF Timely, Spread, SameTimes, SameLaunch
<1>4. \A x \in Fresh : Executes(c, run, x) <=> Executes(b, run, x)
  BY <1>2 DEF Executes, SameLaunch
<1>5. AllWarned(c, run, late)
  <2> SUFFICES ASSUME NEW x \in Fresh, NEW y \in Fresh,
                      TaskOf[x] = TaskOf[y], Owner[x] # Owner[y],
                      Executes(c, run, x), run[y] = "reserved"
               PROVE  Warned(c, late, x, y)
    BY DEF AllWarned
  <2>1. Warned(b, late, x, y)
    BY <1>4 DEF Timely, AllWarned
  <2>2. Earlier(b, x, y) => Earlier(c, x, y)
    BY <1>2 DEF Earlier, SameLaunch
  <2>3. /\ SameLaunch(c[Owner[y]].rows[x], b[Owner[y]].rows[x])
        /\ Remaining(c[Owner[y]], y) = Remaining(b[Owner[y]], y)
    BY <1>1, <1>2 DEF SameTimes
  <2> QED BY <2>1, <2>2, <2>3 DEF Warned, SameLaunch
<1>6. Exclusive(c, run)
  BY <1>4 DEF Timely, Exclusive
<1> QED BY <1>3, <1>5, <1>6 DEF Timely

\* A machine never forgets a reservation.
Remembers(e, d) == \A x \in Attempt : d.rows[x].known => e.rows[x].known

\* A transaction that finds everything ready leaves everything sound.
LEMMA TransactionSound ==
  ASSUME timing \in Timings, NEW b \in [Machine -> Database], NEW n \in Machine,
         NEW run \in [Attempt -> Process], NEW late, NEW e \in Database,
         Ready(b, n, run, late), Reconciled(e, b[n], n, run)
  PROVE  /\ Sound([b EXCEPT ![n] = e], run, late)
         /\ Evident(e, n, run) /\ Remembers(e, b[n])
<1> DEFINE c == [b EXCEPT ![n] = e]
           d == b[n]
<1>1. \A m \in Machine : c[m] = IF m = n THEN e ELSE b[m]
  OBVIOUS
<1>2. d \in Database /\ Reconciled(e, d, n, run) /\ Prepared(d, n, run)
  BY DEF Ready
<1>3. \A x \in Attempt : Owner[x] \in Machine
  BY OwnersAssumption
<1> HIDE DEF c
<1>4. /\ \A x \in Attempt : RowRefreshed(e, d, n, run, x)
      /\ \A x \in Attempt : Remaining(e, x) = Remaining(d, x)
      /\ \A x \in Attempt :
           ~d.rows[x].known /\ d.seen[x].boot = "none" /\ ~e.rows[x].known =>
             e.seen[x].boot = "none"
  BY <1>2, ReconciledRows
<1>5. Sustained(e, n, run) /\ Evident(e, n, run)
  BY <1>2, ReconciledSustains
<1>6. \A x \in Attempt : Owner[x] # n => e.rows[x] = d.rows[x]
  BY <1>4 DEF RowRefreshed, Living
<1>7. \A x \in Attempt :
        /\ d.rows[x].known =>
             SameLaunch(e.rows[x], d.rows[x]) /\ e.rows[x].known
        /\ e.rows[x].known /\ e.rows[x].released =>
             \/ run[x] = "dead"
             \/ d.rows[x].known /\ d.rows[x].released
  BY <1>4, AdoptedIsRow DEF RowRefreshed, SameLaunch
<1>8. \A x \in Fresh : SameLaunch(e.rows[x], d.rows[x])
  <2> SUFFICES ASSUME NEW x \in Fresh PROVE SameLaunch(e.rows[x], d.rows[x])
    OBVIOUS
  <2>1. x \in Attempt
    BY DEF Fresh
  <2>2. ~d.rows[x].known => x \notin Living(n, run)
    BY DEF Ready, Steady, Born, OwnRow, Living
  <2> QED BY <1>4, <2>1, <2>2 DEF RowRefreshed, SameLaunch
<1>9. SameTimes(c, b)
  <2>1. \A m \in Machine, x \in Fresh : SameLaunch(c[m].rows[x], b[m].rows[x])
    BY <1>1, <1>8 DEF SameLaunch
  <2>2. ASSUME NEW x \in Fresh
        PROVE  Remaining(c[Owner[x]], x) = Remaining(b[Owner[x]], x)
    <3>1. x \in Attempt
      BY DEF Fresh
    <3> QED BY <1>1, <1>3, <1>4, <3>1
  <2> QED BY <2>1, <2>2 DEF SameTimes
<1>10. Steady(c, run)
  <2>1. Born(c, run)
    BY <1>1, <1>3, <1>7 DEF Ready, Steady, Born, OwnRow, Fresh
  <2>2. Ended(c, run)
    <3> SUFFICES ASSUME NEW m \in Machine, NEW x \in Attempt,
                        c[m].rows[x].known, c[m].rows[x].released
                 PROVE  ~Alive(run[x])
      BY DEF Ended
    <3>1. CASE m = n
      BY <1>1, <1>7, <3>1 DEF Ready, Steady, Ended, Alive
    <3>2. CASE m # n
      BY <1>1, <3>2 DEF Ready, Steady, Ended
    <3> QED BY <3>1, <3>2
  <2>3. Blank(c)
    <3> SUFFICES ASSUME NEW m \in Machine, NEW x \in Attempt,
                        ~c[m].rows[x].known
                 PROVE  c[m].seen[x].boot = "none"
      BY DEF Blank
    <3>1. CASE m = n
      BY <1>1, <1>4, <1>7, <3>1 DEF Ready, Steady, Blank
    <3>2. CASE m # n
      BY <1>1, <3>2 DEF Ready, Steady, Blank
    <3> QED BY <3>1, <3>2
  <2>4. Elected(c)
    <3> SUFFICES ASSUME NEW m \in Machine, NEW t \in Task,
                        c[m].winner[t] # Null
                 PROVE  /\ c[m].winner[t] \in Attempt
                        /\ c[m].rows[c[m].winner[t]].known
      BY DEF Elected
    <3>1. CASE m = n
      <4>1. e.winner[t] \in Candidates(e, t)
        BY <1>1, <3>1 DEF Reconciled, Decided, Leads
      <4> QED BY <1>1, <3>1, <4>1 DEF Candidates, Standing, Active
    <3>2. CASE m # n
      BY <1>1, <3>2 DEF Ready, Steady, Elected
    <3> QED BY <3>1, <3>2
  <2> QED BY <2>1, <2>2, <2>3, <2>4 DEF Ready, Steady
<1>11. ASSUME timing.kept, NEW m \in Machine PROVE AllFollowed(c, m, run, late)
  <2> SUFFICES ASSUME NEW x \in Fresh, Owner[x] # m, Alive(run[x])
               PROVE  Followed(c[m], x, OwnRow(c, x), late[m][x])
    BY DEF AllFollowed
  <2>1. x \in Attempt /\ Owner[x] \in Machine
    BY <1>3 DEF Fresh
  <2>2. CASE m = n
    <3>1. OwnRow(c, x) = OwnRow(b, x)
      BY <1>1, <2>1, <2>2 DEF OwnRow
    <3>2. Coming(d, x, OwnRow(b, x), late[n][x])
      BY <1>11, <2>2 DEF Ready, AllComing
    <3> QED BY <1>1, <1>2, <2>1, <2>2, <3>1, <3>2, ReconciledFollows
  <2>3. CASE m # n
    <3>1. /\ OwnRow(c, x).known = OwnRow(b, x).known
          /\ OwnRow(c, x).after = OwnRow(b, x).after
      BY <1>1, <1>8, <2>1 DEF OwnRow, SameLaunch
    <3>2. Followed(b[m], x, OwnRow(b, x), late[m][x])
      BY <1>11, <2>3 DEF Ready, AllFollowed
    <3> QED BY <1>1, <2>3, <3>1, <3>2 DEF Followed
  <2> QED BY <2>2, <2>3
<1>12. timing.kept => Timely(c, run, late)
  BY <1>9, TimelyKept DEF Ready
<1>13. \A m \in Machine : Sustained(c[m], m, run)
  BY <1>1, <1>5 DEF Ready
<1> QED BY <1>5, <1>7, <1>10, <1>11, <1>12, <1>13 DEF Sound, Remembers, c

----------------------------------------------------------------------------
(* Every step keeps it. *)

SInv == Sound(db, proc, lag)

\* A transaction of a machine has decided with evidence for its own attempts.
Attentive(n) ==
  Decided(db'[n]) /\ Evident(db'[n], n, proc') /\ Remembers(db'[n], db[n])

\* Attempts that stop, die or finish.
Subsides(after, before) ==
  \A x \in Attempt :
    \/ after[x] = before[x]
    \/ /\ Unfinished(before[x])
       /\ after[x] \in {"stopping", "dead", "done"}
       /\ Alive(after[x]) => Alive(before[x])

LEMMA SubsideKeeps ==
  ASSUME NEW b, NEW late, NEW before \in [Attempt -> Process],
         NEW after \in [Attempt -> Process], Subsides(after, before),
         Truthful(b, before), Sound(b, before, late)
  PROVE  Sound(b, after, late)
<1>1. \A x \in Attempt :
        /\ Alive(after[x]) => Alive(before[x])
        /\ Unfinished(after[x]) => Unfinished(before[x])
        /\ after[x] = "reserved" => before[x] = "reserved"
  BY DEF Subsides, Unfinished, Alive
<1>2. \A x \in Fresh : x \in Attempt
  BY DEF Fresh
<1>3. \A x \in Fresh : Executes(b, after, x) => Executes(b, before, x)
  BY <1>2 DEF Executes, Subsides, Unfinished, Alive, Truthful
<1>4. Steady(b, after)
  BY <1>1, <1>2 DEF Sound, Steady, Born, Ended, Solo
<1>5. \A n \in Machine : Living(n, after) \subseteq Living(n, before)
  BY <1>1 DEF Living
<1>6. \A n \in Machine : Sustained(b[n], n, after)
  BY <1>5 DEF Sound, Sustained
<1>7. ASSUME timing.kept
      PROVE  /\ Timely(b, after, late)
             /\ \A n \in Machine : AllFollowed(b, n, after, late)
  <2>1. AllWarned(b, after, late)
    BY <1>1, <1>2, <1>3, <1>7 DEF Sound, Timely, AllWarned
  <2>2. Exclusive(b, after)
    BY <1>3, <1>7 DEF Sound, Timely, Exclusive
  <2>3. \A n \in Machine : AllFollowed(b, n, after, late)
    BY <1>1, <1>2, <1>7 DEF Sound, AllFollowed
  <2> QED BY <1>7, <2>1, <2>2, <2>3 DEF Sound, Timely
<1> QED BY <1>4, <1>6, <1>7 DEF Sound

\* A transaction that starts from the database of its machine.
LEMMA FromItself ==
  ASSUME IInv, SInv, NEW n \in Machine, NEW e \in Database,
         Reconciled(e, db[n], n, proc), db' = [db EXCEPT ![n] = e]
  PROVE  /\ Sound(db', proc, lag) /\ Decided(db'[n])
         /\ Evident(db'[n], n, proc) /\ Remembers(db'[n], db[n])
<1>1. Ready(db, n, proc, lag)
  BY SoundIsReady DEF SInv
<1>2. /\ Sound([db EXCEPT ![n] = e], proc, lag)
      /\ Evident(e, n, proc) /\ Remembers(e, db[n])
  BY <1>1, Types, TransactionSound
<1> QED BY <1>2, Types DEF Reconciled

LEMMA MaintainSound ==
  ASSUME IInv, SInv, NEW n \in Machine, Maintain(n)
  PROVE  Sound(db', proc', lag') /\ Attentive(n)
<1> DEFINE e == Reconcile(Renew(db[n], n, proc), n, proc)
<1>1. db' = [db EXCEPT ![n] = e] /\ UNCHANGED <<proc, lag>>
  BY DEF Maintain
<1>2. e \in Database /\ Reconciled(e, db[n], n, proc)
  BY Types, MaintainReconciles
<1> HIDE DEF e
<1> QED BY <1>1, <1>2, FromItself DEF Attentive

LEMMA LaunchWaitSound ==
  ASSUME IInv, SInv, NEW n \in Machine, NEW x \in Attempt, LaunchWait(n, x)
  PROVE  Sound(db', proc', lag') /\ Attentive(n)
<1> DEFINE e == Reconcile(db[n], n, proc)
<1>1. db' = [db EXCEPT ![n] = e] /\ UNCHANGED <<proc, lag>>
  BY DEF LaunchWait
<1>2. e \in Database /\ Reconciled(e, db[n], n, proc)
  BY Types, ReconcileReconciles
<1> HIDE DEF e
<1> QED BY <1>1, <1>2, FromItself DEF Attentive

LEMMA LaunchRefusedSound ==
  ASSUME IInv, SInv, NEW n \in Machine, NEW x \in Attempt, LaunchRefused(n, x)
  PROVE  Sound(db', proc', lag') /\ Attentive(n)
<1> DEFINE e == Reconcile(db[n], n, proc)
<1>1. /\ db' = [db EXCEPT ![n] = e] /\ UNCHANGED lag
      /\ proc[x] = "reserved" /\ proc' = [proc EXCEPT ![x] = "stopping"]
  BY DEF LaunchRefused
<1>2. e \in Database /\ Reconciled(e, db[n], n, proc)
  BY Types, ReconcileReconciles
<1>3. Good(db', proc)
  BY <1>1, ReconcileKeeps
<1> HIDE DEF e
<1>4. /\ Sound(db', proc, lag) /\ Decided(db'[n])
      /\ Evident(db'[n], n, proc) /\ Remembers(db'[n], db[n])
  BY <1>1, <1>2, FromItself
<1>5. proc' \in [Attempt -> Process] /\ Subsides(proc', proc)
  BY <1>1, Types DEF Subsides, Process, Unfinished, Alive
<1>6. Sound(db', proc', lag)
  BY <1>3, <1>4, <1>5, Types, SubsideKeeps DEF Good
<1>7. Living(n, proc') \subseteq Living(n, proc)
  BY <1>5 DEF Living, Subsides
<1>8. Evident(db'[n], n, proc')
  BY <1>4, <1>7 DEF Evident
<1> QED BY <1>1, <1>4, <1>6, <1>8 DEF Attentive

LEMMA CheckJobSound ==
  ASSUME IInv, SInv, NEW n \in Machine, NEW x \in Attempt, CheckJob(n, x)
  PROVE  Sound(db', proc', lag')
<1>1. /\ proc[x] \in {"reserved", "running"} /\ UNCHANGED <<db, lag>>
      /\ proc' = [proc EXCEPT ![x] = "stopping"]
  BY DEF CheckJob
<1>2. proc' \in [Attempt -> Process] /\ Subsides(proc', proc)
  BY <1>1, Types DEF Subsides, Process, Unfinished, Alive
<1> QED BY <1>1, <1>2, Types, SubsideKeeps DEF Good, SInv

LEMMA CrashSound ==
  ASSUME IInv, SInv, NEW n \in Machine, NEW x \in Attempt, Crash(n, x)
  PROVE  Sound(db', proc', lag')
<1>1. /\ Alive(proc[x]) /\ UNCHANGED <<db, lag>>
      /\ proc' = [proc EXCEPT ![x] = "dead"]
  BY DEF Crash
<1>2. proc' \in [Attempt -> Process] /\ Subsides(proc', proc)
  BY <1>1, Types DEF Subsides, Process, Unfinished, Alive
<1> QED BY <1>1, <1>2, Types, SubsideKeeps DEF Good, SInv

\* Finishing releases what has ended.
LEMMA FinishSound ==
  ASSUME IInv, SInv, NEW n \in Machine, NEW x \in Attempt, Finish(n, x)
  PROVE  Sound(db', proc', lag')
<1> DEFINE row == [db[n].rows[x] EXCEPT !.released = db[n].rows[x].known]
           rows == [db[n].rows EXCEPT ![x] = row]
           d == [db[n] EXCEPT !.rows = rows]
           c == db'
<1>1. /\ c = [db EXCEPT ![n] = d] /\ Unfinished(proc[x]) /\ Owner[x] = n
      /\ proc' = [proc EXCEPT ![x] = "done"] /\ UNCHANGED lag
  BY DEF Finish
<1>2. /\ proc' \in [Attempt -> Process] /\ Subsides(proc', proc)
      /\ ~Alive(proc'[x]) /\ Living(n, proc') \subseteq Attempt \ {x}
  BY <1>1, Types DEF Subsides, Process, Unfinished, Alive, Living
<1>3. Sound(db, proc', lag)
  BY <1>2, Types, SubsideKeeps DEF Good, SInv
<1>4. /\ db[n] \in Database /\ db[n].rows \in [Attempt -> Row]
  BY Types DEF Database
<1>5. SameLaunch(row, db[n].rows[x])
  BY <1>4 DEF Row, SameLaunch
<1> HIDE DEF row
<1>6. \A y \in Attempt : rows[y] = IF y = x THEN row ELSE db[n].rows[y]
  BY <1>4
<1> HIDE DEF rows
<1>7. /\ d.rows = rows /\ d.seen = db[n].seen /\ d.pulses = db[n].pulses
      /\ d.sequence = db[n].sequence /\ d.winner = db[n].winner
      /\ d.booted = db[n].booted /\ d.due = db[n].due
  BY <1>4 DEF Database
<1> HIDE DEF d
<1>8. \A m \in Machine :
        /\ c[m].seen = db[m].seen /\ c[m].pulses = db[m].pulses
        /\ c[m].sequence = db[m].sequence /\ c[m].winner = db[m].winner
        /\ c[m].booted = db[m].booted /\ c[m].due = db[m].due
        /\ \A y \in Attempt : ~(m = n /\ y = x) => c[m].rows[y] = db[m].rows[y]
        /\ \A y \in Attempt : SameLaunch(c[m].rows[y], db[m].rows[y])
  BY <1>1, <1>5, <1>6, <1>7, Types DEF SameLaunch
<1> HIDE DEF c
<1>9. Steady(c, proc')
  <2>1. Born(c, proc')
    BY <1>3, <1>8, Types DEF Sound, Steady, Born, OwnRow, SameLaunch, Fresh
  <2>2. Ended(c, proc')
    <3> SUFFICES ASSUME NEW m \in Machine, NEW y \in Attempt,
                        c[m].rows[y].known, c[m].rows[y].released
                 PROVE  ~Alive(proc'[y])
      BY DEF Ended
    <3>1. CASE y = x
      BY <1>2, <3>1
    <3>2. CASE y # x
      BY <1>3, <1>8, <3>2 DEF Sound, Steady, Ended
    <3> QED BY <3>1, <3>2
  <2>3. Blank(c)
    BY <1>3, <1>8 DEF Sound, Steady, Blank, SameLaunch
  <2>4. Elected(c)
    <3>1. Elected(db)
      BY <1>3 DEF Sound, Steady
    <3>2. /\ \A m \in Machine : c[m].winner = db[m].winner
          /\ \A m \in Machine, y \in Attempt :
               db[m].rows[y].known => c[m].rows[y].known
      BY <1>8 DEF SameLaunch
    <3> QED BY <3>1, <3>2, ElectedKept
  <2> QED BY <1>3, <2>1, <2>2, <2>3, <2>4 DEF Sound, Steady
<1>10. \A m \in Machine, y \in Attempt :
         /\ Last(c[m], y) = Last(db[m], y)
         /\ Heard(c[m], y) = Heard(db[m], y)
         /\ Remaining(c[m], y) = Remaining(db[m], y)
  BY <1>8 DEF Last, Heard, Remaining, SameLaunch
<1>11. ASSUME NEW m \in Machine PROVE Sustained(c[m], m, proc')
  <2>1. \A y \in Living(m, proc') : y \in Attempt /\ ~(m = n /\ y = x)
    BY <1>2 DEF Living
  <2>2. \A y \in Living(m, proc') : c[m].rows[y] = db[m].rows[y]
    BY <1>8, <2>1
  <2> QED BY <1>3, <1>8, <1>10, <2>1, <2>2 DEF Sound, Sustained, Kindled
<1>12. SameTimes(c, db)
  BY <1>8, <1>10, Types DEF SameTimes, Fresh
<1>13. ASSUME timing.kept, NEW m \in Machine PROVE AllFollowed(c, m, proc', lag)
  <2> SUFFICES ASSUME NEW y \in Fresh, Owner[y] # m, Alive(proc'[y])
               PROVE  Followed(c[m], y, OwnRow(c, y), lag[m][y])
    BY DEF AllFollowed
  <2>1. y \in Attempt /\ y # x
    BY <1>2 DEF Fresh
  <2>2. /\ c[m].rows[y] = db[m].rows[y] /\ OwnRow(c, y) = OwnRow(db, y)
    BY <1>8, <2>1, Types DEF OwnRow
  <2>3. Followed(db[m], y, OwnRow(db, y), lag[m][y])
    BY <1>3, <1>13 DEF Sound, AllFollowed
  <2> QED BY <1>8, <1>10, <2>1, <2>2, <2>3 DEF Followed
<1>14. timing.kept => Timely(c, proc', lag)
  BY <1>3, <1>12, TimelyKept DEF Sound
<1> QED BY <1>1, <1>9, <1>11, <1>13, <1>14 DEF Sound, c

\* A new reservation has all of its settling before it.
LEMMA ReserveSound ==
  ASSUME IInv, SInv, NEW n \in Machine, NEW x \in Attempt, Reserve(n, x)
  PROVE  Sound(db', proc', lag') /\ Attentive(n)
<1> DEFINE row == Reservation(db[n])
           clock == db[n].clock + 1
           rows == [db[n].rows EXCEPT ![x] = row]
           d == [db[n] EXCEPT !.clock = clock, !.rows = rows]
           e == Reconcile(d, n, proc')
           b == [db EXCEPT ![n] = d]
<1>1. /\ proc[x] = "none" /\ Owner[x] = n
      /\ proc' = [proc EXCEPT ![x] = "reserved"]
      /\ db' = [db EXCEPT ![n] = e] /\ UNCHANGED lag
      /\ \A y \in Attempt : Owner[y] = n /\ TaskOf[y] = TaskOf[x] => ~Unfinished(proc[y])
  BY DEF Reserve
<1>2. /\ proc' \in [Attempt -> Process] /\ proc'[x] = "reserved"
      /\ \A y \in Attempt : y # x => proc'[y] = proc[y]
  BY <1>1, Types DEF Process
<1>3. /\ row \in Row /\ row.known /\ row.launched = Null /\ ~row.released
      /\ row.after = db[n].sequence + 1
  BY Types, Parts DEF Reservation, Row
<1> HIDE DEF row
<1>4. /\ db[n] \in Database /\ db[n].rows \in [Attempt -> Row]
      /\ clock \in Nat /\ db[n].sequence \in Nat
  BY Types, Parts DEF Database
<1>5. /\ rows \in [Attempt -> Row]
      /\ \A y \in Attempt : rows[y] = IF y = x THEN row ELSE db[n].rows[y]
  BY <1>3, <1>4
<1> HIDE DEF rows, clock
<1>6. /\ d \in Database /\ d.rows = rows /\ d.seen = db[n].seen
      /\ d.pulses = db[n].pulses /\ d.sequence = db[n].sequence
      /\ d.booted = db[n].booted /\ d.due = db[n].due
      /\ d.winner = db[n].winner
  BY <1>4, <1>5 DEF Database
<1>7. e \in Database /\ Reconciled(e, d, n, proc')
  BY <1>2, <1>6, Types, ReconcileReconciles
<1> HIDE DEF d, e
<1>8. /\ b \in [Machine -> Database] /\ b[n] = d
      /\ \A m \in Machine : b[m] = IF m = n THEN d ELSE db[m]
      /\ [b EXCEPT ![n] = e] = [db EXCEPT ![n] = e]
  BY <1>6, Types
<1> HIDE DEF b
<1>9. /\ \A m \in Machine :
           /\ b[m].seen = db[m].seen /\ b[m].pulses = db[m].pulses
           /\ b[m].sequence = db[m].sequence /\ b[m].winner = db[m].winner
           /\ b[m].booted = db[m].booted /\ b[m].due = db[m].due
      /\ \A m \in Machine, y \in Attempt :
           ~(m = n /\ y = x) => b[m].rows[y] = db[m].rows[y]
      /\ b[n].rows[x] = row
  BY <1>5, <1>6, <1>8
<1>10. /\ \A y \in Attempt : y # x => OwnRow(b, y) = OwnRow(db, y)
       /\ OwnRow(b, x) = row
  BY <1>1, <1>9, Types DEF OwnRow
<1>11. /\ \A m \in Machine : ~db[m].rows[x].known
       /\ \A m \in Machine : db[m].seen[x].boot = "none"
  <2>1. ~OwnRow(db, x).known
    BY <1>1, Types DEF Good, Unborn
  <2>2. \A m \in Machine : ~db[m].rows[x].known
    BY <2>1, Types DEF Good, Copied
  <2> QED BY <2>2 DEF SInv, Sound, Steady, Blank
<1>12. \A m \in Machine, y \in Attempt :
         /\ Last(b[m], y) = Last(db[m], y)
         /\ Remaining(b[m], y) = Remaining(db[m], y)
         /\ ~(m = n /\ y = x) => Heard(b[m], y) = Heard(db[m], y)
  BY <1>9 DEF Last, Heard, Remaining
<1>13. \A m \in Machine : db[m].pulses[n].boot = "current" =>
         /\ db[m].pulses[n].sequence <= db[n].sequence
         /\ db[m].pulses[n].sequence \in Int
  BY Types, Parts DEF Good, Numbered
<1>14. Remaining(b[n], x) = Settle
  BY <1>11, <1>12 DEF Remaining
<1>15. Steady(b, proc')
  <2>1. Born(b, proc')
    BY <1>2, <1>3, <1>10 DEF SInv, Sound, Steady, Born, Fresh
  <2>2. Ended(b, proc')
    <3> SUFFICES ASSUME NEW m \in Machine, NEW y \in Attempt,
                        b[m].rows[y].known, b[m].rows[y].released
                 PROVE  ~Alive(proc'[y])
      BY DEF Ended
    <3>1. y # x
      BY <1>3, <1>9, <1>11
    <3> QED BY <1>2, <1>9, <3>1 DEF SInv, Sound, Steady, Ended
  <2>3. Blank(b)
    BY <1>3, <1>9 DEF SInv, Sound, Steady, Blank
  <2>4. Elected(b)
    BY <1>3, <1>9 DEF SInv, Sound, Steady, Elected
  <2>5. Solo(proc')
    <3> SUFFICES ASSUME NEW y \in Fresh, NEW z \in Fresh,
                        Owner[y] = Owner[z], TaskOf[y] = TaskOf[z],
                        Unfinished(proc'[y]), Unfinished(proc'[z]), y # z
                 PROVE  FALSE
      BY DEF Solo
    <3>1. y \in Attempt /\ z \in Attempt
      BY DEF Fresh
    <3>2. CASE y = x
      BY <1>1, <1>2, <3>1, <3>2
    <3>3. CASE z = x
      BY <1>1, <1>2, <3>1, <3>3
    <3>4. CASE y # x /\ z # x
      BY <1>2, <3>1, <3>4 DEF SInv, Sound, Steady, Solo
    <3> QED BY <3>2, <3>3, <3>4
  <2> QED BY <2>1, <2>2, <2>3, <2>4, <2>5 DEF Steady
<1>16. Prepared(b[n], n, proc')
  <2>1. Prepared(db[n], n, proc)
    BY SustainedIsPrepared DEF SInv, Sound
  <2>2. ASSUME NEW y \in Living(n, proc')
        PROVE  IF b[n].rows[y].known
               THEN /\ Kindled(b[n], n, y)
                    /\ b[n].seen[y].boot # "stale"
                    /\ Heard(b[n], y) => /\ y \in b[n].pulses[n].attempts
                                         /\ b[n].pulses[n].left > 0
                    /\ b[n].seen[y].boot = "current" /\ b[n].booted /\ ~b[n].due =>
                         b[n].seen[y].left > 0
               ELSE b[n].seen[y].boot = "none"
    <3>1. CASE y = x
      <4>1. Last(b[n], x) = -1
        BY <1>11, <1>12 DEF Last
      <4>2. Kindled(b[n], n, x)
        BY <1>3, <1>4, <1>9, <4>1 DEF Kindled
      <4>3. ~Heard(b[n], x)
        BY <1>1, <1>3, <1>4, <1>9, <1>13 DEF Heard
      <4> QED BY <1>3, <1>9, <1>11, <3>1, <4>2, <4>3
    <3>2. CASE y # x
      <4>1. y \in Living(n, proc) /\ y \in Attempt
        BY <1>2, <3>2 DEF Living
      <4> QED BY <1>9, <1>12, <2>1, <3>2, <4>1 DEF Prepared, Kindled
    <3> QED BY <3>1, <3>2
  <2> QED BY <1>9, <2>1, <2>2 DEF Prepared
<1>17. ASSUME NEW m \in Machine, m # n PROVE Sustained(b[m], m, proc')
  <2>1. Living(m, proc') = Living(m, proc)
    BY <1>1, <1>2, <1>17 DEF Living
  <2> QED BY <1>8, <1>17, <2>1 DEF SInv, Sound, Sustained
<1>18. ASSUME timing.kept, NEW m \in Machine PROVE AllFollowed(b, m, proc', lag)
  <2> SUFFICES ASSUME NEW y \in Fresh, Owner[y] # m, Alive(proc'[y])
               PROVE  Followed(b[m], y, OwnRow(b, y), lag[m][y])
    BY DEF AllFollowed
  <2>1. y \in Attempt
    BY DEF Fresh
  <2>2. CASE y = x
    <3>1. m # n /\ b[m] = db[m]
      BY <1>1, <1>8, <2>2
    <3>2. ~(/\ db[m].pulses[n].boot = "current"
            /\ db[m].pulses[n].sequence >= row.after)
      BY <1>3, <1>4, <1>13
    <3> QED BY <1>1, <1>10, <1>11, <2>2, <3>1, <3>2 DEF Followed
  <2>3. CASE y # x
    <3>1. Followed(db[m], y, OwnRow(db, y), lag[m][y])
      BY <1>2, <1>18, <2>1, <2>3 DEF SInv, Sound, AllFollowed
    <3> QED BY <1>9, <1>10, <1>12, <2>1, <2>3, <3>1 DEF Followed
  <2> QED BY <2>2, <2>3
<1>19. ASSUME timing.kept PROVE Timely(b, proc', lag)
  <2>1. Timely(db, proc, lag)
    BY <1>19 DEF SInv, Sound
  <2>2. \A m \in Machine, y \in Attempt : lag[m][y] \in Nat
    BY Types, TimesType
  <2>3. ASSUME NEW y \in Fresh
        PROVE  Executes(b, proc', y) => Executes(db, proc, y) /\ y # x
    <3>1. y \in Attempt
      BY DEF Fresh
    <3> QED BY <1>2, <1>10, <3>1 DEF Executes
  <2>4. Spread(b, lag)
    <3> SUFFICES ASSUME NEW m \in Machine, NEW y \in Fresh, Owner[y] # m,
                        OwnRow(b, y).known, ~b[m].rows[y].known
                 PROVE  lag[m][y] + Remaining(b[Owner[y]], y) >= Settle
      BY DEF Spread
    <3>1. y \in Attempt
      BY DEF Fresh
    <3>2. CASE y = x
      BY <1>1, <1>14, <2>2, <3>2, LeasesLast, Types
    <3>3. CASE y # x
      BY <1>9, <1>10, <1>12, <2>1, <3>1, <3>3, Types DEF Timely, Spread
    <3> QED BY <3>2, <3>3
  <2>5. AllWarned(b, proc', lag)
    <3> SUFFICES ASSUME NEW z \in Fresh, NEW y \in Fresh,
                        TaskOf[z] = TaskOf[y], Owner[z] # Owner[y],
                        Executes(b, proc', z), proc'[y] = "reserved"
                 PROVE  Warned(b, lag, z, y)
      BY DEF AllWarned
    <3>1. /\ y \in Attempt /\ z \in Attempt /\ z # x
          /\ Executes(db, proc, z)
      BY <2>3 DEF Fresh
    <3>2. CASE y = x
      BY <1>1, <1>14, <2>2, <3>1, <3>2, LeasesLast, Types DEF Warned
    <3>3. CASE y # x
      <4>1. Warned(db, lag, z, y)
        BY <1>2, <2>1, <3>1, <3>3 DEF Timely, AllWarned
      <4>2. Earlier(db, z, y) => Earlier(b, z, y)
        BY <1>10, <3>1, <3>3 DEF Earlier
      <4>3. b[Owner[y]].rows[z] = db[Owner[y]].rows[z]
        BY <1>9, <3>1, Types
      <4> QED BY <1>12, <3>1, <4>1, <4>2, <4>3, Types DEF Warned
    <3> QED BY <3>2, <3>3
  <2>6. Exclusive(b, proc')
    BY <2>1, <2>3 DEF Timely, Exclusive
  <2> QED BY <2>1, <2>4, <2>5, <2>6 DEF Timely
<1>20. Ready(b, n, proc', lag)
  BY <1>15, <1>16, <1>17, <1>18, <1>19, FollowedIsComing
     DEF Ready, AllComing, AllFollowed
<1>21. /\ Sound([b EXCEPT ![n] = e], proc', lag)
       /\ Evident(e, n, proc') /\ Remembers(e, d)
  BY <1>2, <1>7, <1>8, <1>20, Types, TransactionSound
<1>22. db'[n] = e /\ Remembers(e, db[n])
  BY <1>1, <1>3, <1>5, <1>6, <1>21, Types DEF Remembers
<1> QED BY <1>1, <1>7, <1>8, <1>21, <1>22 DEF Attentive, Reconciled

\* A fact arrives in time, and what was heard before it is still evidence.
LEMMA DeliverSound ==
  ASSUME IInv, SInv, NEW n \in Machine, NEW x \in Attempt, Deliver(n, x)
  PROVE  Sound(db', proc', lag') /\ Attentive(n)
<1>1. Owner[x] # n /\ proc' = proc
  BY DEF Deliver
<1> DEFINE own == db[Owner[x]].rows[x]
<1>2. PICK r \in Versions(own) :
        /\ Newer(r, db[n].rows[x])
        /\ db' = [db EXCEPT ![n] = Reconcile(Learned(db[n], x, r), n, proc)]
        /\ lag' = [lag EXCEPT ![n][x] = IF Newer(own, r) THEN @ ELSE 0]
  BY DEF Deliver
<1> DEFINE d == Learned(db[n], x, r)
           e == Reconcile(d, n, proc)
           b == [db EXCEPT ![n] = d]
<1>3. /\ own \in Row /\ r \in Row
      /\ r.known = own.known /\ r.ticket = own.ticket /\ r.after = own.after
      /\ r.launched # Null => r.launched = own.launched
      /\ r.released => own.released /\ r.launched = own.launched
  <2>1. own \in Row
    BY Types, Parts
  <2> HIDE DEF own
  <2>2. r \in {[own EXCEPT !.launched = Null, !.released = FALSE],
               [own EXCEPT !.released = FALSE], own}
    BY <1>2 DEF Versions
  <2>3. CASE r = [own EXCEPT !.launched = Null, !.released = FALSE]
    BY <2>1, <2>3 DEF Row
  <2>4. CASE r = [own EXCEPT !.released = FALSE]
    BY <2>1, <2>4 DEF Row
  <2> QED BY <2>1, <2>2, <2>3, <2>4
<1>4. /\ d \in Database /\ d.seen = db[n].seen
      /\ d.pulses = db[n].pulses /\ d.sequence = db[n].sequence
      /\ d.booted = db[n].booted /\ d.due = db[n].due
      /\ d.winner = db[n].winner
      /\ \A y \in Attempt : d.rows[y] = IF y = x THEN r ELSE db[n].rows[y]
  <2> DEFINE number == IF r.launched = Null \/ r.launched < r.ticket
                       THEN r.ticket ELSE r.launched
             clock == IF number > db[n].clock THEN number ELSE db[n].clock
             rows == [db[n].rows EXCEPT ![x] = r]
  <2>1. d = [db[n] EXCEPT !.rows = rows, !.clock = clock]
    BY DEF Learned
  <2>2. /\ db[n] \in Database /\ db[n].clock \in Nat
        /\ db[n].rows \in [Attempt -> Row]
    BY Types, Parts DEF Database
  <2>3. number \in Nat
    BY <1>3 DEF Row
  <2> HIDE DEF number
  <2>4. clock \in Nat
    BY <2>2, <2>3
  <2>5. /\ rows \in [Attempt -> Row]
        /\ \A y \in Attempt : rows[y] = IF y = x THEN r ELSE db[n].rows[y]
    BY <1>3, <2>2
  <2> HIDE DEF d, clock, rows
  <2>6. /\ d \in Database /\ d.rows = rows /\ d.seen = db[n].seen
        /\ d.pulses = db[n].pulses /\ d.sequence = db[n].sequence
        /\ d.booted = db[n].booted /\ d.due = db[n].due
        /\ d.winner = db[n].winner
    BY <2>1, <2>2, <2>4, <2>5 DEF Database
  <2> QED BY <2>5, <2>6
<1>5. e \in Database /\ Reconciled(e, d, n, proc)
  BY <1>4, Types, ReconcileReconciles
<1>6. db' = [db EXCEPT ![n] = e]
  BY <1>2
<1> HIDE DEF d, e
<1>7. /\ b \in [Machine -> Database] /\ b[n] = d
      /\ \A m \in Machine : b[m] = IF m = n THEN d ELSE db[m]
      /\ [b EXCEPT ![n] = e] = [db EXCEPT ![n] = e]
  BY <1>4, Types
<1> HIDE DEF b
<1>8. /\ \A m \in Machine :
           /\ b[m].seen = db[m].seen /\ b[m].pulses = db[m].pulses
           /\ b[m].sequence = db[m].sequence /\ b[m].winner = db[m].winner
           /\ b[m].booted = db[m].booted /\ b[m].due = db[m].due
      /\ \A m \in Machine, y \in Attempt :
           ~(m = n /\ y = x) => b[m].rows[y] = db[m].rows[y]
      /\ b[n].rows[x] = r
  BY <1>4, <1>7
<1>9. \A y \in Attempt : OwnRow(b, y) = OwnRow(db, y)
  BY <1>1, <1>8, Types DEF OwnRow
<1>10. \A m \in Machine, y \in Attempt :
         /\ Last(b[m], y) = Last(db[m], y)
         /\ Remaining(b[m], y) = Remaining(db[m], y)
         /\ ~(m = n /\ y = x) => Heard(b[m], y) = Heard(db[m], y)
  BY <1>8 DEF Last, Heard, Remaining
<1>11. db[n].rows[x].known => own.known
  BY Types DEF Good, Copied, OwnRow
<1>12. own.known /\ own.released => ~Alive(proc[x])
  BY Types DEF SInv, Sound, Steady, Ended
<1>13. Steady(b, proc)
  <2>1. Born(b, proc)
    BY <1>9 DEF SInv, Sound, Steady, Born, Fresh
  <2>2. Ended(b, proc)
    BY <1>3, <1>8, <1>12 DEF SInv, Sound, Steady, Ended
  <2>3. Blank(b)
    BY <1>3, <1>8, <1>11 DEF SInv, Sound, Steady, Blank
  <2>4. Elected(b)
    <3>1. Elected(db) /\ \A m \in Machine : b[m].winner = db[m].winner
      BY <1>8 DEF SInv, Sound, Steady
    <3>2. \A m \in Machine, y \in Attempt :
            db[m].rows[y].known => b[m].rows[y].known
      BY <1>3, <1>8, <1>11
    <3> QED BY <3>1, <3>2, ElectedKept
  <2> QED BY <2>1, <2>2, <2>3, <2>4 DEF SInv, Sound, Steady
<1>14. Prepared(b[n], n, proc)
  <2>1. Prepared(db[n], n, proc)
    BY SustainedIsPrepared DEF SInv, Sound
  <2>2. \A y \in Living(n, proc) : y \in Attempt /\ y # x
    BY <1>1 DEF Living
  <2> QED BY <1>8, <1>10, <2>1, <2>2 DEF Prepared, Kindled
<1>15. \A m \in Machine : m # n => Sustained(b[m], m, proc)
  BY <1>7 DEF SInv, Sound
<1>16. /\ \A m \in Machine, y \in Attempt :
            ~(m = n /\ y = x) => lag'[m][y] = lag[m][y]
       /\ \/ lag'[n][x] = lag[n][x]
          \/ ~Newer(own, r) /\ lag'[n][x] = 0
       /\ \A m \in Machine, y \in Attempt : lag[m][y] \in Nat
  <2>1. \A m \in Machine, y \in Attempt : lag[m][y] \in Nat
    BY Types, TimesType
  <2>2. lag \in [Machine -> [Attempt -> Nat]]
    BY <2>1, Types
  <2> HIDE DEF own
  <2> QED BY <1>2, <2>1, <2>2
<1>17. ASSUME timing.kept, NEW m \in Machine
       PROVE  IF m = n THEN AllComing(b, n, proc, lag')
                       ELSE AllFollowed(b, m, proc, lag')
  <2>1. ASSUME NEW y \in Fresh, Owner[y] # m, Alive(proc[y]), ~(m = n /\ y = x)
        PROVE  Followed(b[m], y, OwnRow(b, y), lag'[m][y])
    <3>1. y \in Attempt
      BY DEF Fresh
    <3>2. Followed(db[m], y, OwnRow(db, y), lag[m][y])
      BY <1>17, <2>1 DEF SInv, Sound, AllFollowed
    <3>3. /\ b[m].rows[y] = db[m].rows[y] /\ Heard(b[m], y) = Heard(db[m], y)
          /\ OwnRow(b, y) = OwnRow(db, y) /\ lag'[m][y] = lag[m][y]
      BY <1>8, <1>9, <1>10, <1>16, <2>1, <3>1
    <3> QED BY <1>8, <3>2, <3>3 DEF Followed
  <2>2. ASSUME x \in Fresh, Alive(proc[x])
        PROVE  Coming(b[n], x, OwnRow(b, x), lag'[n][x])
    <3>1. own.known /\ ~own.released
      BY <1>12, <2>2 DEF SInv, Sound, Steady, Born, OwnRow
    <3>2. b[n].rows[x].known /\ ~b[n].rows[x].released
          /\ b[n].rows[x].after = own.after /\ OwnRow(b, x) = own
      BY <1>3, <1>8, <1>9, <3>1 DEF OwnRow
    <3>3. Followed(db[n], x, own, lag[n][x])
      BY <1>1, <1>17, <2>2 DEF SInv, Sound, AllFollowed, OwnRow
    <3>4. CASE db[n].rows[x].known
      <4>1. ~Heard(b[n], x)
        BY <1>8, <1>10, <3>2, <3>3, <3>4 DEF Followed, Heard
      <4> QED BY <1>8, <3>2, <3>3, <3>4, <4>1 DEF Followed, Coming
    <3>5. CASE ~db[n].rows[x].known
      <4> DEFINE p == db[n].pulses[Owner[x]]
      <4>1. ASSUME Heard(b[n], x) PROVE x \in p.attempts /\ p.left > 0
        <5>1. p.boot = "current" /\ p.sequence >= own.after
          BY <1>8, <3>2, <4>1 DEF Heard
        <5>2. p.left + lag[n][x] >= timing.traversal
          BY <3>1, <3>3, <3>5, <5>1 DEF Followed
        <5>3. lag[n][x] < timing.traversal /\ lag[n][x] \in Nat
          BY <1>16, <1>17 DEF SInv, Sound, Timely, Caught
        <5>4. p.left \in Nat /\ timing.traversal \in Nat
          BY Types, Counts, TimesType
        <5>5. p.left > 0
          BY <5>2, <5>3, <5>4
        <5>6. x \in p.attempts
          BY <2>2, <3>1, <5>1, Types DEF Good, Judged, OwnRow
        <5> QED BY <5>5, <5>6
      <4> QED BY <1>8, <3>2, <3>3, <3>5, <4>1 DEF Followed, Coming
    <3> QED BY <3>4, <3>5
  <2>3. CASE m = n
    BY <2>1, <2>2, <2>3, FollowedIsComing DEF AllComing
  <2>4. CASE m # n
    BY <2>1, <2>4 DEF AllFollowed
  <2> QED BY <2>3, <2>4
<1>18. ASSUME timing.kept PROVE Timely(b, proc, lag')
  <2>1. Timely(db, proc, lag)
    BY <1>18 DEF SInv, Sound
  <2>2. Caught(lag')
    <3> SUFFICES ASSUME NEW m \in Machine, NEW y \in Attempt
                 PROVE  lag'[m][y] < timing.traversal
      BY DEF Caught
    <3>1. lag[m][y] < timing.traversal /\ 0 < timing.traversal
      BY <2>1, LeasesLast, Types DEF Timely, Caught
    <3> QED BY <1>16, <3>1
  <2>3. Spread(b, lag')
    <3> SUFFICES ASSUME NEW m \in Machine, NEW y \in Fresh, Owner[y] # m,
                        OwnRow(b, y).known, ~b[m].rows[y].known
                 PROVE  lag'[m][y] + Remaining(b[Owner[y]], y) >= Settle
      BY DEF Spread
    <3>1. y \in Attempt /\ OwnRow(b, y) = OwnRow(db, y)
          /\ Remaining(b[Owner[y]], y) = Remaining(db[Owner[y]], y)
      BY <1>9, <1>10, Types DEF Fresh
    <3>2. ~(m = n /\ y = x)
      BY <1>3, <1>8, <3>1 DEF OwnRow
    <3>3. lag'[m][y] = lag[m][y] /\ ~db[m].rows[y].known
      BY <1>8, <1>16, <3>1, <3>2
    <3> QED BY <2>1, <3>1, <3>3 DEF Timely, Spread
  <2>4. \A y \in Fresh : Executes(b, proc, y) <=> Executes(db, proc, y)
    BY <1>9 DEF Executes, Fresh
  <2>5. AllWarned(b, proc, lag')
    <3> SUFFICES ASSUME NEW z \in Fresh, NEW y \in Fresh,
                        TaskOf[z] = TaskOf[y], Owner[z] # Owner[y],
                        Executes(db, proc, z), proc[y] = "reserved"
                 PROVE  Warned(b, lag', z, y)
      BY <2>4 DEF AllWarned
    <3>1. z \in Attempt /\ y \in Attempt /\ Owner[y] \in Machine
      BY Types DEF Fresh
    <3>2. Warned(db, lag, z, y)
      BY <2>1 DEF Timely, AllWarned
    <3>3. /\ Earlier(db, z, y) => Earlier(b, z, y)
          /\ Remaining(b[Owner[y]], y) = Remaining(db[Owner[y]], y)
      BY <1>9, <1>10, <3>1 DEF Earlier
    <3>4. CASE ~(Owner[y] = n /\ z = x)
      <4>1. /\ b[Owner[y]].rows[z] = db[Owner[y]].rows[z]
            /\ lag'[Owner[y]][z] = lag[Owner[y]][z]
        BY <1>8, <1>16, <3>1, <3>4
      <4> QED BY <3>2, <3>3, <4>1 DEF Warned
    <3>5. CASE Owner[y] = n /\ z = x
      <4>1. own.known /\ own.launched # Null
        BY <3>5 DEF SInv, Sound, Steady, Born, Executes, Alive, OwnRow
      <4>2. r.known
        BY <1>3, <4>1
      <4>3. CASE r.launched # Null
        BY <1>8, <3>5, <4>2, <4>3 DEF Warned
      <4>4. CASE r.launched = Null
        <5>1. lag'[n][x] = lag[n][x]
          BY <1>16, <4>1, <4>4 DEF Newer
        <5>2. ~(db[n].rows[x].known /\ db[n].rows[x].launched # Null)
          BY <1>2, <1>3, <4>1, <4>4 DEF Newer
        <5> QED BY <1>8, <3>2, <3>3, <3>5, <4>2, <5>1, <5>2 DEF Warned
      <4> QED BY <4>3, <4>4
    <3> QED BY <3>4, <3>5
  <2>6. Exclusive(b, proc)
    BY <2>1, <2>4 DEF Timely, Exclusive
  <2> QED BY <2>2, <2>3, <2>5, <2>6 DEF Timely
<1>19. Ready(b, n, proc, lag')
  BY <1>13, <1>14, <1>15, <1>17, <1>18 DEF Ready
<1>20. /\ Sound([b EXCEPT ![n] = e], proc, lag')
       /\ Evident(e, n, proc) /\ Remembers(e, d)
  BY <1>5, <1>7, <1>19, Types, TransactionSound
<1>21. db'[n] = e
  BY <1>6, Types
<1>22. Remembers(e, db[n])
  <2>1. db[n].rows[x].known => r.known
    BY <1>3, Types DEF Good, Copied, OwnRow
  <2> QED BY <1>4, <1>20, <2>1 DEF Remembers
<1> QED BY <1>1, <1>5, <1>6, <1>7, <1>20, <1>21, <1>22
    DEF Attentive, Reconciled

\* What is heard in time is still evidence, and says nothing old.
LEMMA HearPresenceSound ==
  ASSUME IInv, SInv, NEW m \in Machine, NEW n \in Machine,
         NEW exchange \in timing.exchanges, HearPresence(m, n, exchange)
  PROVE  Sound(db', proc', lag') /\ Attentive(n)
<1> DEFINE fresher(k) == /\ k # n
                         /\ db[m].pulses[k].boot = "current"
                         /\ db[m].pulses[k].left > 0
                         /\ db[m].pulses[k].sequence > db[n].pulses[k].sequence
           heard(k) == [db[m].pulses[k] EXCEPT !.left = Deducted(@, exchange)]
           pulses == [k \in Machine |-> IF fresher(k) THEN heard(k)
                                        ELSE db[n].pulses[k]]
           d == [db[n] EXCEPT !.pulses = pulses]
           e == Reconcile(d, n, proc)
           b == [db EXCEPT ![n] = d]
<1>1. /\ db' = [db EXCEPT ![n] = e] /\ UNCHANGED <<timing, proc, lag, failures>>
      /\ timing.kept => \A k \in Machine :
           fresher(k) => heard(k).left >= timing.traversal
  BY DEF HearPresence
<1>2. \A k \in Machine :
        /\ pulses[k] \in Pulse
        /\ \/ pulses[k] = db[n].pulses[k]
           \/ /\ k # n /\ db[m].pulses[k].boot = "current"
              /\ pulses[k].boot = "current"
              /\ pulses[k].sequence = db[m].pulses[k].sequence
              /\ pulses[k].attempts = db[m].pulses[k].attempts
              /\ timing.kept => pulses[k].left >= timing.traversal
  <2> SUFFICES ASSUME NEW k \in Machine
               PROVE  /\ pulses[k] \in Pulse
                      /\ \/ pulses[k] = db[n].pulses[k]
                         \/ /\ k # n /\ db[m].pulses[k].boot = "current"
                            /\ pulses[k].boot = "current"
                            /\ pulses[k].sequence = db[m].pulses[k].sequence
                            /\ pulses[k].attempts = db[m].pulses[k].attempts
                            /\ timing.kept => pulses[k].left >= timing.traversal
    OBVIOUS
  <2>1. db[m].pulses[k] \in Pulse /\ db[n].pulses[k] \in Pulse
    BY Types DEF Database
  <2>2. CASE ~fresher(k)
    BY <2>1, <2>2
  <2>3. CASE fresher(k)
    <3> DEFINE p == db[m].pulses[k]
               left == Deducted(p.left, exchange)
    <3>1. left \in 0 .. Lease
      BY <2>1, Types, TimesType DEF Pulse, Deducted
    <3>2. pulses[k] = [p EXCEPT !.left = left] /\ pulses[k] = heard(k)
      BY <2>3
    <3>3. p \in Pulse /\ p.boot = "current" /\ k # n
      BY <2>1, <2>3
    <3>4. timing.kept => pulses[k].left >= timing.traversal
      BY <1>1, <2>3, <3>2
    <3> HIDE DEF left, p, pulses
    <3>5. /\ pulses[k] \in Pulse /\ pulses[k].boot = p.boot
          /\ pulses[k].sequence = p.sequence /\ pulses[k].attempts = p.attempts
      BY <3>1, <3>2, <3>3 DEF Pulse
    <3> QED BY <3>3, <3>4, <3>5 DEF p
  <2> QED BY <2>2, <2>3
<1>3. pulses \in [Machine -> Pulse]
  BY <1>2
<1> HIDE DEF pulses
<1>4. /\ d \in Database /\ d.rows = db[n].rows /\ d.seen = db[n].seen
      /\ d.sequence = db[n].sequence /\ d.pulses = pulses
      /\ d.booted = db[n].booted /\ d.due = db[n].due
      /\ d.winner = db[n].winner
  <2>1. db[n] \in Database
    BY Types
  <2> QED BY <1>3, <2>1 DEF Database
<1>5. e \in Database /\ Reconciled(e, d, n, proc)
  BY <1>4, Types, ReconcileReconciles
<1> HIDE DEF d, e
<1>6. /\ b \in [Machine -> Database] /\ b[n] = d
      /\ \A k \in Machine : b[k] = IF k = n THEN d ELSE db[k]
      /\ [b EXCEPT ![n] = e] = [db EXCEPT ![n] = e]
  BY <1>4, Types
<1> HIDE DEF b
<1>7. /\ \A k \in Machine :
           /\ b[k].rows = db[k].rows /\ b[k].seen = db[k].seen
           /\ b[k].sequence = db[k].sequence /\ b[k].winner = db[k].winner
           /\ b[k].booted = db[k].booted /\ b[k].due = db[k].due
      /\ \A k \in Machine, y \in Attempt :
           /\ Last(b[k], y) = Last(db[k], y)
           /\ Remaining(b[k], y) = Remaining(db[k], y)
      /\ \A y \in Attempt : OwnRow(b, y) = OwnRow(db, y)
  BY <1>4, <1>6, Types DEF Last, Remaining, OwnRow
<1>8. \A k \in Machine :
        \/ b[n].pulses[k] = db[n].pulses[k]
        \/ /\ k # n /\ db[m].pulses[k].boot = "current"
           /\ b[n].pulses[k].boot = "current"
           /\ b[n].pulses[k].sequence = db[m].pulses[k].sequence
           /\ b[n].pulses[k].attempts = db[m].pulses[k].attempts
           /\ timing.kept => b[n].pulses[k].left >= timing.traversal
  BY <1>2, <1>4, <1>6
<1>9. Steady(b, proc)
  <2>1. Steady(db, proc)
    BY DEF SInv, Sound
  <2>2. Born(b, proc)
    BY <1>7, <2>1 DEF Steady, Born, Fresh
  <2>3. Ended(b, proc) /\ Blank(b) /\ Elected(b)
    BY <1>7, <2>1 DEF Steady, Ended, Blank, Elected
  <2> QED BY <2>1, <2>2, <2>3 DEF Steady
<1>10. Prepared(b[n], n, proc)
  <2>1. Prepared(db[n], n, proc) /\ b[n].pulses[n] = db[n].pulses[n]
    BY <1>8, SustainedIsPrepared DEF SInv, Sound
  <2>2. \A y \in Living(n, proc) :
          /\ Last(b[n], y) = Last(db[n], y)
          /\ Heard(b[n], y) = Heard(db[n], y)
    BY <1>7, <2>1 DEF Living, Heard
  <2> HIDE DEF Living
  <2> QED BY <1>7, <2>1, <2>2 DEF Prepared, Kindled
<1>11. \A k \in Machine : k # n => Sustained(b[k], k, proc)
  BY <1>6 DEF SInv, Sound
<1>12. ASSUME timing.kept, NEW k \in Machine
       PROVE  IF k = n THEN AllComing(b, n, proc, lag)
                       ELSE AllFollowed(b, k, proc, lag)
  <2>1. AllFollowed(db, k, proc, lag)
    BY <1>12 DEF SInv, Sound
  <2>2. CASE k # n
    <3>1. b[k] = db[k]
      BY <1>6, <2>2
    <3> QED BY <1>7, <2>1, <2>2, <3>1 DEF AllFollowed, Fresh
  <2>3. CASE k = n
    <3> SUFFICES ASSUME NEW y \in Fresh, Owner[y] # n, Alive(proc[y])
                 PROVE  Coming(b[n], y, OwnRow(b, y), lag[n][y])
      BY <2>3 DEF AllComing
    <3> DEFINE p == b[n].pulses[Owner[y]]
               own == OwnRow(db, y)
    <3>1. y \in Attempt /\ Owner[y] \in Machine /\ OwnRow(b, y) = own
      BY <1>7, Types DEF Fresh
    <3>2. Followed(db[n], y, own, lag[n][y])
      BY <2>1, <2>3 DEF AllFollowed
    <3>3. CASE p = db[n].pulses[Owner[y]]
      <4>1. Heard(b[n], y) = Heard(db[n], y)
        BY <1>7, <3>1, <3>3 DEF Heard
      <4>2. Coming(db[n], y, own, lag[n][y])
        BY <3>2, FollowedIsComing
      <4> QED BY <1>7, <3>1, <3>3, <4>1, <4>2 DEF Coming
    <3>4. CASE p # db[n].pulses[Owner[y]]
      <4>1. /\ db[m].pulses[Owner[y]].boot = "current"
            /\ p.sequence = db[m].pulses[Owner[y]].sequence
            /\ p.attempts = db[m].pulses[Owner[y]].attempts
            /\ p.left >= timing.traversal
        BY <1>8, <1>12, <3>1, <3>4
      <4>2. /\ p.left \in Nat /\ lag[n][y] \in Nat
            /\ timing.traversal \in Nat /\ timing.traversal > 0
        BY <1>6, <3>1, Types, TimesType, Counts, LeasesLast
      <4>3. p.left > 0 /\ p.left + lag[n][y] >= timing.traversal
        BY <4>1, <4>2
      <4>4. db[n].rows[y].known => own.known /\ db[n].rows[y].after = own.after
        BY <3>1, Types DEF Good, Copied
      <4>5. own.known /\ p.sequence >= own.after => y \in p.attempts
        BY <3>1, <4>1, Types DEF Good, Judged
      <4>6. Heard(b[n], y) /\ db[n].rows[y].known => y \in p.attempts
        <5>1. Heard(b[n], y) => p.sequence >= db[n].rows[y].after
          BY <1>7 DEF Heard
        <5> QED BY <4>4, <4>5, <5>1
      <4> HIDE DEF own
      <4>7. CASE db[n].rows[y].known
        BY <1>7, <3>1, <3>2, <4>3, <4>6, <4>7 DEF Followed, Coming
      <4>8. CASE ~db[n].rows[y].known
        BY <1>7, <3>1, <3>2, <4>3, <4>8 DEF Followed, Coming
      <4> QED BY <4>7, <4>8
    <3> QED BY <3>3, <3>4
  <2> QED BY <2>2, <2>3
<1>13. ASSUME timing.kept PROVE Timely(b, proc, lag)
  <2>1. SameTimes(b, db)
    BY <1>7, Types DEF SameTimes, SameLaunch, Fresh
  <2> QED BY <1>13, <2>1, TimelyKept DEF SInv, Sound
<1>14. Ready(b, n, proc, lag)
  BY <1>9, <1>10, <1>11, <1>12, <1>13 DEF Ready
<1>15. /\ Sound([b EXCEPT ![n] = e], proc, lag)
       /\ Evident(e, n, proc) /\ Remembers(e, b[n])
  BY <1>5, <1>6, <1>14, Types, TransactionSound
<1>16. db'[n] = e /\ Remembers(e, db[n])
  BY <1>1, <1>7, <1>15, Types DEF Remembers
<1> QED BY <1>1, <1>5, <1>6, <1>15, <1>16 DEF Attentive, Reconciled

\* Time passes, as far as the fleet has promised.
LEMMA TickSound ==
  ASSUME IInv, SInv, Tick
  PROVE  Sound(db', proc', lag')
<1> DEFINE c == db'
<1>1. /\ c = [n \in Machine |-> AgedDatabase(db[n])]
      /\ lag' = [n \in Machine |-> [x \in Attempt |->
                   IF timing.kept /\ Behind(n, x) THEN lag[n][x] + 1 ELSE 0]]
      /\ proc' = proc
      /\ timing.kept => InTime
  BY DEF Tick
<1>2. \A left \in Nat : /\ Aged(left) \in Nat /\ Aged(left) <= left
                        /\ Aged(left) >= left - 1
                        /\ left > 1 => Aged(left) > 0
  BY DEF Aged
<1>3. \A n \in Machine :
        /\ c[n].rows = db[n].rows /\ c[n].winner = db[n].winner
        /\ c[n].sequence = db[n].sequence /\ c[n].due
        /\ \A x \in Attempt :
             c[n].seen[x] = [db[n].seen[x] EXCEPT !.left = Aged(@), !.wait = Aged(@)]
        /\ \A k \in Machine :
             c[n].pulses[k] = [db[n].pulses[k] EXCEPT !.left = Aged(@)]
  <2> SUFFICES ASSUME NEW n \in Machine
               PROVE  /\ c[n].rows = db[n].rows /\ c[n].winner = db[n].winner
                      /\ c[n].sequence = db[n].sequence /\ c[n].due
                      /\ \A x \in Attempt : c[n].seen[x] =
                           [db[n].seen[x] EXCEPT !.left = Aged(@), !.wait = Aged(@)]
                      /\ \A k \in Machine : c[n].pulses[k] =
                           [db[n].pulses[k] EXCEPT !.left = Aged(@)]
    OBVIOUS
  <2>1. c[n] = AgedDatabase(db[n])
    BY <1>1
  <2>2. db[n] \in Database
    BY Types
  <2> HIDE DEF c
  <2> QED BY <2>1, <2>2 DEF AgedDatabase, Database
<1> HIDE DEF c
<1>4. \A n \in Machine, x \in Attempt :
        /\ c[n].seen[x].boot = db[n].seen[x].boot
        /\ c[n].seen[x].seen = db[n].seen[x].seen
        /\ c[n].seen[x].left = Aged(db[n].seen[x].left)
        /\ c[n].seen[x].wait = Aged(db[n].seen[x].wait)
  <2> SUFFICES ASSUME NEW n \in Machine, NEW x \in Attempt
               PROVE  /\ c[n].seen[x].boot = db[n].seen[x].boot
                      /\ c[n].seen[x].seen = db[n].seen[x].seen
                      /\ c[n].seen[x].left = Aged(db[n].seen[x].left)
                      /\ c[n].seen[x].wait = Aged(db[n].seen[x].wait)
    OBVIOUS
  <2> DEFINE s == db[n].seen[x]
  <2>1. s \in Observation
    BY Types DEF Database
  <2>2. c[n].seen[x] = [s EXCEPT !.left = Aged(s.left), !.wait = Aged(s.wait)]
    BY <1>3
  <2> HIDE DEF s
  <2> QED BY <2>1, <2>2 DEF Observation, s
<1>5. \A n, k \in Machine :
        /\ c[n].pulses[k].boot = db[n].pulses[k].boot
        /\ c[n].pulses[k].sequence = db[n].pulses[k].sequence
        /\ c[n].pulses[k].left = Aged(db[n].pulses[k].left)
  <2> SUFFICES ASSUME NEW n \in Machine, NEW k \in Machine
               PROVE  /\ c[n].pulses[k].boot = db[n].pulses[k].boot
                      /\ c[n].pulses[k].sequence = db[n].pulses[k].sequence
                      /\ c[n].pulses[k].left = Aged(db[n].pulses[k].left)
    OBVIOUS
  <2> DEFINE p == db[n].pulses[k]
  <2>1. p \in Pulse
    BY Types DEF Database
  <2>2. c[n].pulses[k] = [p EXCEPT !.left = Aged(p.left)]
    BY <1>3
  <2> HIDE DEF p
  <2> QED BY <2>1, <2>2 DEF Pulse, p
<1>6. \A n \in Machine, x \in Attempt :
        /\ OwnRow(c, x) = OwnRow(db, x)
        /\ Last(c[n], x) = Last(db[n], x)
        /\ Heard(c[n], x) = Heard(db[n], x)
  <2> SUFFICES ASSUME NEW n \in Machine, NEW x \in Attempt
               PROVE  /\ OwnRow(c, x) = OwnRow(db, x)
                      /\ Last(c[n], x) = Last(db[n], x)
                      /\ Heard(c[n], x) = Heard(db[n], x)
    OBVIOUS
  <2>1. Owner[x] \in Machine
    BY Types
  <2>2. OwnRow(c, x) = OwnRow(db, x)
    BY <1>3, <2>1 DEF OwnRow
  <2>3. /\ c[n].rows = db[n].rows
        /\ c[n].pulses[Owner[x]].boot = db[n].pulses[Owner[x]].boot
        /\ c[n].pulses[Owner[x]].sequence = db[n].pulses[Owner[x]].sequence
        /\ c[n].seen[x].boot = db[n].seen[x].boot
        /\ c[n].seen[x].seen = db[n].seen[x].seen
    BY <1>3, <1>4, <1>5, <2>1
  <2> QED BY <2>2, <2>3 DEF Last, Heard
<1>7. \A n \in Machine, x \in Attempt :
        /\ Remaining(c[n], x) >= Remaining(db[n], x) - 1
        /\ Remaining(c[n], x) \in Nat /\ Remaining(db[n], x) \in Nat
  <2> SUFFICES ASSUME NEW n \in Machine, NEW x \in Attempt
               PROVE  /\ Remaining(c[n], x) >= Remaining(db[n], x) - 1
                      /\ Remaining(c[n], x) \in Nat /\ Remaining(db[n], x) \in Nat
    OBVIOUS
  <2>1. /\ Remaining(db[n], x) \in Nat /\ db[n].seen[x].wait \in Nat
        /\ Settle \in Nat
    BY Types, Counts, TimesType
  <2> QED BY <1>2, <1>4, <2>1 DEF Remaining
<1>8. Steady(c, proc)
  <2>1. Steady(db, proc)
    BY DEF SInv, Sound
  <2>2. Born(c, proc)
    BY <1>6, <2>1, Types DEF Steady, Born, Fresh
  <2>3. Ended(c, proc)
    BY <1>3, <2>1 DEF Steady, Ended
  <2>4. Blank(c)
    <3> SUFFICES ASSUME NEW n \in Machine, NEW x \in Attempt,
                        ~c[n].rows[x].known
                 PROVE  c[n].seen[x].boot = "none"
      BY DEF Blank
    <3>1. c[n].rows = db[n].rows /\ c[n].seen[x].boot = db[n].seen[x].boot
      BY <1>3, <1>4
    <3> QED BY <2>1, <3>1 DEF Steady, Blank
  <2>5. Elected(c)
    <3>1. \A n \in Machine : c[n].rows = db[n].rows /\ c[n].winner = db[n].winner
      BY <1>3
    <3> QED BY <2>1, <3>1 DEF Steady, Elected
  <2> QED BY <2>1, <2>2, <2>3, <2>4, <2>5 DEF Steady
<1>9. ASSUME NEW n \in Machine PROVE Sustained(c[n], n, proc)
  <2>1. /\ Sustained(db[n], n, proc) /\ c[n].rows = db[n].rows
        /\ c[n].sequence = db[n].sequence /\ c[n].due
        /\ c[n].pulses[n].boot = db[n].pulses[n].boot
        /\ c[n].pulses[n].sequence = db[n].pulses[n].sequence
    BY <1>3, <1>5 DEF SInv, Sound
  <2>2. ASSUME NEW x \in Living(n, proc)
        PROVE  /\ c[n].seen[x].boot = db[n].seen[x].boot
               /\ Last(c[n], x) = Last(db[n], x)
               /\ Heard(c[n], x) = Heard(db[n], x)
    <3>1. x \in Attempt
      BY DEF Living
    <3> QED BY <1>4, <1>6, <3>1
  <2> HIDE DEF Living
  <2> QED BY <2>1, <2>2 DEF Sustained, Kindled
<1>10. \A n \in Machine, x \in Attempt :
         /\ timing.kept =>
              lag'[n][x] = IF Behind(n, x) THEN lag[n][x] + 1 ELSE 0
         /\ lag[n][x] \in Nat
  BY <1>1, Types, TimesType
<1>11. ASSUME timing.kept, NEW n \in Machine PROVE AllFollowed(c, n, proc, lag')
  <2> SUFFICES ASSUME NEW x \in Fresh, Owner[x] # n, Alive(proc[x])
               PROVE  Followed(c[n], x, OwnRow(c, x), lag'[n][x])
    BY DEF AllFollowed
  <2>1. x \in Attempt /\ Owner[x] \in Machine
    BY Types DEF Fresh
  <2>2. Followed(db[n], x, OwnRow(db, x), lag[n][x])
    BY <1>11 DEF SInv, Sound, AllFollowed
  <2>3. CASE db[n].rows[x].known
    <3>1. db[n].seen[x].left > 1
      BY <1>1, <1>11, <2>1, <2>2, <2>3 DEF InTime, Active, Followed
    <3>2. c[n].seen[x].left > 0
      BY <1>2, <1>4, <2>1, <3>1, Types, Counts
    <3> QED BY <1>3, <1>4, <1>6, <2>1, <2>2, <2>3, <3>2 DEF Followed
  <2>4. CASE ~db[n].rows[x].known
    <3> DEFINE p == db[n].pulses[Owner[x]]
               own == OwnRow(db, x)
    <3>1. ASSUME own.known, p.boot = "current", p.sequence >= own.after
          PROVE  c[n].pulses[Owner[x]].left + lag'[n][x] >= timing.traversal
      <4>1. p.left + lag[n][x] >= timing.traversal
        BY <2>2, <2>4, <3>1 DEF Followed
      <4>2. Behind(n, x)
        BY <2>4, <3>1 DEF Behind, Newer, OwnRow
      <4>3. lag'[n][x] = lag[n][x] + 1 /\ lag[n][x] \in Nat
        BY <1>10, <1>11, <2>1, <4>2
      <4>4. p.left \in Nat /\ timing.traversal \in Nat
        BY <2>1, Types, Counts, TimesType
      <4>5. /\ c[n].pulses[Owner[x]].left \in Nat
            /\ c[n].pulses[Owner[x]].left >= p.left - 1
        BY <1>2, <1>5, <2>1, <4>4
      <4> QED BY <4>1, <4>3, <4>4, <4>5
    <3> QED BY <1>3, <1>4, <1>5, <1>6, <2>1, <2>2, <2>4, <3>1 DEF Followed
  <2> QED BY <2>3, <2>4
<1>12. ASSUME timing.kept PROVE Timely(c, proc, lag')
  <2>1. Timely(db, proc, lag)
    BY <1>12 DEF SInv, Sound
  <2>2. Caught(lag')
    <3> SUFFICES ASSUME NEW n \in Machine, NEW x \in Attempt
                 PROVE  lag'[n][x] < timing.traversal
      BY DEF Caught
    <3>1. Behind(n, x) => lag[n][x] + 1 < timing.traversal
      BY <1>1, <1>12 DEF InTime
    <3> QED BY <1>10, <1>12, <3>1, LeasesLast, Types
  <2>3. ASSUME NEW n \in Machine, NEW x \in Attempt, NEW y \in Attempt,
               Behind(n, x), NEW k \in Machine
        PROVE  /\ lag'[n][x] + Remaining(c[k], y) >=
                    lag[n][x] + Remaining(db[k], y)
               /\ lag'[n][x] + Remaining(c[k], y) \in Nat
               /\ lag[n][x] + Remaining(db[k], y) \in Nat
    <3>1. lag'[n][x] = lag[n][x] + 1 /\ lag[n][x] \in Nat
      BY <1>10, <1>12, <2>3
    <3>2. /\ Remaining(c[k], y) >= Remaining(db[k], y) - 1
          /\ Remaining(c[k], y) \in Nat /\ Remaining(db[k], y) \in Nat
      BY <1>7
    <3> QED BY <3>1, <3>2
  <2>4. Spread(c, lag')
    <3> SUFFICES ASSUME NEW n \in Machine, NEW x \in Fresh, Owner[x] # n,
                        OwnRow(c, x).known, ~c[n].rows[x].known
                 PROVE  lag'[n][x] + Remaining(c[Owner[x]], x) >= Settle
      BY DEF Spread
    <3>1. x \in Attempt /\ Owner[x] \in Machine
      BY Types DEF Fresh
    <3>2. OwnRow(db, x).known /\ ~db[n].rows[x].known
      BY <1>3, <1>6, <3>1
    <3>3. Behind(n, x)
      BY <3>2 DEF Behind, Newer, OwnRow
    <3>4. lag[n][x] + Remaining(db[Owner[x]], x) >= Settle
      BY <2>1, <3>2 DEF Timely, Spread
    <3>5. Settle \in Nat
      BY Types, TimesType
    <3> QED BY <2>3, <3>1, <3>3, <3>4, <3>5
  <2>5. \A x \in Fresh : Executes(c, proc, x) <=> Executes(db, proc, x)
    BY <1>6, Types DEF Executes, Fresh
  <2>6. AllWarned(c, proc, lag')
    <3> SUFFICES ASSUME NEW x \in Fresh, NEW y \in Fresh,
                        TaskOf[x] = TaskOf[y], Owner[x] # Owner[y],
                        Executes(db, proc, x), proc[y] = "reserved"
                 PROVE  Warned(c, lag', x, y)
      BY <2>5 DEF AllWarned
    <3>1. x \in Attempt /\ y \in Attempt /\ Owner[y] \in Machine
      BY Types DEF Fresh
    <3>2. Warned(db, lag, x, y)
      BY <2>1 DEF Timely, AllWarned
    <3>3. /\ c[Owner[y]].rows[x] = db[Owner[y]].rows[x]
          /\ Earlier(db, x, y) => Earlier(c, x, y)
      BY <1>3, <1>6, <3>1 DEF Earlier
    <3>4. CASE Behind(Owner[y], x)
      <4>1. timing.traversal \in Nat
        BY Types, TimesType
      <4>2. lag[Owner[y]][x] + Remaining(db[Owner[y]], y) > timing.traversal =>
              lag'[Owner[y]][x] + Remaining(c[Owner[y]], y) > timing.traversal
        BY <2>3, <3>1, <3>4, <4>1
      <4> QED BY <3>2, <3>3, <4>2 DEF Warned
    <3>5. CASE ~Behind(Owner[y], x)
      <4>1. OwnRow(db, x).known /\ OwnRow(db, x).launched # Null
        BY DEF SInv, Sound, Steady, Born, Executes, Alive
      <4>2. /\ db[Owner[y]].rows[x].known
            /\ db[Owner[y]].rows[x].launched # Null
        BY <3>5, <4>1 DEF Behind, Newer, OwnRow
      <4> QED BY <3>3, <4>2 DEF Warned
    <3> QED BY <3>4, <3>5
  <2>7. Exclusive(c, proc)
    BY <2>1, <2>5 DEF Timely, Exclusive
  <2> QED BY <2>2, <2>4, <2>6, <2>7 DEF Timely
<1> QED BY <1>1, <1>8, <1>9, <1>11, <1>12 DEF Sound, c

\* A reboot ends what its machine runs, and no fleet that keeps its times has
\* one.
LEMMA RebootSound ==
  ASSUME IInv, SInv, NEW n \in Machine, Reboot(n)
  PROVE  Sound(db', proc', lag')
<1> DEFINE c == db'
<1>1. /\ ~timing.kept /\ UNCHANGED lag
      /\ proc' = [x \in Attempt |->
                    IF Owner[x] = n /\ Alive(proc[x]) THEN "dead" ELSE proc[x]]
  BY DEF Reboot
<1>2. /\ proc' \in [Attempt -> Process] /\ Subsides(proc', proc)
  BY <1>1, Types DEF Subsides, Process, Unfinished, Alive
<1>3. Sound(db, proc', lag)
  BY <1>2, Types, SubsideKeeps DEF Good, SInv
<1>4. Living(n, proc') = {}
  BY <1>1 DEF Living, Alive
<1> DEFINE seen == [x \in Attempt |->
                      IF db[n].seen[x].boot = "none" THEN db[n].seen[x]
                      ELSE [boot |-> "stale", left |-> 0, wait |-> 0, seen |-> -1]]
           pulses == [k \in Machine |->
                        IF db[n].pulses[k].boot = "none" THEN db[n].pulses[k]
                        ELSE [db[n].pulses[k] EXCEPT !.boot = "stale", !.left = 0]]
           d == [db[n] EXCEPT !.booted = FALSE, !.due = TRUE, !.seen = seen,
                              !.pulses = pulses]
<1>5. c = [db EXCEPT ![n] = d]
  BY DEF Reboot
<1>6. db[n] \in Database
  BY Types
<1>7. /\ \A x \in Attempt : seen[x].boot = "none" <=> db[n].seen[x].boot = "none"
      /\ pulses[n].boot # "current"
  <2>1. db[n].pulses[n] \in Pulse
    BY <1>6 DEF Database
  <2> DEFINE q == [db[n].pulses[n] EXCEPT !.boot = "stale", !.left = 0]
  <2>2. q.boot = "stale"
    BY <2>1 DEF Pulse
  <2>3. pulses[n] = IF db[n].pulses[n].boot = "none" THEN db[n].pulses[n] ELSE q
    OBVIOUS
  <2> HIDE DEF q
  <2> QED BY <2>2, <2>3
<1> HIDE DEF seen, pulses
<1>8. /\ d.rows = db[n].rows /\ d.winner = db[n].winner
      /\ d.seen = seen /\ d.pulses = pulses
  BY <1>6 DEF Database
<1> HIDE DEF d
<1>9. /\ \A m \in Machine :
           /\ c[m].rows = db[m].rows /\ c[m].winner = db[m].winner
           /\ m # n => c[m] = db[m]
      /\ c[n].seen = seen /\ c[n].pulses = pulses
  BY <1>5, <1>8, Types
<1> HIDE DEF c
<1>10. Steady(c, proc')
  <2>1. Steady(db, proc')
    BY <1>3 DEF Sound
  <2>2. Born(c, proc')
    BY <1>9, <2>1, Types DEF Steady, Born, OwnRow, Fresh
  <2>3. Ended(c, proc')
    BY <1>9, <2>1 DEF Steady, Ended
  <2>4. Blank(c)
    BY <1>7, <1>9, <2>1 DEF Steady, Blank
  <2>5. Elected(c)
    BY <1>9, <2>1 DEF Steady, Elected
  <2> QED BY <2>1, <2>2, <2>3, <2>4, <2>5 DEF Steady
<1>11. Sustained(c[n], n, proc')
  BY <1>4, <1>7, <1>9 DEF Sustained
<1>12. \A m \in Machine : m # n => Sustained(c[m], m, proc')
  BY <1>3, <1>9 DEF Sound
<1> QED BY <1>1, <1>10, <1>11, <1>12 DEF Sound, c

LEMMA InitSound ==
  ASSUME Init
  PROVE  Sound(db, proc, lag)
<1>1. /\ timing \in Timings
      /\ \A n \in Machine :
           /\ \A x \in Attempt : /\ db[n].rows[x] = NoRow
                                 /\ db[n].seen[x] = NoObservation
           /\ \A k \in Machine : db[n].pulses[k] = NoPulse
           /\ \A t \in Task : db[n].winner[t] = Null
      /\ \A x \in Attempt : proc[x] = IF x \in Legacy THEN "running" ELSE "none"
      /\ \A n \in Machine, x \in Attempt : lag[n][x] = 0
  BY DEF Init
<1>2. \A x \in Attempt : Owner[x] \in Machine
  BY OwnersAssumption
<1>3. /\ ~NoRow.known /\ NoObservation.boot = "none" /\ NoPulse.boot = "none"
  BY DEF NoRow, NoObservation, NoPulse
<1>4. \A x \in Fresh : /\ x \in Attempt /\ proc[x] = "none"
                       /\ ~OwnRow(db, x).known
  BY <1>1, <1>2, <1>3 DEF Fresh, OwnRow
<1>5. Steady(db, proc)
  <2>1. Born(db, proc) /\ Solo(proc)
    BY <1>4 DEF Born, Solo, Alive, Unfinished
  <2>2. Ended(db, proc) /\ Blank(db)
    BY <1>1, <1>3 DEF Ended, Blank
  <2>3. Elected(db)
    BY <1>1 DEF Elected
  <2> QED BY <2>1, <2>2, <2>3 DEF Steady
<1>6. ASSUME NEW n \in Machine PROVE Sustained(db[n], n, proc)
  <2>1. \A x \in Living(n, proc) : x \in Attempt
    BY DEF Living
  <2> QED BY <1>1, <1>3, <2>1 DEF Sustained
<1>7. Timely(db, proc, lag)
  <2>1. Caught(lag)
    BY <1>1, LeasesLast DEF Caught
  <2>2. Spread(db, lag)
    BY <1>4 DEF Spread
  <2>3. AllWarned(db, proc, lag) /\ Exclusive(db, proc)
    BY <1>4 DEF AllWarned, Exclusive, Executes
  <2> QED BY <2>1, <2>2, <2>3 DEF Timely
<1>8. \A n \in Machine : AllFollowed(db, n, proc, lag)
  BY <1>4 DEF AllFollowed, Alive
<1> QED BY <1>5, <1>6, <1>7, <1>8 DEF Sound

----------------------------------------------------------------------------
(* A launch. *)

\* A transaction sees runs of the same kind in the same way.
LEMMA ReconciledAlike ==
  ASSUME NEW d, NEW e, NEW n, NEW before, NEW after,
         Reconciled(e, d, n, before), Living(n, after) = Living(n, before),
         \A x \in Attempt :
           /\ Unfinished(after[x]) <=> Unfinished(before[x])
           /\ \/ after[x] = before[x]
              \/ d.rows[x].known /\ before[x] # "dead"
  PROVE  Reconciled(e, d, n, after)
<1>1. PICK c \in Database :
        /\ (c = d /\ ~Expired(d, n, before)) \/ Renewed(c, d, n, before)
        /\ Kept(e, c)
        /\ \A x \in Attempt : Watches(e, c, x)
  BY DEF Reconciled
<1>2. Expired(d, n, after) <=> Expired(d, n, before)
  BY DEF Expired
<1>3. ASSUME Renewed(c, d, n, before) PROVE Renewed(c, d, n, after)
  <2> HIDE DEF Living
  <2>1. ASSUME NEW x \in Attempt PROVE RowRefreshed(c, d, n, after, x)
    <3>1. RowRefreshed(c, d, n, before, x)
      BY <1>3 DEF Renewed, Refreshed
    <3> QED BY <3>1 DEF RowRefreshed
  <2>2. \A m \in Machine : PulseRefreshed(c, d, n, after, m)
    BY <1>3 DEF Renewed, Refreshed, PulseRefreshed
  <2>3. Refreshed(c, d, n, after)
    BY <1>3, <2>1, <2>2 DEF Renewed, Refreshed
  <2> QED BY <1>3, <2>3 DEF Renewed
<1> QED BY <1>1, <1>2, <1>3 DEF Reconciled

\* A machine that follows an attempt elects one of its own only if that was
\* reserved before.
LEMMA LeaderIsEarliest ==
  ASSUME NEW b \in [Machine -> Database], NEW run, NEW late, NEW n \in Machine,
         NEW x \in Fresh, NEW y \in Fresh, y # x, TaskOf[y] = TaskOf[x],
         Owner[x] = n, Owner[y] # n, Copied(b), Decided(b[n]),
         AllFollowed(b, n, run, late), Alive(run[y]), b[n].rows[y].known,
         b[n].winner[TaskOf[x]] = x, b[n].rows[x].launched = Null
  PROVE  b[n].rows[y].launched = Null /\ Earlier(b, x, y) /\ ~Earlier(b, y, x)
<1> DEFINE d == b[n]
           r == b[n].rows[x]
           s == b[n].rows[y]
<1>1. /\ x \in Attempt /\ y \in Attempt /\ TaskOf[x] \in Task
      /\ Owner[x] \in Machine /\ Owner[y] \in Machine /\ x # Null
      /\ Rank[x] \in Nat /\ Rank[y] \in Nat /\ Rank[x] # Rank[y]
  BY OwnersAssumption, RankAssumption DEF Fresh
<1>2. ~s.released /\ d.seen[y].boot = "current" /\ d.seen[y].left > 0
  BY DEF AllFollowed, Followed
<1>3. y \in Candidates(d, TaskOf[x])
  BY <1>1, <1>2 DEF Candidates, Standing, Active
<1>4. x \in Candidates(d, TaskOf[x]) /\ Precedes(r, x, s, y)
  BY <1>1, <1>3 DEF Decided, Leads
<1>5. s.launched = Null
  BY <1>4 DEF Precedes
<1>6. r.ticket < s.ticket \/ (r.ticket = s.ticket /\ Rank[x] < Rank[y])
  BY <1>4, <1>5 DEF Precedes
<1>7. r.known
  BY <1>4 DEF Candidates, Standing, Active
<1>8. OwnRow(b, x) = r /\ OwnRow(b, y).ticket = s.ticket
  BY <1>1 DEF OwnRow, Copied
<1>9. r.ticket \in Nat /\ s.ticket \in Nat
  BY <1>1, Parts
<1>10. Earlier(b, x, y)
  BY <1>6, <1>8 DEF Earlier
<1>11. ~Earlier(b, y, x)
  <2> DEFINE i == Rank[x]
             j == Rank[y]
             k == r.ticket
             l == s.ticket
  <2>1. i \in Nat /\ j \in Nat /\ k \in Nat /\ l \in Nat
    BY <1>1, <1>9
  <2>2. k < l \/ (k = l /\ i < j)
    BY <1>6
  <2>3. Earlier(b, y, x) => l < k \/ (l = k /\ j < i)
    BY <1>8 DEF Earlier
  <2> HIDE DEF i, j, k, l
  <2> QED BY <2>1, <2>2, <2>3
<1> QED BY <1>5, <1>10, <1>11

\* When the settling of the winner is over, no other attempt is launched.
LEMMA LeaderIsAlone ==
  ASSUME timing \in Timings, timing.kept,
         NEW a \in [Machine -> Database], NEW run,
         NEW late \in [Machine -> [Attempt -> Nat]],
         NEW n \in Machine, NEW x \in Fresh, NEW y \in Fresh, y # x,
         TaskOf[y] = TaskOf[x], Owner[x] = n, Sound(a, run, late), Copied(a),
         Decided(a[n]), a[n].winner[TaskOf[x]] = x,
         a[n].rows[x].launched = Null, Remaining(a[n], x) = 0,
         run[x] = "reserved"
  PROVE  ~Executes(a, run, y)
<1> SUFFICES ASSUME Executes(a, run, y) PROVE FALSE
  OBVIOUS
<1>1. x \in Attempt /\ y \in Attempt /\ Alive(run[y])
  BY DEF Fresh, Executes, Alive
<1>2. Owner[y] # n
  BY <1>1 DEF Sound, Steady, Solo, Unfinished, Alive
<1>3. Timely(a, run, late) /\ AllFollowed(a, n, run, late)
  BY DEF Sound
<1>4. Warned(a, late, y, x)
  BY <1>2, <1>3 DEF Timely, AllWarned
<1>5. a[n].rows[y].known => a[n].rows[y].launched = Null /\ ~Earlier(a, y, x)
  BY <1>1, <1>2, <1>3, LeaderIsEarliest
<1>6. late[n][y] \in Nat /\ late[n][y] < timing.traversal
  BY <1>1, <1>3 DEF Timely, Caught
<1>7. ~(late[n][y] + Remaining(a[n], x) > timing.traversal)
  BY <1>6, LeasesLast
<1> QED BY <1>4, <1>5, <1>7 DEF Warned

\* The winner whose settling is over may be launched.
LEMMA LaunchIsTimely ==
  ASSUME timing \in Timings, timing.kept,
         NEW a \in [Machine -> Database], NEW b \in [Machine -> Database],
         NEW n \in Machine, NEW run, NEW after,
         NEW late \in [Machine -> [Attempt -> Nat]],
         NEW x \in Attempt, Owner[x] = n, run[x] = "reserved",
         after[x] = "running", \A y \in Attempt : y # x => after[y] = run[y],
         Sound(a, run, late), Good(a, run), Decided(a[n]),
         a[n].winner[TaskOf[x]] = x, Remaining(a[n], x) = 0,
         \A m \in Machine : b[m].seen = a[m].seen,
         \A m \in Machine, y \in Attempt :
           ~(m = n /\ y = x) => b[m].rows[y] = a[m].rows[y],
         b[n].rows[x].known = a[n].rows[x].known,
         b[n].rows[x].ticket = a[n].rows[x].ticket
  PROVE  Timely(b, after, late)
<1>1. /\ \A y \in Fresh : y \in Attempt
      /\ \A y \in Attempt : Owner[y] \in Machine
      /\ \A y \in Attempt : y # x => OwnRow(b, y) = OwnRow(a, y)
      /\ \A y \in Attempt : /\ OwnRow(b, y).known = OwnRow(a, y).known
                            /\ OwnRow(b, y).ticket = OwnRow(a, y).ticket
      /\ \A m \in Machine, y \in Attempt : Remaining(b[m], y) = Remaining(a[m], y)
      /\ \A m \in Machine, y \in Attempt : b[m].rows[y].known = a[m].rows[y].known
  <2>1. \A y \in Attempt : Owner[y] \in Machine
    BY OwnersAssumption
  <2>2. \A y \in Attempt : y # x => OwnRow(b, y) = OwnRow(a, y)
    BY <2>1 DEF OwnRow
  <2>3. \A y \in Attempt : /\ OwnRow(b, y).known = OwnRow(a, y).known
                           /\ OwnRow(b, y).ticket = OwnRow(a, y).ticket
    <3> TAKE y \in Attempt
    <3>1. CASE y = x
      BY <3>1 DEF OwnRow
    <3>2. CASE y # x
      BY <2>2, <3>2
    <3> QED BY <3>1, <3>2
  <2>4. \A m \in Machine, y \in Attempt : Remaining(b[m], y) = Remaining(a[m], y)
    BY DEF Remaining
  <2>5. \A m \in Machine, y \in Attempt : b[m].rows[y].known = a[m].rows[y].known
    <3> TAKE m \in Machine, y \in Attempt
    <3>1. CASE m = n /\ y = x
      BY <3>1
    <3>2. CASE ~(m = n /\ y = x)
      BY <3>2
    <3> QED BY <3>1, <3>2
  <2> QED BY <2>1, <2>2, <2>3, <2>4, <2>5 DEF Fresh
<1>2. Timely(a, run, late) /\ AllFollowed(a, n, run, late) /\ Copied(a)
  BY DEF Sound, Good
<1>3. \A y, z \in Attempt : Earlier(b, y, z) <=> Earlier(a, y, z)
  BY <1>1 DEF Earlier
<1>4. /\ \A m \in Machine, y \in Attempt :
           late[m][y] \in Nat /\ late[m][y] < timing.traversal
      /\ Settle = 2 * timing.traversal /\ timing.traversal \in Nat
      /\ timing.traversal > 0
  BY <1>2, LeasesLast DEF Timely, Caught
<1>5. \A m \in Machine, y \in Attempt : Remaining(a[m], y) \in Nat
  BY Counts
<1>6. Spread(b, late)
  BY <1>1, <1>2 DEF Timely, Spread
<1>7. \A y \in Fresh : y # x => (Executes(b, after, y) <=> Executes(a, run, y))
  BY <1>1 DEF Executes
<1>8. a[n].rows[x].launched = Null
  BY DEF Good, Truthful, OwnRow
<1>9. \A y \in Fresh :
        x \in Fresh /\ Executes(a, run, y) => y = x \/ TaskOf[y] # TaskOf[x]
  BY <1>2, <1>8, LeaderIsAlone
<1>10. Exclusive(b, after)
  <2> SUFFICES ASSUME NEW y \in Fresh, NEW z \in Fresh, TaskOf[y] = TaskOf[z],
                      Executes(b, after, y), Executes(b, after, z), y # z
               PROVE  FALSE
    BY DEF Exclusive
  <2>1. CASE y = x
    BY <1>7, <1>9, <2>1
  <2>2. CASE z = x
    BY <1>7, <1>9, <2>2
  <2>3. CASE y # x /\ z # x
    BY <1>2, <1>7, <2>3 DEF Timely, Exclusive
  <2> QED BY <2>1, <2>2, <2>3
<1>11. AllWarned(b, after, late)
  <2> SUFFICES ASSUME NEW z \in Fresh, NEW y \in Fresh,
                      TaskOf[z] = TaskOf[y], Owner[z] # Owner[y],
                      Executes(b, after, z), after[y] = "reserved"
               PROVE  Warned(b, late, z, y)
    BY DEF AllWarned
  <2>1. /\ y \in Attempt /\ z \in Attempt /\ y # x /\ run[y] = "reserved"
        /\ y # z /\ Owner[y] \in Machine
    BY <1>1
  <2> DEFINE m == Owner[y]
  <2>2. CASE z # x
    <3>1. Warned(a, late, z, y)
      BY <1>2, <1>7, <2>1, <2>2 DEF Timely, AllWarned
    <3> QED BY <1>1, <1>3, <2>1, <2>2, <3>1 DEF Warned
  <2>3. CASE z = x
    <3>1. m # n /\ y \in Fresh /\ x \in Fresh /\ Alive(run[y])
      BY <2>1, <2>3 DEF Alive
    <3>2. CASE ~a[n].rows[y].known
      <4>1. CASE OwnRow(a, y).known
        <5>1. late[n][y] + Remaining(a[m], y) >= Settle
          BY <1>2, <3>1, <3>2, <4>1 DEF Timely, Spread
        <5>2. Remaining(a[m], y) > timing.traversal
          BY <1>4, <1>5, <2>1, <5>1
        <5>3. late[m][x] + Remaining(a[m], y) > timing.traversal
          BY <1>4, <1>5, <2>1, <5>2
        <5> QED BY <1>1, <2>1, <2>3, <5>3 DEF Warned
      <4>2. CASE ~OwnRow(a, y).known
        BY <2>1, <3>1, <4>2 DEF Sound, Steady, Born
      <4> QED BY <4>1, <4>2
    <3>3. CASE a[n].rows[y].known
      <4>1. Earlier(a, x, y)
        BY <1>2, <1>8, <2>1, <2>3, <3>1, <3>3, LeaderIsEarliest
      <4>2. a[m].rows[x].known
        <5>1. OwnRow(a, x).known
          BY <3>1 DEF Sound, Steady, Born, Alive
        <5>2. ~a[m].rows[x].known => late[m][x] + Remaining(a[n], x) >= Settle
          BY <1>2, <2>1, <3>1, <5>1 DEF Timely, Spread
        <5>3. late[m][x] \in Nat /\ late[m][x] < timing.traversal
          BY <1>4, <2>1
        <5>4. ~(late[m][x] + Remaining(a[n], x) >= Settle)
          BY <1>4, <5>3
        <5> QED BY <5>2, <5>4
      <4> QED BY <1>1, <1>3, <2>1, <2>3, <4>1, <4>2 DEF Warned
    <3> QED BY <3>2, <3>3
  <2> QED BY <2>2, <2>3
<1> QED BY <1>2, <1>6, <1>10, <1>11 DEF Timely

LEMMA LaunchSound ==
  ASSUME IInv, SInv, NEW n \in Machine, NEW x \in Attempt, Launch(n, x)
  PROVE  Sound(db', proc', lag') /\ Attentive(n)
<1> DEFINE c == Reconcile(db[n], n, proc)
           number == c.clock + 1
           row == [c.rows[x] EXCEPT !.launched = number]
           rows == [c.rows EXCEPT ![x] = row]
           d == [c EXCEPT !.clock = number, !.rows = rows]
           e == Reconcile(d, n, proc)
           a == [db EXCEPT ![n] = c]
           b == [db EXCEPT ![n] = d]
<1>1. /\ proc[x] = "reserved" /\ Owner[x] = n /\ Active(c, x)
      /\ proc' = [proc EXCEPT ![x] = "running"]
      /\ db' = [db EXCEPT ![n] = e] /\ UNCHANGED lag
      /\ Owns(c, x) /\ Settled(c, x)
  BY DEF Launch
<1>2. /\ c \in Database /\ Reconciled(c, db[n], n, proc) /\ Decided(c)
      /\ a \in [Machine -> Database] /\ Good(a, proc)
  BY Types, ReconcileKeeps, ReconcileReconciles
<1> HIDE DEF c
<1>3. /\ Sound(a, proc, lag)
      /\ Evident(c, n, proc) /\ Remembers(c, db[n])
  <2>1. Ready(db, n, proc, lag)
    BY SoundIsReady DEF SInv
  <2> QED BY <1>2, <2>1, Types, TransactionSound
<1>4. /\ number \in Nat /\ c.rows \in [Attempt -> Row]
      /\ c.rows[x].known /\ ~c.rows[x].released
  BY <1>1, <1>2, Parts DEF Database, Active
<1> HIDE DEF number
<1>5. /\ row \in Row /\ row.known = c.rows[x].known
      /\ row.released = c.rows[x].released /\ row.ticket = c.rows[x].ticket
      /\ row.after = c.rows[x].after
  BY <1>4 DEF Row
<1> HIDE DEF row
<1>6. /\ rows \in [Attempt -> Row]
      /\ \A y \in Attempt : rows[y] = IF y = x THEN row ELSE c.rows[y]
  BY <1>4, <1>5
<1> HIDE DEF rows
<1>7. /\ d \in Database /\ d.rows = rows /\ d.seen = c.seen
      /\ d.pulses = c.pulses /\ d.sequence = c.sequence
      /\ d.booted = c.booted /\ d.due = c.due /\ d.winner = c.winner
  BY <1>2, <1>4, <1>6 DEF Database
<1>8. e \in Database /\ Reconciled(e, d, n, proc)
  BY <1>7, Types, ReconcileReconciles
<1> HIDE DEF d, e
<1>9. /\ b \in [Machine -> Database] /\ b[n] = d /\ a[n] = c
      /\ \A m \in Machine : m # n => b[m] = db[m] /\ a[m] = db[m]
      /\ [b EXCEPT ![n] = e] = [db EXCEPT ![n] = e]
  BY <1>2, <1>7, Types
<1> HIDE DEF a, b
<1>10. /\ \A m \in Machine :
            /\ b[m].seen = a[m].seen /\ b[m].pulses = a[m].pulses
            /\ b[m].sequence = a[m].sequence /\ b[m].winner = a[m].winner
            /\ b[m].booted = a[m].booted /\ b[m].due = a[m].due
       /\ \A m \in Machine, y \in Attempt :
            ~(m = n /\ y = x) => b[m].rows[y] = a[m].rows[y]
       /\ \A m \in Machine, y \in Attempt :
            /\ b[m].rows[y].known = a[m].rows[y].known
            /\ b[m].rows[y].released = a[m].rows[y].released
            /\ b[m].rows[y].ticket = a[m].rows[y].ticket
            /\ b[m].rows[y].after = a[m].rows[y].after
  BY <1>5, <1>6, <1>7, <1>9
<1>11. \A m \in Machine, y \in Attempt :
         /\ Last(b[m], y) = Last(a[m], y)
         /\ Heard(b[m], y) = Heard(a[m], y)
  BY <1>10 DEF Last, Heard
<1>12. \A y \in Attempt : /\ OwnRow(b, y).known = OwnRow(a, y).known
                          /\ OwnRow(b, y).after = OwnRow(a, y).after
  BY <1>10, Types DEF OwnRow
<1>13. /\ proc' \in [Attempt -> Process] /\ proc'[x] = "running"
       /\ \A y \in Attempt : y # x => proc'[y] = proc[y]
       /\ \A y \in Attempt : /\ Alive(proc'[y]) <=> Alive(proc[y])
                             /\ Unfinished(proc'[y]) <=> Unfinished(proc[y])
  <2>1. /\ proc' \in [Attempt -> Process] /\ proc'[x] = "running"
        /\ \A y \in Attempt : y # x => proc'[y] = proc[y]
    BY <1>1, Types DEF Process
  <2>2. ASSUME NEW y \in Attempt
        PROVE  /\ Alive(proc'[y]) <=> Alive(proc[y])
               /\ Unfinished(proc'[y]) <=> Unfinished(proc[y])
    <3>1. CASE y = x
      BY <1>1, <2>1, <3>1 DEF Alive, Unfinished
    <3>2. CASE y # x
      BY <2>1, <3>2
    <3> QED BY <3>1, <3>2
  <2> QED BY <2>1, <2>2
<1>14. \A m \in Machine : Living(m, proc') = Living(m, proc)
  BY <1>13 DEF Living
<1>15. Steady(b, proc')
  <2>1. Steady(a, proc)
    BY <1>3 DEF Sound
  <2>2. Born(b, proc')
    BY <1>12, <1>13, <2>1 DEF Steady, Born, Fresh
  <2>3. Ended(b, proc')
    BY <1>10, <1>13, <2>1 DEF Steady, Ended
  <2>4. Blank(b)
    BY <1>10, <2>1 DEF Steady, Blank
  <2>5. Elected(b)
    <3>1. Elected(a)
      BY <2>1 DEF Steady
    <3>2. /\ \A m \in Machine : b[m].winner = a[m].winner
          /\ \A m \in Machine, y \in Attempt :
               a[m].rows[y].known => b[m].rows[y].known
      BY <1>10
    <3> QED BY <3>1, <3>2, ElectedKept
  <2>6. Solo(proc')
    BY <1>13, <2>1 DEF Steady, Solo, Fresh
  <2> QED BY <2>2, <2>3, <2>4, <2>5, <2>6 DEF Steady
<1>16. ASSUME NEW m \in Machine PROVE Sustained(b[m], m, proc')
  <2>1. Sustained(a[m], m, proc)
    BY <1>3 DEF Sound
  <2>2. \A y \in Living(m, proc) : y \in Attempt
    BY DEF Living
  <2> QED BY <1>10, <1>11, <1>14, <2>1, <2>2 DEF Sustained, Kindled
<1>17. ASSUME timing.kept, NEW m \in Machine PROVE AllFollowed(b, m, proc', lag)
  <2> SUFFICES ASSUME NEW y \in Fresh, Owner[y] # m, Alive(proc'[y])
               PROVE  Followed(b[m], y, OwnRow(b, y), lag[m][y])
    BY DEF AllFollowed
  <2>1. y \in Attempt
    BY DEF Fresh
  <2>2. Followed(a[m], y, OwnRow(a, y), lag[m][y])
    BY <1>3, <1>13, <1>17, <2>1 DEF Sound, AllFollowed
  <2>3. b[m].rows[y] = a[m].rows[y]
    BY <1>1, <1>10, <2>1
  <2> QED BY <1>10, <1>11, <1>12, <2>1, <2>2, <2>3 DEF Followed
<1>18. ASSUME timing.kept PROVE Timely(b, proc', lag)
  <2>1. Remaining(a[n], x) = 0
    <3>1. x \in Living(n, proc)
      BY <1>1 DEF Living, Alive
    <3> QED BY <1>1, <1>3, <1>4, <1>9, <3>1 DEF Evident, Remaining, Settled
  <2>2. a[n].winner[TaskOf[x]] = x /\ Decided(a[n])
    BY <1>1, <1>2, <1>4, <1>9 DEF Owns
  <2>3. lag \in [Machine -> [Attempt -> Nat]]
    BY Types, TimesType
  <2>4. /\ b[n].rows[x].known = a[n].rows[x].known
        /\ b[n].rows[x].ticket = a[n].rows[x].ticket
        /\ \A m \in Machine : b[m].seen = a[m].seen
        /\ \A m \in Machine, y \in Attempt :
             ~(m = n /\ y = x) => b[m].rows[y] = a[m].rows[y]
    BY <1>10
  <2>5. /\ timing \in Timings /\ timing.kept /\ Owner[x] = n
        /\ a \in [Machine -> Database] /\ b \in [Machine -> Database]
        /\ proc[x] = "reserved" /\ proc'[x] = "running"
        /\ \A y \in Attempt : y # x => proc'[y] = proc[y]
        /\ Sound(a, proc, lag) /\ Good(a, proc)
    BY <1>1, <1>2, <1>3, <1>9, <1>13, <1>18, Types
  <2> QED BY <2>1, <2>2, <2>3, <2>4, <2>5, LaunchIsTimely, ZenonT(60)
<1>19. Sound(b, proc', lag)
  BY <1>15, <1>16, <1>17, <1>18 DEF Sound
<1>20. Reconciled(e, d, n, proc')
  <2>1. \A y \in Attempt : proc'[y] = proc[y] \/ (d.rows[y].known /\ proc[y] # "dead")
    BY <1>1, <1>4, <1>5, <1>6, <1>7, <1>13
  <2> QED BY <1>8, <1>13, <1>14, <2>1, ReconciledAlike
<1>21. /\ Sound([b EXCEPT ![n] = e], proc', lag)
       /\ Evident(e, n, proc') /\ Remembers(e, d)
  BY <1>8, <1>9, <1>13, <1>19, <1>20, SoundIsReady, TransactionSound, Types
<1>22. db'[n] = e /\ Remembers(e, db[n])
  BY <1>1, <1>3, <1>5, <1>6, <1>7, <1>21, Types DEF Remembers
<1> QED BY <1>1, <1>8, <1>9, <1>21, <1>22 DEF Attentive, Reconciled

----------------------------------------------------------------------------
(* The invariant holds. *)

\* What is left to show of a step.
LEMMA SoundNext ==
  ASSUME UNCHANGED timing, Sound(db', proc', lag')
  PROVE  SInv'
<1>1. Timely(db', proc', lag') = Timely(db, proc, lag)'
  BY DEF Timely, Caught, Spread, AllWarned, Warned, Exclusive, Executes, Earlier,
         Remaining, Settle, OwnRow
<1>2. (\A n \in Machine : AllFollowed(db', n, proc', lag'))
        = (\A n \in Machine : AllFollowed(db, n, proc, lag))'
  BY DEF AllFollowed, Followed, Heard, Last, OwnRow
<1>3. Steady(db', proc') = Steady(db, proc)'
  BY DEF Steady, Born, Ended, Blank, Elected, Solo, OwnRow
<1>4. (\A n \in Machine : Sustained(db'[n], n, proc'))
        = (\A n \in Machine : Sustained(db[n], n, proc))'
  BY DEF Sustained, Kindled, Heard, Last, Living
<1> QED BY <1>1, <1>2, <1>3, <1>4 DEF SInv, Sound

LEMMA NextSInv == IInv /\ SInv /\ [Next]_vars => SInv'
<1> SUFFICES ASSUME IInv, SInv, [Next]_vars PROVE SInv'
  OBVIOUS
<1> DEFINE Goal == Sound(db', proc', lag')
<1>1. ASSUME Tick PROVE Goal
  BY <1>1, TickSound
<1>2. ASSUME NEW n \in Machine, Maintain(n) PROVE Goal
  BY <1>2, MaintainSound
<1>3. ASSUME NEW n \in Machine, Reboot(n) PROVE Goal
  BY <1>3, RebootSound
<1>4. ASSUME NEW m \in Machine, NEW n \in Machine,
             NEW exchange \in timing.exchanges, HearPresence(m, n, exchange)
      PROVE  Goal
  BY <1>4, HearPresenceSound
<1>5. ASSUME NEW n \in Machine, NEW x \in Attempt, Reserve(n, x) PROVE Goal
  BY <1>5, ReserveSound
<1>6. ASSUME NEW n \in Machine, NEW x \in Attempt, LaunchRefused(n, x) PROVE Goal
  BY <1>6, LaunchRefusedSound
<1>7. ASSUME NEW n \in Machine, NEW x \in Attempt, LaunchWait(n, x) PROVE Goal
  BY <1>7, LaunchWaitSound
<1>8. ASSUME NEW n \in Machine, NEW x \in Attempt, Launch(n, x) PROVE Goal
  BY <1>8, LaunchSound
<1>9. ASSUME NEW n \in Machine, NEW x \in Attempt, CheckJob(n, x) PROVE Goal
  BY <1>9, CheckJobSound
<1>10. ASSUME NEW n \in Machine, NEW x \in Attempt, Finish(n, x) PROVE Goal
  BY <1>10, FinishSound
<1>11. ASSUME NEW n \in Machine, NEW x \in Attempt, Crash(n, x) PROVE Goal
  BY <1>11, CrashSound
<1>12. ASSUME NEW n \in Machine, NEW x \in Attempt, Deliver(n, x) PROVE Goal
  BY <1>12, DeliverSound
<1>13. ASSUME UNCHANGED vars PROVE Goal
  BY <1>13 DEF vars, SInv
<1> HIDE DEF Goal
<1>14. Goal
  BY <1>1, <1>2, <1>3, <1>4, <1>5, <1>6, <1>7, <1>8, <1>9, <1>10, <1>11, <1>12,
     <1>13 DEF Next
<1> QED BY <1>14, TimingStays, SoundNext DEF Goal

LEMMA SpecSInv == Spec => []SInv
<1>1. Init => SInv
  BY InitSound DEF SInv
<1>2. IInv /\ SInv /\ [Next]_vars => SInv'
  BY NextSInv
<1> QED BY <1>1, <1>2, SpecIInv, PTL DEF Spec

\* When facts and evidence travel in the times that a fleet has measured,
\* worker_launch_wait lets one attempt of a task through: settling outlasts
\* two traversals, one that tells the winner of every earlier reservation and
\* one that tells the others of its launch.
THEOREM ReservationsExclude == Spec => []TimelyExclusion
<1>1. SInv => TimelyExclusion
  <2> SUFFICES ASSUME SInv, timing.kept,
                      NEW x \in Attempt \ Legacy, NEW y \in Attempt \ Legacy,
                      TaskOf[x] = TaskOf[y],
                      proc[x] \in {"running", "stopping"},
                      proc[y] \in {"running", "stopping"},
                      db[Owner[x]].rows[x].launched # Null,
                      db[Owner[y]].rows[y].launched # Null
               PROVE  x = y
    BY DEF TimelyExclusion
  <2>1. Exclusive(db, proc)
    BY DEF SInv, Sound, Timely
  <2>2. Executes(db, proc, x) /\ Executes(db, proc, y)
    BY DEF Executes, OwnRow
  <2> QED BY <2>1, <2>2 DEF Exclusive, Fresh
<1> QED BY <1>1, SpecSInv, PTL

\* A step leaves the winners of a machine alone, or it is a transaction of
\* that machine.
Attended(n) == db'[n].winner = db[n].winner \/ Attentive(n)

LEMMA ElsewhereAttended ==
  ASSUME IInv, NEW m \in Machine, NEW n \in Machine, n # m,
         NEW value, db' = [db EXCEPT ![m] = value]
  PROVE  Attended(n)
<1>1. db'[n] = db[n]
  BY Types
<1> QED BY <1>1 DEF Attended

LEMMA NextAttended ==
  ASSUME IInv, SInv, [Next]_vars, NEW n \in Machine
  PROVE  Attended(n)
<1>1. (\E m \in Machine : n = m /\ Attentive(m)) => Attended(n)
  BY DEF Attended
<1>2. Calm(n) => Attended(n)
  BY DEF Attended, Calm
<1> HIDE DEF Attended
<1>3. ASSUME Tick PROVE Attended(n)
  BY <1>2, <1>3, TickCalm
<1>4. ASSUME NEW m \in Machine, Maintain(m) PROVE Attended(n)
  <2>1. CASE n = m
    BY <1>1, <1>4, <2>1, MaintainSound
  <2>2. CASE n # m
    BY <1>4, <2>2, ElsewhereAttended DEF Maintain
  <2> QED BY <2>1, <2>2
<1>5. ASSUME NEW m \in Machine, Reboot(m) PROVE Attended(n)
  BY <1>2, <1>5, RebootCalm
<1>6. ASSUME NEW k \in Machine, NEW m \in Machine,
             NEW exchange \in timing.exchanges, HearPresence(k, m, exchange)
      PROVE  Attended(n)
  <2>1. CASE n = m
    BY <1>1, <1>6, <2>1, HearPresenceSound
  <2>2. CASE n # m
    BY <1>6, <2>2, ElsewhereAttended DEF HearPresence
  <2> QED BY <2>1, <2>2
<1>7. ASSUME NEW m \in Machine, NEW x \in Attempt, Reserve(m, x)
      PROVE  Attended(n)
  <2>1. CASE n = m
    BY <1>1, <1>7, <2>1, ReserveSound
  <2>2. CASE n # m
    BY <1>7, <2>2, ElsewhereAttended DEF Reserve
  <2> QED BY <2>1, <2>2
<1>8. ASSUME NEW m \in Machine, NEW x \in Attempt,
             LaunchRefused(m, x) \/ LaunchWait(m, x)
      PROVE  Attended(n)
  <2>1. CASE n = m
    BY <1>1, <1>8, <2>1, LaunchRefusedSound, LaunchWaitSound
  <2>2. CASE n # m
    BY <1>8, <2>2, ElsewhereAttended DEF LaunchRefused, LaunchWait
  <2> QED BY <2>1, <2>2
<1>9. ASSUME NEW m \in Machine, NEW x \in Attempt, Launch(m, x)
      PROVE  Attended(n)
  <2>1. CASE n = m
    BY <1>1, <1>9, <2>1, LaunchSound
  <2>2. CASE n # m
    BY <1>9, <2>2, ElsewhereAttended DEF Launch
  <2> QED BY <2>1, <2>2
<1>10. ASSUME NEW m \in Machine, NEW x \in Attempt, Finish(m, x)
       PROVE  Attended(n)
  BY <1>2, <1>10, FinishCalm
<1>11. ASSUME NEW m \in Machine, NEW x \in Attempt, Deliver(m, x)
       PROVE  Attended(n)
  <2>1. CASE n = m
    BY <1>1, <1>11, <2>1, DeliverSound
  <2>2. CASE n # m
    BY <1>11, <2>2, ElsewhereAttended DEF Deliver
  <2> QED BY <2>1, <2>2
<1>12. ASSUME UNCHANGED db PROVE Attended(n)
  BY <1>12 DEF Attended
<1>13. ASSUME NEW m \in Machine, NEW x \in Attempt, CheckJob(m, x) \/ Crash(m, x)
       PROVE  Attended(n)
  BY <1>12, <1>13 DEF CheckJob, Crash
<1>14. ASSUME UNCHANGED vars PROVE Attended(n)
  BY <1>12, <1>14 DEF vars
<1> QED BY <1>3, <1>4, <1>5, <1>6, <1>7, <1>8, <1>9, <1>10, <1>11, <1>13, <1>14
    DEF Next

\* A living attempt that has its task on its own machine only loses it to one
\* that precedes it: reconcile renews expired evidence of local attempts
\* before it elects, so that every living one stands for election.
THEOREM LivingAttemptsAreKept == Spec => LivingAttemptKept
<1>1. IInv /\ SInv /\ [Next]_vars =>
        \A x \in Attempt :
          LET d == db[Owner[x]]
              e == db'[Owner[x]]
              w == e.winner[TaskOf[x]]
          IN /\ d.winner[TaskOf[x]] = x /\ w # x
             /\ Alive(proc[x]) /\ Alive(proc'[x])
             => w # Null /\ Precedes(e.rows[w], w, e.rows[x], x)
  <2> SUFFICES ASSUME IInv, SInv, [Next]_vars, NEW x \in Attempt,
                      db[Owner[x]].winner[TaskOf[x]] = x,
                      db'[Owner[x]].winner[TaskOf[x]] # x,
                      Alive(proc'[x])
               PROVE  LET e == db'[Owner[x]]
                          w == e.winner[TaskOf[x]]
                      IN w # Null /\ Precedes(e.rows[w], w, e.rows[x], x)
    OBVIOUS
  <2> DEFINE n == Owner[x]
             e == db'[n]
             w == e.winner[TaskOf[x]]
  <2>1. n \in Machine /\ TaskOf[x] \in Task /\ x # Null
    BY OwnersAssumption
  <2>2. Attentive(n)
    BY <2>1, NextAttended DEF Attended
  <2>3. db[n].rows[x].known
    BY <2>1 DEF SInv, Sound, Steady, Elected
  <2>4. x \in Candidates(e, TaskOf[x])
    <3>1. x \in Living(n, proc') /\ e.rows[x].known
      BY <2>2, <2>3 DEF Attentive, Remembers, Living
    <3> QED BY <2>2, <3>1 DEF Attentive, Evident, Candidates, Standing, Active
  <2>5. Leads(e, w, TaskOf[x])
    BY <2>1, <2>2, <2>4 DEF Attentive, Decided
  <2>6. w \in Attempt
    BY <2>5 DEF Leads, Candidates
  <2> QED BY <2>4, <2>5, <2>6, OwnersAssumption DEF Leads
<1> QED BY <1>1, SpecIInv, SpecSInv, PTL DEF Spec, LivingAttemptKept

=============================================================================
