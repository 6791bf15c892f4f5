---------------------------- MODULE Allocations ----------------------------
(***************************************************************************)
(* Which machine may run an agent on a task, when any peer may pick it up  *)
(* (src/issues/allocations.rs).  Every attempt has one owner, whose        *)
(* reservation, launch and release are facts that reach the other peers    *)
(* in any order and as late as they like; presence pulses overtake them.   *)
(* Each peer ages what it has received with its own monotonic clock and    *)
(* elects a winner per task with one deterministic rule.                   *)
(*                                                                         *)
(* Absolute ticks are replaced by the time that is left until them, so     *)
(* "deadline > now" reads left > 0 and Tick ages the whole system.  The    *)
(* unit is coarse: one tick is what a fact needs for one relay traversal.  *)
(***************************************************************************)
EXTENDS Integers, FiniteSets

CONSTANTS
  Machine,        \* the peers
  Attempt,        \* worker runs, each used once
  Owner,          \* the machine that executes an attempt
  Task,           \* issues
  TaskOf,         \* the issue an attempt works on
  Rank,           \* the order (machine, id) that breaks ties
  Legacy,         \* attempts already running when the peer role was enabled
  Timings,        \* the times measured on a fleet and whether it keeps to them
  MaxSequence,    \* bound: renewals that are not forced by an expiry
  MaxFailures,    \* bound: reboots and worker crashes together
  Null

ASSUME OwnersAssumption ==
  /\ Owner \in [Attempt -> Machine]
  /\ TaskOf \in [Attempt -> Task]
  /\ Legacy \subseteq Attempt
  /\ Null \notin Attempt \cup Int

ASSUME RankAssumption ==
  /\ Rank \in [Attempt -> Nat]
  /\ \A x, y \in Attempt : Rank[x] = Rank[y] => x = y

ASSUME BoundsAssumption ==
  /\ Timings \subseteq
       [traversal: Nat \ {0}, \* ticks of (SYNC_INTERVAL + exchange) * RELAY_HOPS
        missed: Nat \ {0},    \* renewals a lease outlives
        exchanges: SUBSET Nat, \* what exchanges deduct from evidence they carry
        kept: BOOLEAN]         \* facts and evidence keep to it, nothing fails
  /\ MaxSequence \in Nat
  /\ MaxFailures \in Nat

VARIABLES
  timing,   \* one of Timings, the same all the time
  db,       \* each machine's database, a record of type Database
  proc,     \* what the owner's process does with an attempt
  lag,      \* ticks since a machine fell behind an attempt's owner
  failures  \* how many reboots and crashes happened

vars == <<timing, db, proc, lag, failures>>

SettleTraversals == 2
Settle == timing.traversal * SettleTraversals
Lease == Settle * timing.missed

----------------------------------------------------------------------------
\* A row of worker_allocations; NoRow where the fact has not arrived.
NoRow == [known |-> FALSE, ticket |-> 0, launched |-> Null,
          released |-> FALSE, after |-> 0]
Row == [known: BOOLEAN, ticket: Nat, launched: Nat \cup {Null},
        released: BOOLEAN, after: Nat]

\* A row of worker_allocation_observations.  "stale" stands for a row that
\* carries the identity of an earlier boot.
NoObservation == [boot |-> "none", left |-> 0, wait |-> 0, seen |-> -1]
Observation == [boot: {"none", "stale", "current"}, left: 0 .. Lease,
                wait: 0 .. Settle, seen: Nat \cup {-1}]

\* A row of worker_allocation_presence.
NoPulse == [boot |-> "none", sequence |-> -1, attempts |-> {}, left |-> 0]
Pulse == [boot: {"none", "stale", "current"}, sequence: Nat \cup {-1},
          attempts: SUBSET Attempt, left: 0 .. Lease]

Database ==
  [clock: Nat, booted: BOOLEAN, due: BOOLEAN, sequence: Nat,
   rows: [Attempt -> Row], seen: [Attempt -> Observation],
   pulses: [Machine -> Pulse], winner: [Task -> Attempt \cup {Null}]]

\* worker_runs rows that are not finished, and those whose worker lives.
Alive(run) == run \in {"reserved", "running", "stopping"}
Unfinished(run) == Alive(run) \/ run = "dead"

Active(d, x) == d.rows[x].known /\ ~d.rows[x].released
Launched(d, x) == Active(d, x) /\ d.rows[x].launched # Null

----------------------------------------------------------------------------
(***************************************************************************)
(* Renew, Observe, Heed and Elect are the statements of one transaction:   *)
(* each maps a database to the next one; run is worker_runs as it sees it. *)
(***************************************************************************)

\* A renewal releases the attempts whose worker died, adopts runs that have
\* no reservation yet and lists the living ones in a new presence pulse.
Renew(d, n, run) ==
  IF d.booted /\ ~d.due THEN d ELSE
  LET living == {x \in Attempt : Owner[x] = n /\ Alive(run[x])}
      dead   == {x \in Attempt : Owner[x] = n /\ run[x] = "dead"}
      adopted(x) == [NoRow EXCEPT !.known = TRUE,
                       !.launched = IF run[x] = "reserved" THEN Null ELSE 0]
  IN [d EXCEPT
        !.booted = TRUE, !.due = FALSE, !.sequence = @ + 1,
        !.rows = [x \in Attempt |->
                    CASE x \in dead /\ @[x].known  -> [@[x] EXCEPT !.released = TRUE]
                      [] x \in living /\ ~@[x].known -> adopted(x)
                      [] OTHER -> @[x]],
        !.pulses[n] = [boot |-> "current", sequence |-> d.sequence + 1,
                       attempts |-> living, left |-> Lease]]

\* The countdowns of a reservation start when this machine first sees it; an
\* observation of an earlier boot is worth nothing.
\* Deviation: no settling time.
Observe_Unsettled(d) ==
  [d EXCEPT !.seen = [x \in Attempt |->
     CASE Active(d, x) /\ @[x].boot = "none" ->
            [boot |-> "current", left |-> Lease, wait |-> 0, seen |-> -1]
       [] Active(d, x) /\ @[x].boot = "stale" ->
            [boot |-> "current", left |-> 0, wait |-> 0, seen |-> -1]
       [] OTHER -> @[x]]]
Observe(d) ==
  [d EXCEPT !.seen = [x \in Attempt |->
     CASE Active(d, x) /\ @[x].boot = "none" ->
            [boot |-> "current", left |-> Lease, wait |-> Settle, seen |-> -1]
       [] Active(d, x) /\ @[x].boot = "stale" ->
            [boot |-> "current", left |-> 0, wait |-> Settle, seen |-> -1]
       [] OTHER -> @[x]]]

\* A pulse newer than the one last heeded renews what it lists and ends what
\* it omits, unless it was sent before the reservation was made.
Heeded(d, x) ==
  LET p == d.pulses[Owner[x]]
  IN /\ Active(d, x)
     /\ p.boot = "current"
     /\ p.sequence >= d.rows[x].after
     /\ p.sequence > d.seen[x].seen
Heed(d) ==
  [d EXCEPT !.seen = [x \in Attempt |->
     IF ~Heeded(d, x) THEN @[x]
     ELSE LET p == d.pulses[Owner[x]]
          IN [@[x] EXCEPT !.seen = p.sequence,
                          !.left = IF x \in p.attempts THEN p.left ELSE 0]]]

\* Launched attempts stay until their owner releases them; a reservation
\* stays while there is evidence for it.
\* Deviation: lost presence also ends launched attempts.
Standing_LeaseForAll(d, x) ==
  Active(d, x) /\ d.seen[x].boot = "current" /\ d.seen[x].left > 0
Standing(d, x) ==
  /\ Active(d, x)
  /\ \/ d.rows[x].launched # Null
     \/ d.seen[x].boot = "current" /\ d.seen[x].left > 0

\* Launched before reserved, then by Lamport number, then by identity.
\* Deviation: a reservation can precede a launch.
Precedes_ByTicket(r, x, s, y) ==
  \/ r.ticket < s.ticket
  \/ r.ticket = s.ticket /\ Rank[x] < Rank[y]
Precedes(r, x, s, y) ==
  LET number(row) == IF row.launched = Null THEN row.ticket ELSE row.launched
  IN IF (r.launched = Null) # (s.launched = Null)
     THEN s.launched = Null
     ELSE \/ number(r) < number(s)
          \/ number(r) = number(s) /\ Rank[x] < Rank[y]

Elect(d) ==
  [d EXCEPT !.winner = [t \in Task |->
     LET standing == {x \in Attempt : TaskOf[x] = t /\ Standing(d, x)}
     IN IF standing = {} THEN Null
        ELSE CHOOSE x \in standing :
               \A y \in standing \ {x} : Precedes(d.rows[x], x, d.rows[y], y)]]

\* reconcile: evidence of a local attempt that seems to have expired is
\* collected again before anything is decided from it.
\* Deviation: an expired local pulse is taken as proof of an exit.
Reconcile_TrustsExpiry(d, n, run) == Elect(Heed(Observe(d)))
Reconcile(d, n, run) ==
  LET expired == \E x \in Attempt :
        /\ Owner[x] = n /\ Active(d, x) /\ Unfinished(run[x])
        /\ \/ d.seen[x].boot = "stale"
           \/ d.seen[x].boot = "current" /\ d.seen[x].left = 0
  IN Elect(Heed(Observe(IF expired THEN Renew(d, n, run) ELSE d)))

----------------------------------------------------------------------------
Init ==
  /\ timing \in Timings
  /\ db = [n \in Machine |->
             [clock |-> 0, booted |-> FALSE, due |-> TRUE, sequence |-> 0,
              rows |-> [x \in Attempt |-> NoRow],
              seen |-> [x \in Attempt |-> NoObservation],
              pulses |-> [m \in Machine |-> NoPulse],
              winner |-> [t \in Task |-> Null]]]
  /\ proc = [x \in Attempt |-> IF x \in Legacy THEN "running" ELSE "none"]
  /\ lag = [n \in Machine |-> [x \in Attempt |-> 0]]
  /\ failures = 0

\* maintain, in the transport loops and before every pickup.
Maintain(n) ==
  /\ ~db[n].booted \/ (db[n].due /\ db[n].sequence < MaxSequence)
  /\ db' = [db EXCEPT ![n] = Reconcile(Renew(@, n, proc), n, proc)]
  /\ UNCHANGED <<timing, proc, lag, failures>>

\* The row that the insertion of a run reserves.
\* Deviation: the pulse already sent may judge it.
Reservation_HeedsSentPulse(d) ==
  [known |-> TRUE, ticket |-> d.clock + 1, launched |-> Null,
   released |-> FALSE, after |-> d.sequence]
Reservation(d) ==
  [known |-> TRUE, ticket |-> d.clock + 1, launched |-> Null,
   released |-> FALSE, after |-> d.sequence + 1]

\* A worker picks an issue up: the run and its reservation are one
\* transaction, after maintain.  The queue offers no issue that another machine
\* holds or that has an unfinished local run.
Reserve(n, x) ==
  /\ db[n].booted
  /\ proc[x] = "none" /\ Owner[x] = n
  /\ \A y \in Attempt : Owner[y] = n /\ TaskOf[y] = TaskOf[x] => ~Unfinished(proc[y])
  /\ LET w == db[n].winner[TaskOf[x]] IN w # Null => Owner[w] = n
  /\ proc' = [proc EXCEPT ![x] = "reserved"]
  /\ LET d == [db[n] EXCEPT !.clock = @ + 1, !.rows[x] = Reservation(db[n])]
     IN db' = [db EXCEPT ![n] = Reconcile(d, n, proc')]
  /\ UNCHANGED <<timing, lag, failures>>

\* Announced attempts whose reservation has not arrived.
PendingReservations(d) ==
  {y \in Attempt : y \in d.pulses[Owner[y]].attempts /\ ~d.rows[y].known}

\* No reservation row at all means that the run predates them.
Owns(d, x) == ~d.rows[x].known \/ d.winner[TaskOf[x]] = x

\* The two outcomes of worker_launch_wait that end or begin something; when it
\* asks to wait, only its reconciliation remains (LaunchWait).
Settled(d, x) == PendingReservations(d) = {} /\ d.seen[x].wait = 0

LaunchRefused(n, x) ==
  /\ proc[x] = "reserved" /\ Owner[x] = n
  /\ LET d == Reconcile(db[n], n, proc)
     IN /\ ~Active(d, x) \/ ~Owns(d, x)
        /\ db' = [db EXCEPT ![n] = d]
  /\ proc' = [proc EXCEPT ![x] = "stopping"]
  /\ UNCHANGED <<timing, lag, failures>>

LaunchWait(n, x) ==
  /\ proc[x] = "reserved" /\ Owner[x] = n
  /\ LET d == Reconcile(db[n], n, proc)
     IN /\ Active(d, x) /\ Owns(d, x) /\ ~Settled(d, x)
        /\ db' = [db EXCEPT ![n] = d]
  /\ UNCHANGED <<timing, proc, lag, failures>>

Launch(n, x) ==
  /\ proc[x] = "reserved" /\ Owner[x] = n
  /\ LET d == Reconcile(db[n], n, proc)
         e == [d EXCEPT !.clock = @ + 1, !.rows[x].launched = d.clock + 1]
     IN /\ Active(d, x) /\ Owns(d, x) /\ Settled(d, x)
        /\ db' = [db EXCEPT ![n] = Reconcile(e, n, proc)]
  /\ proc' = [proc EXCEPT ![x] = "running"]
  /\ UNCHANGED <<timing, lag, failures>>

\* check_job polls the stored winner, without reconciling.
\* Deviation: a launched agent is not polled any more.
CheckJob_OnlyReserved(n, x) ==
  /\ proc[x] = "reserved" /\ Owner[x] = n
  /\ ~Owns(db[n], x)
  /\ proc' = [proc EXCEPT ![x] = "stopping"]
  /\ UNCHANGED <<timing, db, lag, failures>>
CheckJob(n, x) ==
  /\ proc[x] \in {"reserved", "running"} /\ Owner[x] = n
  /\ ~Owns(db[n], x)
  /\ proc' = [proc EXCEPT ![x] = "stopping"]
  /\ UNCHANGED <<timing, db, lag, failures>>

\* worker_finish, by the worker itself or by the recovery of a dead one; a
\* trigger releases the reservation.
Finish(n, x) ==
  /\ Unfinished(proc[x]) /\ Owner[x] = n
  /\ proc' = [proc EXCEPT ![x] = "done"]
  /\ db' = [db EXCEPT ![n].rows[x].released = db[n].rows[x].known]
  /\ UNCHANGED <<timing, lag, failures>>

\* The worker process dies and leaves its run unfinished.
Crash(n, x) ==
  /\ failures < MaxFailures /\ ~timing.kept
  /\ failures' = failures + 1
  /\ Alive(proc[x]) /\ Owner[x] = n
  /\ proc' = [proc EXCEPT ![x] = "dead"]
  /\ UNCHANGED <<timing, db, lag>>

----------------------------------------------------------------------------
(* Replication.  Facts of one row form a chain, and the newest wins. *)

Versions(r) ==
  {[r EXCEPT !.launched = Null, !.released = FALSE],
   [r EXCEPT !.released = FALSE], r}
Newer(r, s) ==
  \/ r.known /\ ~s.known
  \/ r.launched # Null /\ s.launched = Null
  \/ r.released /\ ~s.released
Behind(n, x) == Newer(db[Owner[x]].rows[x], db[n].rows[x])

\* import and materialize::apply: the row of a remote attempt is written, the
\* Lamport clock catches up with it and winners are elected again.
\* Deviation: the Lamport clock does not catch up.
Learned_IgnoresClock(d, x, r) == [d EXCEPT !.rows[x] = r]
Learned(d, x, r) ==
  LET number == IF r.launched = Null \/ r.launched < r.ticket
                THEN r.ticket ELSE r.launched
  IN [d EXCEPT !.rows[x] = r,
               !.clock = IF number > @ THEN number ELSE @]

Deliver(n, x) ==
  /\ Owner[x] # n
  /\ \E r \in Versions(db[Owner[x]].rows[x]) :
       /\ Newer(r, db[n].rows[x])
       /\ db' = [db EXCEPT ![n] = Reconcile(Learned(@, x, r), n, proc)]
       /\ lag' = [lag EXCEPT ![n][x] =
                    IF Newer(db[Owner[x]].rows[x], r) THEN @ ELSE 0]
  /\ UNCHANGED <<timing, proc, failures>>

\* The whole exchange is deducted from evidence, but not more than there is.
\* Deviation: what is left can be negative.
Deducted_Unfloored(left, exchange) == left - exchange
Deducted(left, exchange) == IF left > exchange THEN left - exchange ELSE 0

\* presence and receive_presence: unexpired evidence of the sender's boot is
\* passed on, relayed evidence included, less the time of the exchange.  The
\* receiver takes nothing about itself and only newer pulses.  A fleet that
\* keeps its times carries evidence no further than there is a traversal of it
\* left: that is what the lease of several settling times is for.
HearPresence(m, n, exchange) ==
  /\ m # n
  /\ LET fresher(k) == /\ k # n
                       /\ db[m].pulses[k].boot = "current"
                       /\ db[m].pulses[k].left > 0
                       /\ db[m].pulses[k].sequence > db[n].pulses[k].sequence
         heard(k) == [db[m].pulses[k] EXCEPT !.left =
                        Deducted(@, exchange)]
         d == [db[n] EXCEPT !.pulses =
                 [k \in Machine |-> IF fresher(k) THEN heard(k) ELSE @[k]]]
     IN /\ \E k \in Machine : fresher(k)
        /\ timing.kept => \A k \in Machine :
             fresher(k) => heard(k).left >= timing.traversal
        /\ db' = [db EXCEPT ![n] = Reconcile(d, n, proc)]
  /\ UNCHANGED <<timing, proc, lag, failures>>

----------------------------------------------------------------------------
(* Time and reboots. *)

Aged(left) == IF left = 0 THEN 0 ELSE left - 1

AgedDatabase(d) ==
  [d EXCEPT !.due = TRUE,
            !.seen = [x \in Attempt |->
                        [d.seen[x] EXCEPT !.left = Aged(@), !.wait = Aged(@)]],
            !.pulses = [k \in Machine |-> [d.pulses[k] EXCEPT !.left = Aged(@)]]]

\* What a fleet that keeps to its timing promises: every fact takes less than
\* a traversal, and no evidence for a living reservation runs out.
InTime ==
  \A n \in Machine, x \in Attempt :
    /\ Behind(n, x) => lag[n][x] + 1 < timing.traversal
    /\ Alive(proc[x]) /\ Active(db[n], x) => db[n].seen[x].left > 1

Tick ==
  /\ \A n \in Machine : db[n].sequence <= MaxSequence
  /\ timing.kept => InTime
  /\ db' = [n \in Machine |-> AgedDatabase(db[n])]
  /\ lag' = [n \in Machine |-> [x \in Attempt |->
               IF timing.kept /\ Behind(n, x) THEN lag[n][x] + 1 ELSE 0]]
  /\ UNCHANGED <<timing, proc, failures>>

\* A machine restarts: its workers die and every tick it stored belongs to an
\* earlier boot.
Reboot(n) ==
  /\ failures < MaxFailures /\ ~timing.kept
  /\ failures' = failures + 1
  /\ proc' = [x \in Attempt |->
                IF Owner[x] = n /\ Alive(proc[x]) THEN "dead" ELSE proc[x]]
  /\ db' = [db EXCEPT
       ![n].booted = FALSE, ![n].due = TRUE,
       ![n].seen = [x \in Attempt |->
          IF @[x].boot = "none" THEN @[x]
          ELSE [boot |-> "stale", left |-> 0, wait |-> 0, seen |-> -1]],
       ![n].pulses = [k \in Machine |->
          IF @[k].boot = "none" THEN @[k]
          ELSE [@[k] EXCEPT !.boot = "stale", !.left = 0]]]
  /\ UNCHANGED <<timing, lag>>

Next ==
  \/ Tick
  \/ \E n \in Machine : Maintain(n) \/ Reboot(n)
  \/ \E m, n \in Machine, exchange \in timing.exchanges : HearPresence(m, n, exchange)
  \/ \E n \in Machine, x \in Attempt :
       \/ Reserve(n, x) \/ LaunchRefused(n, x) \/ LaunchWait(n, x)
       \/ Launch(n, x) \/ CheckJob(n, x) \/ Finish(n, x) \/ Crash(n, x)
       \/ Deliver(n, x)

Spec == Init /\ [][Next]_vars

\* Every machine keeps maintaining its leases, facts keep travelling, living
\* workers keep polling, and a worker that was told to stop ends.  Nothing says
\* that an agent ever finishes by itself.
FairSpec ==
  /\ Spec
  /\ \A n \in Machine : WF_vars(Maintain(n))
  /\ WF_vars(\E n \in Machine, x \in Attempt : Deliver(n, x))
  /\ WF_vars(\E n \in Machine, x \in Attempt : CheckJob(n, x))

----------------------------------------------------------------------------
(* Properties. *)

\* Every variable has its type.
TypeOK ==
  /\ timing \in Timings
  /\ db \in [Machine -> Database]
  /\ proc \in [Attempt ->
                 {"none", "reserved", "running", "stopping", "dead", "done"}]
  /\ lag \in [Machine -> [Attempt -> 0 .. timing.traversal]]
  /\ failures \in 0 .. MaxFailures

\* A pulse that may judge a reservation and does not list it proves that the
\* worker has stopped: renew_local collects processes and numbers pulses in
\* the transaction that the trigger's presence_after refers to.
OmissionProvesStopped ==
  \A n \in Machine, x \in Attempt :
    LET p == db[n].pulses[Owner[x]]
    IN /\ Active(db[n], x)
       /\ p.boot # "none"
       /\ p.sequence >= db[n].rows[x].after
       /\ x \notin p.attempts
       => ~Alive(proc[x])

\* Two attempts of one task that are both launched were launched without
\* knowledge of each other: a machine that knows of a launch numbers its own
\* launches after it, so the earlier one precedes on every peer.
LaunchesFollowKnowledge ==
  [][\A n \in Machine, x, y \in Attempt :
       /\ ~Launched(db[n], x) /\ Launched(db'[n], x)
       /\ Owner[x] = n /\ x \notin Legacy
       /\ y # x /\ db[n].rows[y].known
       => LET r == db'[n].rows[x]
              s == db[n].rows[y]
          IN /\ s.launched # Null => r.launched > s.launched
             /\ r.launched > s.ticket
             /\ ~(TaskOf[x] = TaskOf[y] /\ Launched(db'[n], y))]_vars

\* A running agent is stopped in favour of another attempt only when that one
\* really was launched and precedes it: no lost presence, no reservation and
\* no reboot elsewhere stops it.
OnlyLosersStop ==
  [][\A x \in Attempt :
       proc[x] = "running" /\ proc'[x] = "stopping" =>
         \E y \in Attempt :
           LET r == db[Owner[y]].rows[y]
           IN /\ TaskOf[y] = TaskOf[x] /\ r.launched # Null
              /\ Precedes(r, y, db[Owner[x]].rows[x], x)]_vars

\* Silence never proves that a launched agent stopped: its task stays with it
\* on every machine until its owner releases it or an earlier launch arrives.
LaunchFence ==
  [][\A n \in Machine, x \in Attempt :
       LET d == db[n]
           e == db'[n]
           w == e.winner[TaskOf[x]]
       IN /\ d.winner[TaskOf[x]] = x /\ w # x
          /\ Launched(d, x) /\ Launched(e, x)
          => /\ w # Null /\ Launched(e, w)
             /\ Precedes(e.rows[w], w, e.rows[x], x)]_vars

\* On its own machine a living attempt is displaced by a better one, never by
\* the clock: its evidence is collected again before it may expire.
LivingAttemptKept ==
  [][\A x \in Attempt :
       LET d == db[Owner[x]]
           e == db'[Owner[x]]
           w == e.winner[TaskOf[x]]
       IN /\ d.winner[TaskOf[x]] = x /\ w # x
          /\ Alive(proc[x]) /\ Alive(proc'[x])
          => w # Null /\ Precedes(e.rows[w], w, e.rows[x], x)]_vars

\* When facts and evidence travel within the time that settling allows for, no
\* task ever has two running agents that were reserved here.  A legacy attempt
\* runs before anybody can know of it, and is adopted as it is.
TimelyExclusion ==
  timing.kept => \A x, y \in Attempt \ Legacy :
    /\ TaskOf[x] = TaskOf[y]
    /\ proc[x] \in {"running", "stopping"} /\ proc[y] \in {"running", "stopping"}
    /\ db[Owner[x]].rows[x].launched # Null /\ db[Owner[y]].rows[y].launched # Null
    => x = y

\* Two running agents of one task do not stay: the machines learn of both
\* launches and the owner of the later one stops it.
ConflictsResolve ==
  \A x, y \in Attempt :
    (x # y /\ TaskOf[x] = TaskOf[y] /\ proc[x] = "running" /\ proc[y] = "running")
      ~> (proc[x] # "running" \/ proc[y] # "running")
============================================================================
