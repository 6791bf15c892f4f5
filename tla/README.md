# hey-boss: a TLA+ verification of its distributed core

hey-boss lets several machines work on one issue queue. Every machine keeps a
complete SQLite database, accepts writes while it is offline, and exchanges
immutable *facts* with its peers over SSH. There is no consensus and no central
lock, so the interesting properties are about what survives concurrency, lost
messages, restarts and late facts. This directory models that core in TLA+,
checks it with TLC on small instances and proves its main invariants with TLAPS.

## Inventory of the system

| Component | State | Operations | Interacts with | What makes it hard | What makes it correct |
|---|---|---|---|---|---|
| Sync engine and session (`packages/hey-boss-sync`) | delivery log, payloads and tombstones, receipts, acknowledged positions | put, prune, batch, ingest, acknowledge; one exchange at client and server | transport threads (several connections at once), application projection | lost final acknowledgment, concurrent sessions between the same replicas, relays, byte-limited pages | a receipt covers a prefix; an acknowledgment is never early; nothing is delivered twice; tombstones stay; everything converges |
| Reservations (`src/issues/allocations.rs`) | tickets, launches, releases (facts); presence pulses, observations, winners (local) | reserve, renew, receive presence, reconcile, launch, release | sync engine (facts), session (presence), worker admission and the worker process | presence overtaking the fact, replayed pulses, reboots, partitions, lease expiry against running processes | one launched attempt wins everywhere; a running attempt is not lost to a stale view; a loser stops |
| Capture, export, import, projection (`src/fleet/native/distributed*`) | outbox, logical clock, exported and projected cursors, field values, dirty rows | row triggers, export, baseline, import, reduce, materialize | engine journal, issue tables, ordering, graph | two databases with separate commits and crashes between them; facts in any order; requirements changing under a close | convergence independent of the delivery order; no fact lost between the two databases; a stale close never closes newer requirements |
| Queue order (`distributed/ordering.rs`) | base positions, rotations, materialized positions | reduce, rotate, seed | import and projection | a rotation or a base position arriving late | the order is a function of the set of facts |
| Dependency graph (`distributed/graph.rs`) | accepted blocker edges | blockers, subtasks, reaches | projection | concurrent edges that together form a cycle | acyclic, deterministic |
| Transport threads (`distributed/transport.rs`, `health.rs`) | presence snapshots, single-slot inbox, watchdog | Application loop, connect loop, serve loop | all of the above | a busy application database, silent peers, replaced binaries | presence never gains lifetime; the drained report is truthful |
| Activation (`distributed/activation.rs`) | member slots, active flag | enroll, activate | legacy fleet, capture | legacy outbox still filling while the role changes | nothing pending is left behind |
| Scheduled jobs (`src/jobs`, `fleet/native/jobs.rs`) | definitions, revisions, occurrences, owners with generations, local executions | save, tick, dispatch, assign, report, stop, revoke, handoff | supervisor, workers | disconnects, crashes between launch and report, overlap | one execution per occurrence; at most one active run per job; a revoked generation never reports |
| Database owner (`src/database`) | owner process, lock file, sockets, sessions | elect, serve, drain, reconnect | every process of the machine | a replaced socket file, an owner dying with work in flight | at most one owner; an uncertain write is never repeated |
| Workers, runs, claims (`src/issues/worker*.rs`, `store.rs`) | workers, runs, attempts, assignments, blockers | claim, start, finish, recover | reservations, agents | crash between claim and start, survivors of a restart | an issue has one owner |
| Legacy fleet (`fleet/native/supervisor.rs`, `companion.rs`, `replica.rs`, `pull.rs`, `control.rs`) | streams, signals, snapshots | pull, acknowledge, fence | supervisor, companions | partial frames, stale generations | no lost or repeated mutation |
| Everything else (broker, agent runtimes, web UI, TUI, event log, error inbox, pages, attachments, upgrade, GitHub readers, proxies, Swift apps, vendored cr-sqlite) | | | | mostly I/O and presentation | not modelled |

## Plan

The order follows the consequences of an error: first the engine that must not
lose facts, then the rules that let agents run, then what the facts mean.

| # | Modules | Composition | State |
|---|---|---|---|
| 1 | `SyncExchange`, `FactReplication`, `MC_SyncExchange`, `SyncExchange_proofs` | the exchange implements the abstract replication of fact sets | checked, safety and refinement proved |
| 2 | `Allocations`, `MC_Allocations`, `Allocations_proofs` | takes the engine as "facts of a row arrive in any order", presence as messages of their own | checked, every safety property proved |
| 3 | `DependencyGraph`, `MC_DependencyGraph`, `DependencyFilter_proofs`, `DependencyGraph_proofs` | takes the engine as causal delivery of facts | checked, every property of `deps_edits` proved |
| 4 | `QueueOrder`, `QueueOrder_proofs` | as 3 | checked, every property proved |
| 5 | `Journal`, `Journal_proofs` | two databases of one machine, with the engine as an append-only journal that peers copy in order | checked, exports, own edits and rows at rest proved |
| 6 | `Jobs`, `SingleExecution`, `MC_Jobs`, `Jobs_proofs` | supervisor, connection, worker and processes of two machines implement the abstract promise of one execution | checked, safety and refinement proved |
| 7 | `DatabaseOwner`, `Transactions`, `MC_DatabaseOwner`, `DatabaseOwner_proofs` | the election of owners, their sessions and their clients implement the abstract promise of whole transactions | checked, safety and refinement proved |
| 8 | `Presence` | presence snapshots that wait in the transport; would feed the evidence of 2 | not modelled, see below |
| 9 | `Activation` | member slots, enrollment and the switch of roles | not modelled, see below |

Every safety property of the passing runs is proved; what is left to TLC is named
under "What is proved".

## Modules and code

Every machine is one value of `Replica` or `Machine`; an action is one
transaction of the code, because SQLite serialises writers and a process that
dies in the middle leaves nothing. Where the code has several transactions in
one function, the module has several actions.

### SyncExchange (`packages/hey-boss-sync/src/lib.rs`, `session.rs`)

`log[r]` is the delivery log, `live[r]` the facts whose payload is not pruned,
`receipt[r][p]` and `sent[r][p]` the tables of received and acknowledged
positions. A session has a phase per protocol step, and one cursor and one page in
each direction: the protocol is strictly request and response, so at most one
value is on the wire. `Put`, `Prune`, `Ingest`, `Acknowledge` are the functions of
the engine; `ClientHello` ... `ServerAcknowledge` are `connect_present` and
`serve_next`, cut wherever another connection can commit in between. `Drop` ends
both halves of a session at once; the server half that outlives its client is a
second session between the same replicas (the twin topology). Values that were
consumed are reset. The byte limit of a page is a nondeterministic length of at
least one. Restoring a journal from a backup is left out: it is the one thing that
makes the engine refuse a cursor.

`FactReplication` is the promise: a set of facts per replica and, per peer, what it
is known to hold. `Facts` in `SyncExchange` is the refinement mapping.

### Allocations (`src/issues/allocations.rs`, `worker_registry.rs`, `worker_store.rs`)

`db[n]` is one database: Lamport clock, reservation rows, observations, presence
pulses and winners. `proc[x]` is what the process of an attempt does. Renewal,
observation, heeding of pulses and election are functions from a database to the
next one, composed the way the statements of a transaction are. `Deliver` takes any
newer version of a row: facts of one row form a chain, and relays may deliver
them late or skip intermediate ones. `HearPresence` overtakes facts freely.

Ticks are replaced by the time that is left, and one tick is what a fact needs
for one traversal, so `Settle` and `Lease` are two traversals and
a multiple of it as in `Timing::from_exchange`. A behaviour chooses one `timing` from
`Timings` and keeps it, while the code recomputes it from measured exchanges.
`timing.kept` says that the fleet keeps to its times: facts take less than a
traversal, evidence is renewed before it runs out and carried on only while at least
a traversal of it is left, and nothing fails. The last two are promises of the
environment, which the several settling times of a lease are there for: evidence
that arrives with its last tick and overtakes the reservation it belongs to is
deducted to nothing before the reservation is seen, and the machine elects another
attempt. `TimelyExclusion` is about attempts reserved under these rules: two attempts that
were running when the role was enabled (`Legacy`) are both adopted as launched, and one that
is adopted here may be unknown where another is launched. Left out: the
`assignment_target` conjunct of `owns`, the claim-lock gate, retry holds and the
retirement of legacy deadlines (lines 214-241). Finishing an attempt does not
elect again, in the code or in the model, so a machine may try its next attempt
while a foreign launch is known; that launch is refused.

### DependencyGraph (`issues/blockers.rs`, `distributed/graph.rs`, `projection.rs`, `materialize.rs`)

`fields[n]` holds the winning lifecycle group of each task, `active[n]` and `closed[n]` the
blockers and the closed tasks in the issues table, `dirty[n]` the rows to be written.
`SetBlockers`, `Block`, `Close` and `Reopen` are whole transactions: the command updates the
row of its task, then `blockers::reconcile` goes over the project and updates every row
whose state no longer fits its blockers (`blockers.rs:677`), and the trigger records
each update. The usual edit (an unfinished blocker for an open task) is therefore two
facts, the second of which leaves the blockers alone, and they may be imported apart.
The state itself (open, blocked, closed) is derived from blockers and closed tasks, as
`State` says; only importing leaves rows whose state was derived on another peer, and
`reconcile_replication` derives it there again without recording it.
`Accepted` is the filter that keeps edges which do not close a cycle, in the order of the
code. The code folds it over a sorted list; here it is the one function that keeps an edge
exactly if the edges kept before it lead to no cycle, which is stated without recursion.
Each fact carries what its author had reduced, and is delivered after it: journals
are copied in order and relays pass them on in order. An import page is any number
of facts, of which `last` marks the end; `marks` are rows that become dirty because a
column outside the group, or an event, is new with the same fact.
`missed[n]` is a history variable: the rows whose accepted blockers were changed by a
fact that left the blockers of its own task alone, so that nothing marked them.
It is emptied as such rows are written for another reason. It takes no part in any guard.
Left out: claims, drafts, manual holds, the ready state, the subtask graph, deletion,
archives, rejected rows and notices.

### QueueOrder (`issues/ordering.rs`, `matching.rs`, `distributed/ordering.rs`)

`base[n]`, `rotations[n]` and `positions[n]` are the three tables of
`distributed/ordering.rs`, `queue[n]` the `sort_order` column. `Create`, `Move` and
`Place` (the move of matching tasks) change the column at once and record a
fact; `Import` maintains the positions incrementally, and `Ordered` computes them
from the whole set of facts. `Moved` applies a set of rotations newest last, as a
recursive function on sets. Left out: rotations in the earlier three-field format,
the first copy of a queue to a new member, and the limits of 64-bit positions.

### Journal (`fleet/native/distributed.rs`, `capture.rs`, `projection.rs`)

One task on machines whose application database and journal are separate files.
`outbox`, `exported`, `projected`, `clock`, `fields`, `dirty` and `row` are in the
application database, `journal` is the engine's log, and `putting` is what the
open export transaction has put there before its own commit. `Capture` is the trigger;
`Edit`, `Close`, `Reopen`, `SetBlockers` are the operations of the store that
change the two field groups (title, body and labels together; the lifecycle).
The export transaction takes the writer with its first checkpoint: a change
that commits before that invalidates its snapshot, and it starts again (`Capture`
resets `putting`). `Fail` ends it later. One process prepares at a time
(`distributed-sync.lock`), so import never runs inside an export. A page of imported
facts is a run of single imports: the row is written only at the end of the journal.
Deleting exported outbox rows is left out because nothing reads them.
The lifecycle has the states open and closed (blocked and ready behave as
open and closed do in `row`), and `waits` stands for its other columns.

### Jobs (`src/jobs/*`, `fleet/native/jobs.rs`, `job_script.rs`, `supervisor.rs`)

`run` and `owner` are the supervisor's tables of runs and of their owners with
generations; `local[n]` is the table of executions of a machine, `thread` the point
that the worker thread which holds the lock of a run has reached, `group` what
exists of its process group. One action is one transaction of a store or one
effect on processes. `Enqueue`, `Expand`, `ReconcileGroup`, `Assign`, `Revoke`
and `Stop` are the supervisor's scheduler and `stop_scheduled_job`. A connection is
modelled by its effects: `Dispatched` brings any dispatch that the owner table allows at
the moment, again and again, `ReportArrives` any report that `reports` would
send, with or without its acknowledgment coming back. `Recover`, `Release` and `Take`
read the execution before the lock is taken and with any generation it may have
had then, which is why they have a `gen` argument. `Launch`, `Intend`, `Prompt`,
`Conclude` are `run_session` between its commits; `Step` covers scripts as well,
whose start is their submission. A `Crash` ends the threads of a machine; its
processes may survive as `leader` or `orphans` of a group, which end when
they like.
`Refused` leaves out that a report must repeat the session id of the run and that a completion
needs one (`runner_store.rs:194-215`): `AgentSession::attach` fixes one id before the
first report that names it and a completion follows it, so these checks never fail.
Abstracted: `Intend` always leaves a report "running" (the code leaves it pending
until the session is known); times are replaced by one fact, whether the end in a
report lies before the creation of the run. Left out: definitions and their
revisions, the calendar, capacity, transfer of logs and results, resumed threads.

`SingleExecution` is the promise of `docs/scheduled-jobs.md`: a run is submitted at
most once, on one machine at a time, is over only when nothing of it runs,
succeeds only if it was submitted, and never begins while another occurrence is open.

### DatabaseOwner (`src/database/owner.rs`, `mod.rs`)

`files` are the inodes behind the two names in `/tmp`, `proc[p]` what a service has
open and how far it has come. `Open`, `Flock`, `Check` (twice, before and after the
writer is opened), `Examine`, `Unlink`, `Bind` and `Identify` are the steps of
`Owner::start` between which another service may act; `Displaced`, `DropListener`,
`DropWriter`, `Compare` and `Remove` are the end of `serve` and `Ownership::drop`, whose
comparison and removal are separate. A listener is dropped when all sessions have been
joined, and the writer after it (`owner.rs:384-386`), so in between ("closing") another
service may be elected and serve. The early return of `Owner::start` for a socket whose name was lost
drops the lock and the listener first and the writer last ("giving up"). `Crash` closes what a process had open and leaves its files;
`RemoveLock` and `RemoveSocket` are a cleaner of `/tmp`, at most once each. Inodes are used
again, lowest first.
`session[p][c]` is the owner's thread for a client, `conn[c]` the stream,
`client[c]` the `Transaction` or single statement. `Executed` is the `match` of
`session` in `owner.rs`; `Call` is `Remote::call` with its reply, `Break` without: the
stream fails before the command is executed, after it, or, for a COMMIT, so that it
is executed later. The 250 ms poll of the files is any delay; the 30 seconds
after which an idle transaction is rolled back are any delay too (`Expire`). A cleaner
takes the lock file only while an owner listens.
Left out: how clients start a service, pinned and read sessions, schema repair, the
order in which sessions wait for the lease, diagnostics and archives.

`Transactions` is the promise: a transaction takes effect as a whole or not
at all, once, never after its client was told that it failed; and again and again a
service accepts clients.

## Runs

| Run | Instance | Shows |
|---|---|---|
| `sync_twin` | 2 replicas, 2 facts, 2 sessions between the same replicas, pages of 1, 1 drop, one fact may be pruned; only one session is retried for ever | type, receipts cover prefixes, acknowledgments are never early, one delivery position per fact, no spurious refusal, tombstones stay, an empty page proves the log drained; both ends learn that nothing is left although another connection moves receipts |
| `sync_relay` | controller and 2 workers, 2 facts, 1 drop, fair sessions | everything reaches everybody through the relay, the exchange implements `FactReplication` |
| `alloc_safety` | 2 machines, 1 task, 1 attempt each; either 1 crash or reboot, exchanges of 0 or 2 ticks and untimed facts, or no failure, traversals and exchanges of 2 ticks and facts that take less than a traversal | pulses never disprove what they could not know, living attempts stay, only losers stop, launches are numbered after what is known, launched work fences others; on a fleet that keeps to its times two agents never run at once |
| `alloc_resolve` | one attempt already running when the role is enabled, untimed, fair | two running agents do not last |
| `deps_edits` | 2 peers, 3 tasks of which one is blocked, closed and reopened, 4 facts, 4 edits with cycles of two and three tasks | type; only overlooked rows differ from the filter, and without them the graph stays acyclic; edges are withheld for cycles only, edits win over what their author saw, proposals converge |
| `deps_cycle` | 2 peers, 3 tasks, 6 facts, edits of blockers alone | violated: see Findings |
| `queue_facts` | 2 peers, 3 tasks (1 from the start), 3 facts | positions equal the reference, own moves do not jump, queues converge |
| `journal_crash` | 2 peers, 2 texts, 3 changes, 1 change of blockers, 1 failed export, fair | own facts once and in order in the journal, own edits stay visible, all rows merge |
| `journal_completion` | the same without failures | violated: see Findings |
| `jobs_runs` | 2 machines; an occurrence with a part on one machine and a plain occurrence that may be handed over once; 1 crash, 1 stop at a time; fair | machines act only for runs they own, the owner's reports are never refused, stops end runs, and the job implements `SingleExecution` |
| `jobs_clock` | a plain occurrence, one machine with a clock behind the supervisor's | violated: see Findings |
| `owner_transactions` | 2 services, 2 lock inodes, 2 socket inodes, 1 crash or stop, each name removed once; 1 transaction of two statements and 1 single statement; fair | while one name stays no second owner is elected before the old sessions have ended, no statement twice, and `Transactions` is implemented, its liveness included |

Why the bounds suffice. The hazards of the exchange concern two connections and
one page boundary: two facts with pages of one give two boundaries, and a
second session gives every stale receipt. The reservation rules compare two
attempts; relayed presence needs a third machine and is covered by taking any
amount of time from a pulse. Cycles of two and three edges are
both possible with three tasks. Four facts are two ordinary edits, each with the fact of its
reconciled state, or up to four commands without one. `deps_cycle` needs six: two edits of a task
and one that would close a cycle, with their reconciled states.
Three queue facts allow a rotation to arrive before and after both a base
position and another rotation. In the journal, three facts give a concurrent
pair and a successor of either. `MaxSequence` bounds voluntary renewals of presence
only; renewals forced by an expiry are always possible. The kept timing of `alloc_safety` assumes
every fact takes strictly less than a traversal and evidence is renewed; with
exactly a whole traversal exclusion fails, which is why the assumption is strict: that boundary
is assumed away, not covered. Nor does any property depend on the hold for announced attempts whose
reservation has not arrived (`PendingReservations`): without it the runs still pass, since the
wait of two traversals covers the same delays when times are kept, and nothing excludes two
agents when they are not. There the lease of
8 ticks outlasts the settling of both attempts without a renewal, so that no pulse is
numbered late enough to judge a reservation; that such pulses keep the promise
too is what the theorem about `TimelyExclusion` shows.

For jobs, one handover (`MaxGeneration` 2) gives every stale generation, and one
occurrence after another is enough for overlap; a crash leaves survivors of
any run that was started. `MaxStops` bounds the stop requests that are open at once, not
their number. Two services are a draining owner and its successor; a third could
only repeat what the second does. `MaxExits` is 1 because two crashes (checked
once, without an error) double the time of the run and meet no new kind of
state: files of a dead owner appear with one. Two inodes of each kind let a service hold
one that lost its name and let the inode of a dead owner be used again.

Deadlock is checked in `sync_twin`, `sync_relay` and `owner_transactions`, where sessions
and services go on for ever, and not in the others: their models have final states in
which the bounded number of changes is used up and everything has been delivered.

Fairness. `SyncExchange`: each session keeps stepping, because both loops of
`transport.rs` run until cancelled and reconnect after errors; the number of lost
connections is bounded. `sync_twin` assumes less: one connection is retried, and the
one it replaces may stop anywhere (`TakeoverSpec`). `Allocations`: machines keep maintaining leases, facts keep
travelling, and living workers keep polling `worker_cancelled`; nothing
assumes that an agent finishes by itself. `Journal`: `prepare` runs at least every
two seconds and continues from its committed cursors, and exchanges go on.
`Jobs`: dispatches, reports, the
worker's reconciliation and threads go on (`System`), because connections are made
again and both loops tick; a submitted agent or script need not end unless it
is stopped or revoked, and processes that survive a kill may stay for ever.
`DatabaseOwner`: the thread of every service goes on, and some session ends, expires or
commits late when it can; no client is fair.
Users, crashes, launches and removed files are never fair.

## What is proved

TLAPS checks the following for any number of replicas, facts, sessions, machines,
attempts and tasks, any page size and any times.

`SyncExchange_proofs`: `TypeCorrect`, `ReceiptsCoverPrefixes`,
`AcknowledgmentsAreReceived`, `NeverRefused`, `FactsAreDeliveredOnce` (`DeliveredOnce`),
`TombstonesArePermanent` (`TombstoneIsPermanent`), `EmptyPagesProveDrained`
(`EmptyPageProvesDrained`) and `KeepsPromise` (`ImplementsFactReplication`, the refinement of
`FactReplication`), from the assumptions about the
constants in `SyncExchange` (ends of a session are replicas and differ, the page
size is positive). The invariants are not inductive alone: a receipt is raised
from a page captured several steps earlier, and a position is acknowledged from
a cursor on the wire. `IInv` therefore adds `PagesMatch` (a page on the wire agrees with
the sender's log and starts within the receiver's receipt) and `CursorsMatch` (a
cursor on the wire is a receipt that was true when read, and receipts only
grow). The proof has a lemma per action; `Grows` summarises what every step does to
logs and receipts. That a log repeats nothing is proved on top: a page is a piece of a log
without repetitions, and ingestion appends what the receiver lacks. `JournalStep` lists
what any step may do to logs and payloads, which is all that the refinement and the
action properties need.

`Allocations_proofs`: `TypeCorrect`, `OmissionsProveStops` (`OmissionProvesStopped`),
`LaunchesAreFenced` (`LaunchFence`), `LosersOnlyStop` (`OnlyLosersStop`),
`LaunchesFollow` (`LaunchesFollowKnowledge`), `LivingAttemptsAreKept`
(`LivingAttemptKept`) and `ReservationsExclude` (`TimelyExclusion`), from the three
assumptions of `Allocations` about owners, ranks and bounds. A step of this module is a transaction of several
statements, so the invariant `Good` is stated of any databases and runs, and one lemma
(`RefreshKeeps`) carries it over renewal, observation and election wherever they occur.
`OmissionProvesStopped` needs that a row is an earlier version of its owner's (`Copied`),
that no pulse is numbered after the last one its machine sent (`Numbered`), and that an
omission is judged by the owner's row (`Judged`). Numbers of launches need that a
clock has caught up with what its machine knows (`Clocked`); that renewing adopts only
attempts which predate reservations needs `Unborn`, `Adoptable` and `Truthful`. `Fenced`
says that a running attempt has its task or lost it to a launch that precedes.
The election is a CHOOSE: `SomeoneLeads` shows from the least number and the least rank
that a candidate precedes all others, and `Decided` is what every transaction that ends in
a reconciliation leaves behind (`NextOutcome`).

The last two theorems need a second invariant, `SInv`, on top of the first. `Steady` says that
a fresh living attempt has its row (`Born`), a known release follows an end (`Ended`),
only known rows are observed or win (`Blank`, `Elected`) and a machine picks no task
up twice (`Solo`). `Sustained` is what `LivingAttemptKept` rests on: no pulse of a machine
remains to be heeded for a living attempt of its own, and its evidence may run out only
while a renewal is due, so that a transaction which finds it expired renews first
(`ReconciledSustains`). The theorem then follows from `Attentive`: a transaction ends with
every living attempt of its machine standing for election.
In a fleet that keeps its times, `AllFollowed` adds the same for attempts of
other machines, `Spread` that a machine which does not know a reservation has been behind
for all the time that its owner has waited, and `AllWarned` that a launched attempt keeps every
rival from being launched: the machine of the rival knows the launch, knows that the
launched one was reserved before, or will learn of it before the rival has settled.
`LaunchIsTimely` is the core: a winner whose wait is over knows every rival
that could have been launched, so it is the earliest (`LeaderIsEarliest`) and alone
(`LeaderIsAlone`), and every later rival has more than a traversal to wait. A
transaction is a relation here (`Reconciled`: renew or not, then `Watches` of every
observation), which one lemma (`TransactionSound`) carries from `Ready` to `Sound`; what a step
does before its transaction is all that the lemma of that step has to look at.

`DependencyFilter_proofs` is about finite sets of edges alone. Its one fact about paths is
`EdgesOfOne`: an acyclic graph stays acyclic when one issue gets edges to issues
from which it could not be reached. The filter exists and is unique because partial
filters over beginnings of the order agree, and a largest one covers all edges; it is acyclic
because a first edge that closed a cycle would not have been kept.

`DependencyGraph_proofs`: `Inductive`, `EditsWin`, `ProposalsAgree`, `AcceptedIsAcyclic`,
`EditsNeverCycle` (`EditsStayAcyclic`), `DependentsFollow` (`EditsReachDependents`),
`WithheldForCycles` (`WithheldOnlyForCycles`) and `TypeCorrect`, from
`DependencyAssumption`. The argument for convergence: origins and clocks identify
facts (`StampsIdentify`), a group is blank or one of the reduced facts
(`GroupsAreReduced`), and no reduced fact is newer (`GroupsAreNewest`); two peers
that reduced the same facts hold the maximum of the same set. `KnownExist` and
`Shape` bound the cursors; `NextEditWins` is inductive with them and makes stamps
of a peer increase. For rows, `PendingMatter` says that an own fact which waits
will win or its row is already due, and `Shown` that a row neither due, nor pending, nor
overlooked shows the filter. Facts of one transaction are reduced one by one, so this is
shown for every fact on its own: one that changes blockers marks every row it can
affect, and one that leaves them alone and wins adds what it changes to `missed`, which
is the only way a row is left behind. A graph without overlooked rows is therefore the filtered one, up to rows
that wait for own edits, and those were validated when they were made.
Types need that clocks stay below the number of facts (`Bounded`).

`Journal_proofs`: `Inductive`, `ExportsOnce` (`JournaledOnce`), `OwnEditsAreShown`
(`OwnEditsStay`), `RestsMerged` and `TypeCorrect`, from
`JournalAssumption`. After a failed export the journal is ahead of the cursor,
and the next export puts the same facts again; own facts may also come back
from peers. `JournaledOnce` is inductive only with: own facts enter the
journal without gaps (`NoGaps`), so a fact that is not there yet is newer than all own
facts that are; every journaled fact was captured by its origin (`Captured`), under a
clock no other own fact has (`Stamps`); and peers hold only facts that their
origin has published (`Published`), so a received fact is never an own one.
For own edits, the tracked values are the newest of the reduced facts (`FieldsNewest`),
an own capture is newer than all of them (`Ahead`), and the row shows the newest of both
(`CleanNewest`, `RowsShow`); since stamps identify facts (`StampsIdentify`) that is the
fact which `OwnEditsStay` chooses.
`RestsMerged` is what `EventuallyMerged` says without its liveness: a peer that has exported
and reduced everything and has no row to write shows exactly what the facts of its journal
make of the task, its state included, so peers at rest with the same facts agree. `CleanMerged`
is what makes it inductive: a clean row that is not the merged one waits for an own change
that is newer than all that was reduced. At rest every own change is in the journal and
reduced (`OwnAreMerged`), so there is none.

`QueueOrder_proofs`: `PositionsFollow` (`PositionsFollowFacts`), `OwnChangesAreKept`
(`OwnChangesStay`), `OrdersAgree` (`OrdersConverge`) and `TypeCorrect`, from
`QueueAssumption`. Facts are finite chains under (clock, origin) (`Chain`), because an
author never uses a clock twice. On a chain `Moved` has exactly one solution: solutions
over parts of it agree, and a smallest part without one could be given one. Hence
a rotation newer than all others is one more step (`SeededStep`), which is what
`Shifted` does, and any other is taken up by recomputing. `TablesFollow` says that base,
rotations and positions are what the reduced facts say. The queue needs two more facts:
what a peer captures is newer than all it shows (`CapturedNewer`), so changing the rows
at once is the same as appending to the facts; and where nothing is due, the tables already
were what they are when the queue was written (`CleanFollows`).

`Jobs_proofs`: `TypeCorrect`, `Custody` (`CustodyFenced`), `Acceptable`
(`ReportsAcceptable`, when no clock is behind), `SubmittedOnce` and `KeepsPromise`
(`ImplementsSingleExecution`: this refinement is proved, not only checked), from
`JobsAssumption`. Custody alone is not inductive, because what a machine has in hands
changes by rows that were read earlier and dispatches that are repeated. `IInv` adds: what
exists of occurrences and parts (`Occurrences`), generations of machines never
exceed the owner's (`Generations`), a process group or a thread belongs to a stored,
held execution (`Held`), a report that says started is known to the owner
(`Starts`, `StartedByOwner`), and an unsubmitted run has no intent anywhere
(`Submissions`). Each has a lemma for supervisor steps and one for steps of a
machine (`MoveKeeps`, `EndKeeps`), which say once what may change.

`DatabaseOwner_proofs`: `TakesTurns` (`WritersTakeTurns`), `TypeCorrect` (`TypeOK`, no
statement twice) and `KeepsPromise` (the safety part of `ImplementsTransactions`), from
`OwnerAssumption`. For the election, `IInv` says that a service has open what fits its
place (`Files`), that a lock file is locked by one service (`LocksExclude`), that
all have the same lock file until its name is removed (`NamedLock`), and that an owner
whose lock file lost its name still has the socket's name and keeps all others before the
opening of the writer (`DisplacedOwner`). Since its listener is dropped after its sessions,
whoever is elected next finds at most a writer that is being closed. For clients, each is `Fresh`, `Within` its
transaction or `Ended`, with exactly the writes in the session of its stream that its next
command implies, and a COMMIT that is executed late is the only one and its client
knows of no outcome (`Late`). `Execution` says once what a command does in each
of these stages.

Only model-checked, because fairness is beyond the prover: `Converges` and
`EventuallyAcknowledged` of the exchange, `ConflictsResolve` of reservations,
`EventuallyMerged` of the journal, `StopEnds` of jobs, and of `ImplementsTransactions` that
the owner is available again and again.

## Findings

* `deps_cycle`: `reduce` marks other tasks of a project dirty only when a fact
  itself changes blockers (`projection.rs:277`), but a newer lifecycle change that
  leaves them alone replaces the whole group and with it a concurrent edit. The second
  fact of an ordinary edit is such a change: a peer merges the edit of another, sets the
  blockers of the same task, and the other's reconciled state, with the same clock and the later
  origin, wins with the older blockers. Edges
  withheld for the replaced edit are not restored on one peer, and with one more
  edit the active graph is cyclic. No claim and no closing is needed.
* `journal_completion`: the requirements of a completion are stamped on every
  change of the lifecycle group (`projection.rs:216`). Close a task, edit it, and set its
  blockers before the edit is projected: the blockers' fact carries the edited
  text, and no peer reopens the task, although nobody closed it on that text.
* `jobs_clock`: a machine that cannot start an execution stamps its end with its own clock
  (`jobs.rs:176`), and the supervisor refuses an end before the creation of the run
  (`runner_store.rs:216`). With a clock behind by more than the age of the run the report is
  refused with every heartbeat, and the run stays pending and blocks its job.

Observations that no run states:

* Tasks created concurrently share a position and are told apart by number. A move
  whose target equals the old position is dropped (`store.rs:2431`), so "move to the
  end" can do nothing.
* If both names of an owner are removed, a second owner may open the writer while the
  first drains; SQLite's own lock still keeps their transactions apart.
  `WritersTakeTurns` therefore asks for one name to stay.
* `Ownership::drop` compares the name of its socket with the identity it remembers and then
  removes the name (`owner.rs:127`). If the lock file lost its name while the owner drained,
  a successor may replace the stale socket in between and lose its own name, which the
  comment above these lines excludes. The successor notices within its poll, drains and is
  replaced, so `Transactions` still holds. The model has these steps (`Compare`, `Remove`).
* While an owner closes its writer after the listener, a successor may already write
  (`owner.rs:384-386`, with the lock file's name removed). The old connection has no
  transaction open by then, so `WritersTakeTurns` allows it. What `serve` claims is that
  no second writer opens while old sessions are committing, and that is what is checked.
* If the lock file is removed during an election and a service then crashes, an owner
  may take the identity of a stale socket for its own (`owner.rs:240`) and stay
  unreachable. `RemoveLock` leaves this out by asking for an owner that listens.

## Not modelled, and why

`Presence` and `Activation` of the plan are not modelled. A presence snapshot is aged by
the time that it waits in the transport (`transport.rs:101`) and by the exchange;
`Allocations` has the exchange and takes the waiting as part of it. Activation runs
once on a member, under the lock of the application, and hands over to the capture that `Journal`
models. The legacy fleet is the protocol that distributed members replace. Archives of
requirements are content-addressed copies next to rows that `Journal` models.
The other components listed as `not_modelled` in `PROJECT.json` are presentation (web,
terminal, desktop), file storage (pages, attachments, artifacts), adapters around external
programs (agent runtimes, GitHub), installation, and independent packages without shared
state. Within the
modelled components the sections above name what is left out. Hazards that no
property covers yet carry a note in `PROJECT.json`.
