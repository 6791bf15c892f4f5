-------------------------------- MODULE Jobs --------------------------------
(***************************************************************************)
(* Executions of one scheduled job (src/jobs, src/fleet/native/jobs.rs).   *)
(* The supervisor opens occurrences, divides those that run on every       *)
(* machine, and assigns each execution to a machine under a generation.    *)
(* Dispatches and reports cross a connection that breaks and repeats them. *)
(* On the machine, whoever holds the lock of a run may act on it: the      *)
(* worker starts an agent or a script, and after the worker died, it or a  *)
(* service of the machine concludes what was left.  Custody is recorded    *)
(* before a process starts and the intent before instructions are sent, so *)
(* an interrupted run is ended and never started again.                    *)
(***************************************************************************)
EXTENDS Integers, FiniteSets

CONSTANTS
  Node,           \* machines
  Run,            \* executions, each used once
  Parent,         \* the occurrence of a machine's execution, else the run itself
  Target,         \* the only machine an execution may run on, or None
  Slow,           \* machines whose clock is behind the supervisor's
  MaxGeneration,  \* bound: generations of each run
  MaxCrashes,     \* bound: ends of worker processes
  MaxStops,       \* bound: executions that may be stopped before the next request
  None

ASSUME JobsAssumption ==
  /\ Parent \in [Run -> Run]
  /\ \A r \in Run : Parent[Parent[r]] = Parent[r]
  /\ Target \in [Run -> Node \cup {None}]
  /\ None \notin Node
  /\ Slow \subseteq Node
  /\ MaxGeneration \in [Run -> Nat \ {0}]
  /\ MaxCrashes \in Nat /\ MaxStops \in Nat
  /\ IsFiniteSet(Run)

VARIABLES
  run,      \* scheduled_job_runs: state and whether started_at is set
  owner,    \* scheduled_job_owners
  local,    \* local_job_executions of each machine
  thread,   \* how far the worker thread that holds the run's lock has come
  group,    \* the process group of a run on a machine
  prompts,  \* how often the instructions of a run were submitted
  crashes

supervisor == <<run, owner>>
machines == <<local, thread, group, prompts, crashes>>
vars == <<run, owner, local, thread, group, prompts, crashes>>

----------------------------------------------------------------------------
Finished == {"succeeded", "failed", "cancelled"}
RunState == {"none", "pending", "running", "skipped"} \cup Finished

\* "early": finished_at lies before the supervisor created the run
Report == [state: {"pending", "running", "released"} \cup Finished,
           started: BOOLEAN, early: BOOLEAN]
Pending == [state |-> "pending", started |-> FALSE, early |-> FALSE]

\* Generation 0: the machine never received a dispatch for the run.
Execution == [gen: Nat, revoke: BOOLEAN, report: Report,
              held: BOOLEAN,     \* owner_pid is set
              acked: BOOLEAN]
NoExecution == [gen |-> 0, revoke |-> FALSE, report |-> Pending,
                held |-> FALSE, acked |-> TRUE]

Parts(r) == {c \in Run : c # r /\ Parent[c] = r}
FansOut(r) == Parts(r) # {}
Active(r) == run[r].state \in {"pending", "running"}
Unfinished(e) == e.gen > 0 /\ e.report.state \in {"pending", "running"}

Init ==
  /\ run = [r \in Run |-> [state |-> "none", started |-> FALSE]]
  /\ owner = [r \in Run |-> [node |-> None, gen |-> 0,
                             revoking |-> FALSE, stop |-> FALSE]]
  /\ local = [n \in Node |-> [r \in Run |-> NoExecution]]
  /\ thread = [n \in Node |-> [r \in Run |-> "idle"]]
  /\ group = [n \in Node |-> [r \in Run |-> "none"]]
  /\ prompts = [r \in Run |-> 0]
  /\ crashes = 0

----------------------------------------------------------------------------
(* The supervisor.  Every action is one transaction of its store. *)

\* enqueue_job: while any run of the job is active, the occurrence is skipped.
\* Deviation: only running executions count as overlap.
Enqueue_OverPending(r) ==
  /\ run[r].state = "none" /\ Parent[r] = r
  /\ LET overlap == \E q \in Run : run[q].state = "running"
     IN /\ run' = [run EXCEPT ![r].state = IF overlap THEN "skipped" ELSE "pending"]
        /\ owner' = [owner EXCEPT ![r].gen = IF overlap THEN 0 ELSE 1]
  /\ UNCHANGED machines
Enqueue(r) ==
  /\ run[r].state = "none" /\ Parent[r] = r
  /\ LET overlap == \E q \in Run : Active(q)
     IN /\ run' = [run EXCEPT ![r].state = IF overlap THEN "skipped" ELSE "pending"]
        /\ owner' = [owner EXCEPT ![r].gen = IF overlap THEN 0 ELSE 1]
  /\ UNCHANGED machines

\* expand_job_machines publishes the executions of all machines together.
Expand(r) ==
  /\ run[r].state = "pending" /\ FansOut(r)
  /\ \A c \in Parts(r) : run[c].state = "none"
  /\ ~owner[r].stop
  /\ run' = [q \in Run |-> IF q \in Parts(r) THEN [run[q] EXCEPT !.state = "pending"]
                           ELSE run[q]]
  /\ owner' = [q \in Run |-> IF q \in Parts(r) THEN [owner[q] EXCEPT !.gen = 1]
                             ELSE owner[q]]
  /\ UNCHANGED machines

\* reconcile_job_groups for one occurrence.
GroupOutcome(r) ==
  IF owner[r].stop THEN "cancelled"
  ELSE IF \E c \in Parts(r) : run[c].state = "failed" THEN "failed"
  ELSE IF \E c \in Parts(r) : run[c].state = "cancelled" THEN "cancelled"
  ELSE "succeeded"
ReconcileGroup(r) ==
  /\ Active(r) /\ FansOut(r)
  /\ \A c \in Parts(r) : run[c].state # "none"
  /\ LET started == \E c \in Parts(r) : run[c].started
         state == IF \A c \in Parts(r) : ~Active(c) THEN GroupOutcome(r)
                  ELSE IF started THEN "running" ELSE "pending"
     IN run' = [run EXCEPT ![r] = [state |-> state, started |-> started]]
  /\ UNCHANGED <<owner, machines>>

\* assign_job, with the machines of schedule that may take the run.
Assign(r, n) ==
  /\ run[r].state = "pending" /\ ~FansOut(r)
  /\ owner[r].node = None /\ ~owner[r].stop
  /\ Target[r] \in {None, n}
  /\ owner' = [owner EXCEPT ![r].node = n]
  /\ UNCHANGED <<run, machines>>

\* schedule takes a run back from a machine that no longer has an eligible
\* worker, as long as its start has not been reported.
Revoke(r) ==
  /\ Active(r) /\ owner[r].node # None
  /\ ~owner[r].revoking /\ ~run[r].started
  /\ owner[r].gen < MaxGeneration[r]
  /\ owner' = [owner EXCEPT ![r].revoking = TRUE]
  /\ UNCHANGED <<run, machines>>

\* stop_scheduled_job, for an occurrence with its parts or for one execution.
Stop(r) ==
  /\ Active(r) /\ ~owner[r].stop
  /\ Cardinality({q \in Run : owner[q].stop}) < MaxStops
  /\ LET stopped == {q \in {r} \cup Parts(r) : Active(q)}
         parts(q) == {c \in Parts(q) : run[c].state # "none"}
     IN /\ owner' = [q \in Run |-> IF q \in stopped
                       THEN [owner[q] EXCEPT !.revoking = TRUE, !.stop = TRUE]
                       ELSE owner[q]]
        /\ run' = [q \in Run |->
                     IF q \in stopped /\ owner[q].node = None /\ parts(q) = {}
                     THEN [run[q] EXCEPT !.state = "cancelled"] ELSE run[q]]
  /\ UNCHANGED machines

\* The checks of accept_job_report that close the connection on failure.
Refused(r, report) ==
  \/ report.state = "released"
     /\ (~owner[r].revoking \/ report.started \/ run[r].started)
  \/ report.state \in {"running", "succeeded"} /\ ~report.started
  \/ report.early

\* A terminal or running report of the owner is entered into the run.
\* Deviation: a stopped run takes the state of the last report.
Accepted_Verbatim(r, report) ==
  IF report.state = "released" /\ ~owner[r].stop
  THEN /\ owner' = [owner EXCEPT ![r].node = None, ![r].gen = @ + 1,
                                 ![r].revoking = FALSE]
       /\ UNCHANGED run
  ELSE /\ run' = [run EXCEPT ![r].started = @ \/ report.started,
                             ![r].state = report.state]
       /\ UNCHANGED owner
\* Deviation: a stopped run that released its owner is assigned again.
Accepted_Reassigns(r, report) ==
  IF report.state = "released"
  THEN /\ owner' = [owner EXCEPT ![r].node = None, ![r].gen = @ + 1,
                                 ![r].revoking = FALSE]
       /\ UNCHANGED run
  ELSE /\ run' = [run EXCEPT
            ![r].started = @ \/ report.started,
            ![r].state = IF report.state = "running" THEN "running"
                         ELSE IF owner[r].stop THEN "cancelled"
                         ELSE report.state]
       /\ UNCHANGED owner
Accepted(r, report) ==
  IF report.state = "released" /\ ~owner[r].stop
  THEN /\ owner' = [owner EXCEPT ![r].node = None, ![r].gen = @ + 1,
                                 ![r].revoking = FALSE]
       /\ UNCHANGED run
  ELSE /\ run' = [run EXCEPT
            ![r].started = @ \/ report.started,
            ![r].state = IF report.state = "running" THEN "running"
                         ELSE IF owner[r].stop THEN "cancelled"
                         ELSE report.state]
       /\ UNCHANGED owner

----------------------------------------------------------------------------
(* The machine. *)

Received(gen, revoke) ==
  [gen |-> gen, revoke |-> revoke, report |-> Pending, held |-> FALSE, acked |-> FALSE]

\* receive: a dispatch never goes back to an older generation or takes a
\* revocation back, and a newer one needs the release of the older one.
Receive(n, r, gen, revoke) ==
  LET e == local[n][r]
  IN /\ \/ /\ gen = e.gen /\ revoke /\ ~e.revoke
           /\ local' = [local EXCEPT ![n][r].revoke = TRUE]
        \/ /\ gen > e.gen
           /\ e.gen = 0 \/ e.report.state = "released"
           /\ local' = [local EXCEPT ![n][r] = Received(gen, revoke)]
     /\ UNCHANGED <<supervisor, thread, group, prompts, crashes>>

\* revoked: is the dispatch with this generation withdrawn or replaced?
Revoked(n, r, gen) == local[n][r].gen # gen \/ local[n][r].revoke

\* save and finish: the report is stored, unacknowledged, and stamped by the
\* clock of the machine, though never before the start of the run.
Reported(n, r, state) ==
  local' = [local EXCEPT
    ![n][r].report.state = state,
    ![n][r].report.early = n \in Slow /\ ~local[n][r].report.started,
    ![n][r].acked = FALSE]

\* execute under the lock of the run.  gen is the generation of the row that the
\* caller read before it took the lock; the query of custody fails when the
\* row has been replaced meanwhile.
\* Deviation: custody is read whatever the generation.
Locked_AnyGeneration(n, r, gen) ==
  /\ thread[n][r] = "idle" /\ Unfinished(local[n][r])
  /\ gen \in 1 .. local[n][r].gen
Locked(n, r, gen) ==
  /\ thread[n][r] = "idle" /\ Unfinished(local[n][r])
  /\ gen = local[n][r].gen

\* Custody of a process that is gone: its process group is killed if the
\* leader lives; with survivors of a dead leader the run is kept as it is.
\* Deviation: survivors are not waited for.
Recover_IgnoresSurvivors(n, r, gen) ==
  /\ Locked(n, r, gen) /\ local[n][r].held
  /\ group' = [group EXCEPT ![n][r] = IF @ = "leader" THEN "none" ELSE @]
  /\ Reported(n, r, IF Revoked(n, r, gen) THEN "cancelled" ELSE "failed")
  /\ UNCHANGED <<supervisor, thread, prompts, crashes>>
Recover(n, r, gen) ==
  /\ Locked(n, r, gen) /\ local[n][r].held
  /\ group[n][r] # "orphans"
  /\ group' = [group EXCEPT ![n][r] = "none"]
  /\ Reported(n, r, IF Revoked(n, r, gen) THEN "cancelled" ELSE "failed")
  /\ UNCHANGED <<supervisor, thread, prompts, crashes>>

Release(n, r, gen) ==
  /\ Locked(n, r, gen) /\ ~local[n][r].held
  /\ Revoked(n, r, gen)
  /\ Reported(n, r, "released")
  /\ UNCHANGED <<supervisor, thread, group, prompts, crashes>>

Take(n, r, gen) ==
  /\ Locked(n, r, gen) /\ ~local[n][r].held
  /\ ~Revoked(n, r, gen)
  /\ local' = [local EXCEPT ![n][r].held = TRUE]
  /\ thread' = [thread EXCEPT ![n][r] = "owned"]
  /\ UNCHANGED <<supervisor, group, prompts, crashes>>

\* run_session.  The process waits at a gate until its identity is recorded.
Launch(n, r) ==
  /\ thread[n][r] = "owned"
  /\ thread' = [thread EXCEPT ![n][r] = "launched"]
  /\ group' = [group EXCEPT ![n][r] = "leader"]
  /\ UNCHANGED <<supervisor, local, prompts, crashes>>

\* A revocation or the end of the worker found before the submission.
StopUnsubmitted(n, r) ==
  /\ thread[n][r] = "launched"
  /\ group' = [group EXCEPT ![n][r] = "none"]
  /\ Reported(n, r, IF local[n][r].revoke THEN "released" ELSE "cancelled")
  /\ thread' = [thread EXCEPT ![n][r] = "idle"]
  /\ UNCHANGED <<supervisor, prompts, crashes>>

\* The intent is stored before the instructions are sent.
Intend(n, r) ==
  /\ thread[n][r] = "launched" /\ ~local[n][r].revoke
  /\ thread' = [thread EXCEPT ![n][r] = "intent"]
  /\ local' = [local EXCEPT ![n][r].report.state = "running",
                            ![n][r].report.started = TRUE,
                            ![n][r].acked = FALSE]
  /\ UNCHANGED <<supervisor, group, prompts, crashes>>

Prompt(n, r) ==
  /\ thread[n][r] = "intent"
  /\ thread' = [thread EXCEPT ![n][r] = "prompted"]
  /\ prompts' = [prompts EXCEPT ![r] = @ + 1]
  /\ UNCHANGED <<supervisor, local, group, crashes>>

\* The turn ends, or a revocation or the end of the worker ends it; the report
\* follows when the process group is empty.
Conclude(n, r) ==
  /\ thread[n][r] = "prompted"
  /\ group' = [group EXCEPT ![n][r] = "none"]
  /\ \E state \in Finished : Reported(n, r, state)
  /\ thread' = [thread EXCEPT ![n][r] = "idle"]
  /\ UNCHANGED <<supervisor, prompts, crashes>>

\* Any error of run_session: before the launch there is nothing to stop.
Fail(n, r) ==
  /\ thread[n][r] # "idle"
  /\ group[n][r] # "orphans"
  /\ group' = [group EXCEPT ![n][r] = "none"]
  /\ Reported(n, r, IF local[n][r].revoke THEN "cancelled" ELSE "failed")
  /\ thread' = [thread EXCEPT ![n][r] = "idle"]
  /\ UNCHANGED <<supervisor, prompts, crashes>>

\* The process group outlives the attempts to stop it: custody stays.
GiveUp(n, r) ==
  /\ thread[n][r] \in {"launched", "intent", "prompted"}
  /\ group[n][r] # "none"
  /\ group' = [group EXCEPT ![n][r] = "orphans"]
  /\ thread' = [thread EXCEPT ![n][r] = "idle"]
  /\ UNCHANGED <<supervisor, local, prompts, crashes>>

\* The worker process dies; the agents it launched may live on.
Crash(n) ==
  /\ crashes < MaxCrashes
  /\ \E r \in Run : thread[n][r] # "idle"
  /\ crashes' = crashes + 1
  /\ thread' = [thread EXCEPT ![n] = [r \in Run |-> "idle"]]
  /\ UNCHANGED <<supervisor, local, group, prompts>>

\* The leader of a process group ends by itself, with or without its children.
LeaderExits(n, r) ==
  /\ group[n][r] = "leader"
  /\ \E left \in {"none", "orphans"} : group' = [group EXCEPT ![n][r] = left]
  /\ UNCHANGED <<supervisor, local, thread, prompts, crashes>>

OrphansExit(n, r) ==
  /\ group[n][r] = "orphans"
  /\ group' = [group EXCEPT ![n][r] = "none"]
  /\ UNCHANGED <<supervisor, local, thread, prompts, crashes>>

\* acknowledge: only the very report that was accepted, and only a last one.
Acknowledged(n, r, gen, report) ==
  [local EXCEPT ![n][r].acked =
     @ \/ /\ gen = local[n][r].gen
          /\ report = local[n][r].report
          /\ ~Unfinished(local[n][r])]

----------------------------------------------------------------------------
(***************************************************************************)
(* The connection.  The two ends share nothing but messages in order, so a *)
(* message that is late may as well arrive when it is sent: what the other *)
(* end does meanwhile, it would do afterwards in the same way.  What a     *)
(* broken connection leaves are repetitions of older messages.             *)
(***************************************************************************)

\* job_dispatches of the supervisor, or one that the machine has had before.
MayArrive(n, r, gen, revoke) ==
  \/ /\ Active(r) /\ owner[r].node = n
     /\ gen = owner[r].gen /\ (revoke => owner[r].revoking)
  \/ gen < local[n][r].gen
  \/ gen = local[n][r].gen /\ ~revoke

\* Heartbeats carry every report that is not acknowledged; a pending one says
\* nothing new.  Repeated are the release of an older generation and the
\* start of a run that has ended since.
Reports(n, r) ==
  LET e == local[n][r]
      last == [gen |-> e.gen, report |-> e.report]
      start == [gen |-> e.gen, report |-> [Pending EXCEPT !.state = "running",
                                                          !.started = TRUE]]
      release(g) == [gen |-> g, report |-> [Pending EXCEPT !.state = "released"]]
  IN {m \in {last} : ~e.acked /\ e.report.state # "pending"}
     \cup {m \in {start} : e.report.started}
     \cup {release(g) : g \in 1 .. e.gen - 1}

Dispatched(n, r) ==
  \E gen \in 1 .. MaxGeneration[r], revoke \in BOOLEAN :
    MayArrive(n, r, gen, revoke) /\ Receive(n, r, gen, revoke)

\* accept_job_report fences by machine and generation; what is not fenced and
\* not refused is acknowledged, also when the run is over.  Acknowledgments may
\* be lost.
Fenced(n, r, gen) == owner[r].node # n \/ owner[r].gen # gen
AcceptReport(n, r, gen, report, delivered) ==
  LET refused == Fenced(n, r, gen) \/ (Active(r) /\ Refused(r, report))
  IN /\ ~refused
     /\ IF Active(r) THEN Accepted(r, report) ELSE UNCHANGED supervisor
     /\ local' = IF delivered THEN Acknowledged(n, r, gen, report) ELSE local
     /\ UNCHANGED <<thread, group, prompts, crashes>>

ReportArrives(n, r) ==
  \E m \in Reports(n, r), delivered \in BOOLEAN :
    AcceptReport(n, r, m.gen, m.report, delivered)

Step(n, r) ==
  \/ Launch(n, r) \/ StopUnsubmitted(n, r) \/ Intend(n, r) \/ Prompt(n, r)
  \/ Conclude(n, r) \/ Fail(n, r) \/ GiveUp(n, r)
Execute(n, r) ==
  \E gen \in 1 .. MaxGeneration[r] :
    Recover(n, r, gen) \/ Release(n, r, gen) \/ Take(n, r, gen)

Next ==
  \/ \E r \in Run : Enqueue(r) \/ Expand(r) \/ ReconcileGroup(r) \/ Revoke(r) \/ Stop(r)
  \/ \E r \in Run, n \in Node : Assign(r, n)
  \/ \E n \in Node : Crash(n)
  \/ \E n \in Node, r \in Run :
       \/ Dispatched(n, r) \/ ReportArrives(n, r)
       \/ Execute(n, r) \/ Step(n, r) \/ LeaderExits(n, r) \/ OrphansExit(n, r)

Spec == Init /\ [][Next]_vars

\* The supervisor and the machines keep exchanging dispatches and reports, the
\* scheduler and the workers keep ticking, and a thread that has not submitted or
\* finds its run revoked goes on.  Nothing makes an agent, or what survives a
\* killed process group, end by itself.
Progress(n, r) ==
  (thread[n][r] # "prompted" \/ local[n][r].revoke) /\ Step(n, r)
System ==
  \/ \E r \in Run : ReconcileGroup(r)
  \/ \E n \in Node, r \in Run :
       Dispatched(n, r) \/ ReportArrives(n, r) \/ Execute(n, r) \/ Progress(n, r)
FairSpec == Spec /\ WF_vars(System)

----------------------------------------------------------------------------
(* Properties. *)

\* Every variable has its type.
TypeOK ==
  /\ run \in [Run -> [state: RunState, started: BOOLEAN]]
  /\ owner \in [Run -> [node: Node \cup {None}, gen: Nat,
                        revoking: BOOLEAN, stop: BOOLEAN]]
  /\ local \in [Node -> [Run -> Execution]]
  /\ thread \in [Node -> [Run ->
                   {"idle", "owned", "launched", "intent", "prompted"}]]
  /\ group \in [Node -> [Run -> {"none", "leader", "orphans"}]]
  /\ prompts \in [Run -> Nat]
  /\ crashes \in 0 .. MaxCrashes

\* Whatever a machine still has in its hands, an unfinished execution, a
\* thread or a process group, belongs to an open run whose owner it is, under
\* the generation it was dispatched with.  The supervisor never waits for
\* machines to agree on that: revocation and release alone keep it.
CustodyFenced ==
  \A n \in Node, r \in Run :
    \/ Unfinished(local[n][r])
    \/ thread[n][r] # "idle"
    \/ group[n][r] # "none"
    => Active(r) /\ owner[r].node = n /\ owner[r].gen = local[n][r].gen

\* The supervisor never refuses the report of the run's owner: the report
\* would come back with every heartbeat and close the connection each time.
ReportsAcceptable ==
  \A n \in Node, r \in Run :
    LET e == local[n][r]
    IN /\ ~Fenced(n, r, e.gen) /\ Active(r)
       /\ e.report.state # "pending"
       => ~Refused(r, e.report)

\* Stop requests end their runs, however they race with an assignment, a
\* handover, a crash or the completion, unless processes survive every attempt
\* to kill them: again and again no request is outstanding.
StopEnds ==
  []<>(\A r \in Run :
         Active(r) /\ owner[r].stop =>
           \E n \in Node, q \in {r} \cup Parts(r) : group[n][q] = "orphans")

\* An execution that could not be started is entered as failed: the report of
\* its owner is not refused.
FailureIsRecorded ==
  \A n \in Node, r \in Run :
    LET e == local[n][r]
    IN /\ ~Fenced(n, r, e.gen) /\ Active(r)
       /\ e.report.state = "failed"
       => ~Refused(r, e.report)

\* Machines, generations and reports implement the promise of the documents:
\* one submission per run, one machine at a time, nothing running after the
\* end and no overlap.
Promise == INSTANCE SingleExecution WITH
  phase <- [r \in Run |->
              CASE run[r].state = "none" -> "absent"
                [] Active(r)             -> "open"
                [] OTHER                 -> run[r].state],
  home <- [r \in Run |-> {n \in Node : group[n][r] # "none"}],
  submitted <- prompts
ImplementsSingleExecution == Promise!Spec
=============================================================================
