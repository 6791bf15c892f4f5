----------------------------- MODULE Jobs_proofs -----------------------------
(***************************************************************************)
(* Custody of scheduled executions, for any number of machines, runs,      *)
(* generations and crashes: who holds a process owns the run, the owner's  *)
(* reports are acceptable, and the job keeps the promise of                *)
(* SingleExecution.                                                        *)
(***************************************************************************)
EXTENDS Jobs, TLAPS

\* The types, without the bounds of the model-checked instances.
Shape ==
  /\ run \in [Run -> [state: RunState, started: BOOLEAN]]
  /\ owner \in [Run -> [node: Node \cup {None}, gen: Nat,
                        revoking: BOOLEAN, stop: BOOLEAN]]
  /\ local \in [Node -> [Run -> Execution]]
  /\ thread \in [Node -> [Run ->
                   {"idle", "owned", "launched", "intent", "prompted"}]]
  /\ group \in [Node -> [Run -> {"none", "leader", "orphans"}]]
  /\ prompts \in [Run -> Nat]

\* Occurrences that are divided have no owner, and runs that do not exist yet
\* have no generation.
Occurrences ==
  \A r \in Run :
    /\ FansOut(r) => owner[r].node = None
    /\ run[r].state = "none" => owner[r].gen = 0
    /\ run[r].state \in {"none", "skipped"} => owner[r].node = None
    /\ run[r].state = "skipped" => Parent[r] = r

\* No machine is ahead of the supervisor, and it was told of a revocation only
\* when there is one.
Generations ==
  \A n \in Node, r \in Run :
    LET e == local[n][r]
    IN /\ e.gen <= owner[r].gen
       /\ e.revoke => e.gen > 0
       /\ e.revoke /\ e.gen = owner[r].gen => owner[r].revoking

\* Threads and processes belong to unfinished executions that are held.
HeldAt(n, r) ==
  /\ thread[n][r] # "idle" => Unfinished(local[n][r]) /\ local[n][r].held
  /\ group[n][r] # "none" => Unfinished(local[n][r]) /\ local[n][r].held
  /\ thread[n][r] = "owned" => group[n][r] = "none"
Held == \A n \in Node, r \in Run : HeldAt(n, r)

\* What a report says of the start is true, and only a clock that is behind puts
\* the end too early.
StartsAt(n, r) ==
  LET e == local[n][r]
  IN /\ ~e.held => ~e.report.started
     /\ e.report.state = "pending" => ~e.report.started
     /\ e.report.state \in {"running", "succeeded"} => e.report.started
     /\ e.report.state = "released" => e.revoke /\ ~e.report.started
     /\ thread[n][r] \in {"owned", "launched"} => ~e.report.started
     /\ thread[n][r] \in {"intent", "prompted"} => e.report.started
     /\ e.report.early => n \in Slow
Starts == \A n \in Node, r \in Run : StartsAt(n, r)

\* A run that was started, as the supervisor knows or because it was submitted,
\* was started by its owner under the present generation, which it keeps.
StartedByOwner ==
  \A r \in Run :
    (run[r].started /\ ~FansOut(r)) \/ prompts[r] > 0 =>
      /\ owner[r].node \in Node
      /\ local[owner[r].node][r].gen = owner[r].gen
      /\ local[owner[r].node][r].report.started

\* Instructions are submitted by the thread that recorded the intent, once.
SubmittedAt(n, r) ==
  /\ thread[n][r] = "intent" => prompts[r] = 0
  /\ thread[n][r] = "prompted" => prompts[r] = 1
  /\ local[n][r].report.state = "succeeded" => prompts[r] = 1
Submissions ==
  /\ \A r \in Run : prompts[r] <= 1
  /\ \A n \in Node, r \in Run : SubmittedAt(n, r)

IInv ==
  /\ Shape /\ CustodyFenced /\ Occurrences /\ Generations
  /\ Held /\ Starts /\ StartedByOwner /\ Submissions

-----------------------------------------------------------------------------
\* What the types say of one run and of one execution.
LEMMA Types ==
  ASSUME Shape, NEW r \in Run, NEW n \in Node
  PROVE  /\ run[r] \in [state: RunState, started: BOOLEAN]
         /\ owner[r] \in [node: Node \cup {None}, gen: Nat, revoking: BOOLEAN, stop: BOOLEAN]
         /\ local[n] \in [Run -> Execution] /\ local[n][r] \in Execution
         /\ local[n][r].report \in Report
         /\ local[n][r].gen \in Nat /\ owner[r].gen \in Nat /\ prompts[r] \in Nat
         /\ thread[n][r] \in {"idle", "owned", "launched", "intent", "prompted"}
         /\ group[n][r] \in {"none", "leader", "orphans"}
BY DEF Shape, Execution

\* A table of the machines keeps its type when one entry is replaced, and the
\* other entries stay.
LEMMA Entry ==
  ASSUME NEW S, NEW f \in [Node -> [Run -> S]], NEW n \in Node, NEW r \in Run, NEW e \in S,
         NEW g, g = [f EXCEPT ![n][r] = e]
  PROVE  /\ g \in [Node -> [Run -> S]] /\ g[n][r] = e
         /\ \A m \in Node, q \in Run : m # n \/ q # r => g[m][q] = f[m][q]
OBVIOUS

\* A machine moves one execution on: which one, what it keeps and what else
\* stays as it is.
Moves(n, r) ==
  /\ UNCHANGED <<run, owner, prompts>>
  /\ \A m \in Node, q \in Run : m # n \/ q # r =>
       /\ local'[m][q] = local[m][q] /\ thread'[m][q] = thread[m][q]
       /\ group'[m][q] = group[m][q]
  /\ local'[n][r].gen = local[n][r].gen
  /\ local'[n][r].revoke = local[n][r].revoke
  /\ local[n][r].report.started => local'[n][r].report.started

\* Such a move keeps the invariant when the execution was unfinished and its
\* entry is sound again.
LEMMA MoveKeeps ==
  ASSUME IInv, NEW n \in Node, NEW r \in Run, Moves(n, r), Shape',
         Unfinished(local[n][r]),
         HeldAt(n, r)', StartsAt(n, r)', SubmittedAt(n, r)'
  PROVE  IInv'
<1>1. CustodyFenced'
  BY DEF IInv, Moves, CustodyFenced, HeldAt, Unfinished, Active
<1>2. Occurrences'
  BY DEF IInv, Moves, Occurrences, FansOut, Parts
<1>3. Generations'
  BY DEF IInv, Moves, Generations
<1>4. Held'
  BY DEF IInv, Moves, Held, HeldAt, Unfinished
<1>5. Starts'
  BY DEF IInv, Moves, Starts, StartsAt
<1>6. StartedByOwner'
  <2> SUFFICES ASSUME NEW q \in Run, (run[q].started /\ ~FansOut(q)) \/ prompts[q] > 0
               PROVE  /\ owner[q].node \in Node
                      /\ local'[owner[q].node][q].gen = owner[q].gen
                      /\ local'[owner[q].node][q].report.started
    BY DEF Moves, StartedByOwner, FansOut, Parts
  <2>1. /\ owner[q].node \in Node
        /\ local[owner[q].node][q].gen = owner[q].gen
        /\ local[owner[q].node][q].report.started
    BY DEF IInv, StartedByOwner
  <2> QED BY <2>1 DEF Moves
<1>7. Submissions'
  BY DEF IInv, Moves, Submissions, SubmittedAt
<1> QED BY <1>1, <1>2, <1>3, <1>4, <1>5, <1>6, <1>7 DEF IInv

\* A stored report replaces the state of the old one, and keeps the start.
LEMMA StoredReport ==
  ASSUME Shape, NEW n \in Node, NEW r \in Run,
         NEW state \in {"released"} \cup Finished, Reported(n, r, state)
  PROVE  /\ local' \in [Node -> [Run -> Execution]]
         /\ \A m \in Node, q \in Run : m # n \/ q # r => local'[m][q] = local[m][q]
         /\ local'[n][r].report.state = state
         /\ local'[n][r].report.started = local[n][r].report.started
         /\ local'[n][r].gen = local[n][r].gen
         /\ local'[n][r].revoke = local[n][r].revoke
         /\ local'[n][r].held = local[n][r].held
         /\ local'[n][r].report.early => n \in Slow
<1> DEFINE e == local[n][r]
           early == n \in Slow /\ ~local[n][r].report.started
           e1 == [e EXCEPT !.report.state = state]
           e2 == [e1 EXCEPT !.report.early = early]
           e3 == [e2 EXCEPT !.acked = FALSE]
           l1 == [local EXCEPT ![n][r].report.state = state]
           l2 == [l1 EXCEPT ![n][r].report.early = early]
<1>1. e \in Execution /\ e.report \in Report /\ local \in [Node -> [Run -> Execution]]
  BY Types DEF Shape
<1>2. e1 \in Execution /\ e1.report.state = state
  BY <1>1 DEF Execution, Report, Finished
<1>3. /\ e1.gen = e.gen /\ e1.revoke = e.revoke /\ e1.held = e.held
      /\ e1.report.started = e.report.started
  BY <1>1 DEF Execution, Report
<1>4. early \in BOOLEAN /\ (early => n \in Slow)
  OBVIOUS
<1>5. l1 = [local EXCEPT ![n][r] = e1]
  OBVIOUS
<1>6. local' = [l2 EXCEPT ![n][r].acked = FALSE]
  BY DEF Reported
<1> HIDE DEF early, e1, l1
<1>7. /\ l1 \in [Node -> [Run -> Execution]] /\ l1[n][r] = e1
      /\ \A m \in Node, q \in Run : m # n \/ q # r => l1[m][q] = local[m][q]
  BY <1>1, <1>2, <1>5, Entry
<1>8. /\ e2 \in Execution /\ e2.gen = e1.gen /\ e2.revoke = e1.revoke /\ e2.held = e1.held
      /\ e2.report.started = e1.report.started /\ e2.report.state = e1.report.state
      /\ e2.report.early = early
  BY <1>2, <1>4 DEF Execution, Report
<1>9. l2 = [l1 EXCEPT ![n][r] = e2]
  BY <1>7
<1> HIDE DEF e2, l2
<1>10. /\ l2 \in [Node -> [Run -> Execution]] /\ l2[n][r] = e2
       /\ \A m \in Node, q \in Run : m # n \/ q # r => l2[m][q] = l1[m][q]
  BY <1>7, <1>8, <1>9, Entry
<1>11. /\ e3 \in Execution /\ e3.gen = e2.gen /\ e3.revoke = e2.revoke /\ e3.held = e2.held
       /\ e3.report = e2.report
  BY <1>8 DEF Execution
<1>12. local' = [l2 EXCEPT ![n][r] = e3]
  BY <1>6, <1>10
<1> HIDE DEF e3
<1>13. /\ local' \in [Node -> [Run -> Execution]] /\ local'[n][r] = e3
       /\ \A m \in Node, q \in Run : m # n \/ q # r => local'[m][q] = l2[m][q]
  BY <1>10, <1>11, <1>12, Entry
<1>14. e3.report = e2.report /\ e3.gen = e.gen /\ e3.revoke = e.revoke /\ e3.held = e.held
  BY <1>3, <1>8, <1>11
<1> QED BY <1>2, <1>3, <1>4, <1>7, <1>8, <1>10, <1>13, <1>14

-----------------------------------------------------------------------------
\* The end of an execution, with its thread and its processes.
LEMMA EndKeeps ==
  ASSUME IInv, NEW n \in Node, NEW r \in Run,
         NEW state \in {"released"} \cup Finished, Reported(n, r, state),
         Unfinished(local[n][r]),
         thread' = [thread EXCEPT ![n][r] = "idle"],
         group' = [group EXCEPT ![n][r] = "none"],
         UNCHANGED <<run, owner, prompts>>,
         state = "released" => local[n][r].revoke /\ ~local[n][r].report.started,
         state = "succeeded" => local[n][r].report.started /\ prompts[r] = 1
  PROVE  IInv'
<1>1. /\ group' \in [Node -> [Run -> {"none", "leader", "orphans"}]]
      /\ group'[n][r] = "none"
      /\ \A m \in Node, q \in Run : m # n \/ q # r => group'[m][q] = group[m][q]
  BY Entry DEF IInv, Shape
<1>2. /\ thread' \in [Node -> [Run -> {"idle", "owned", "launched", "intent", "prompted"}]]
      /\ thread'[n][r] = "idle"
      /\ \A m \in Node, q \in Run : m # n \/ q # r => thread'[m][q] = thread[m][q]
  BY Entry DEF IInv, Shape
<1>3. /\ Shape /\ local' \in [Node -> [Run -> Execution]]
      /\ \A m \in Node, q \in Run : m # n \/ q # r => local'[m][q] = local[m][q]
      /\ local'[n][r].report.state = state
      /\ local'[n][r].report.started = local[n][r].report.started
      /\ local'[n][r].gen = local[n][r].gen
      /\ local'[n][r].revoke = local[n][r].revoke
      /\ local'[n][r].held = local[n][r].held
      /\ local'[n][r].report.early => n \in Slow
  BY StoredReport DEF IInv
<1>4. Shape'
  BY <1>1, <1>2, <1>3 DEF Shape
<1>5. Moves(n, r)
  BY <1>1, <1>2, <1>3 DEF Moves
<1>6. StartsAt(n, r) /\ StartsAt(n, r)'
  BY <1>2, <1>3 DEF IInv, Starts, StartsAt, Finished
<1>7. HeldAt(n, r)' /\ SubmittedAt(n, r)'
  BY <1>1, <1>2, <1>3 DEF HeldAt, SubmittedAt, Finished
<1> QED BY <1>4, <1>5, <1>6, <1>7, MoveKeeps

\* Recovery ends an execution whose processes are gone.
LEMMA RecoverKeeps ==
  ASSUME IInv, NEW n \in Node, NEW r \in Run, NEW gen \in Nat, Recover(n, r, gen)
  PROVE  IInv'
<1> DEFINE state == IF Revoked(n, r, gen) THEN "cancelled" ELSE "failed"
<1>1. state \in Finished /\ state # "succeeded" /\ state # "released" /\ Reported(n, r, state)
  BY DEF Recover, Finished
<1> HIDE DEF state
<1>2. /\ Unfinished(local[n][r]) /\ thread[n][r] = "idle"
      /\ group' = [group EXCEPT ![n][r] = "none"]
      /\ UNCHANGED <<run, owner, prompts, thread>>
  BY DEF Recover, Locked, supervisor
<1>3. thread' = [thread EXCEPT ![n][r] = "idle"]
  BY <1>2 DEF IInv, Shape
<1> QED BY <1>1, <1>2, <1>3, EndKeeps

\* A release ends an execution that was never taken.
LEMMA ReleaseKeeps ==
  ASSUME IInv, NEW n \in Node, NEW r \in Run, NEW gen \in Nat, Release(n, r, gen)
  PROVE  IInv'
<1>1. /\ Unfinished(local[n][r]) /\ thread[n][r] = "idle" /\ ~local[n][r].held
      /\ local[n][r].revoke /\ Reported(n, r, "released")
      /\ UNCHANGED <<run, owner, prompts, thread, group>>
  BY DEF Release, Locked, Revoked, supervisor
<1>2. HeldAt(n, r) /\ StartsAt(n, r)
  BY DEF IInv, Held, Starts
<1>3. thread' = [thread EXCEPT ![n][r] = "idle"] /\ group' = [group EXCEPT ![n][r] = "none"]
  BY <1>1, <1>2 DEF IInv, Shape, HeldAt
<1> QED BY <1>1, <1>2, <1>3, EndKeeps DEF StartsAt

\* A thread that has not submitted stops its process and reports a release or an
\* end.
LEMMA StopUnsubmittedKeeps ==
  ASSUME IInv, NEW n \in Node, NEW r \in Run, StopUnsubmitted(n, r)
  PROVE  IInv'
<1> DEFINE state == IF local[n][r].revoke THEN "released" ELSE "cancelled"
<1>1. /\ state \in {"released"} \cup Finished /\ state # "succeeded"
      /\ state = "released" => local[n][r].revoke
      /\ Reported(n, r, state)
  BY DEF StopUnsubmitted, Finished
<1> HIDE DEF state
<1>2. /\ thread[n][r] = "launched"
      /\ group' = [group EXCEPT ![n][r] = "none"]
      /\ thread' = [thread EXCEPT ![n][r] = "idle"]
      /\ UNCHANGED <<run, owner, prompts>>
  BY DEF StopUnsubmitted, supervisor
<1>3. HeldAt(n, r) /\ StartsAt(n, r)
  BY DEF IInv, Held, Starts
<1>4. Unfinished(local[n][r]) /\ ~local[n][r].report.started
  BY <1>2, <1>3 DEF HeldAt, StartsAt
<1> QED BY <1>1, <1>2, <1>4, EndKeeps

\* The turn of a submitted run ends.
LEMMA ConcludeKeeps ==
  ASSUME IInv, NEW n \in Node, NEW r \in Run, Conclude(n, r)
  PROVE  IInv'
<1>1. /\ thread[n][r] = "prompted"
      /\ group' = [group EXCEPT ![n][r] = "none"]
      /\ thread' = [thread EXCEPT ![n][r] = "idle"]
      /\ UNCHANGED <<run, owner, prompts>>
  BY DEF Conclude, supervisor
<1>2. PICK state \in Finished : Reported(n, r, state)
  BY DEF Conclude
<1>3. HeldAt(n, r) /\ StartsAt(n, r) /\ SubmittedAt(n, r)
  BY DEF IInv, Held, Starts, Submissions
<1>4. Unfinished(local[n][r]) /\ local[n][r].report.started /\ prompts[r] = 1
  BY <1>1, <1>3 DEF HeldAt, StartsAt, SubmittedAt
<1>5. state # "released"
  BY DEF Finished
<1> QED BY <1>1, <1>2, <1>4, <1>5, EndKeeps

\* A thread that fails ends its execution.
LEMMA FailKeeps ==
  ASSUME IInv, NEW n \in Node, NEW r \in Run, Fail(n, r)
  PROVE  IInv'
<1> DEFINE state == IF local[n][r].revoke THEN "cancelled" ELSE "failed"
<1>1. state \in Finished /\ state # "succeeded" /\ state # "released" /\ Reported(n, r, state)
  BY DEF Fail, Finished
<1> HIDE DEF state
<1>2. /\ thread[n][r] # "idle"
      /\ group' = [group EXCEPT ![n][r] = "none"]
      /\ thread' = [thread EXCEPT ![n][r] = "idle"]
      /\ UNCHANGED <<run, owner, prompts>>
  BY DEF Fail, supervisor
<1>3. Unfinished(local[n][r])
  BY <1>2 DEF IInv, Held, HeldAt
<1> QED BY <1>1, <1>2, <1>3, EndKeeps

\* A launch gives the process to the thread that took custody.
LEMMA LaunchKeeps ==
  ASSUME IInv, NEW n \in Node, NEW r \in Run, Launch(n, r)
  PROVE  IInv'
<1>1. /\ thread[n][r] = "owned"
      /\ thread' = [thread EXCEPT ![n][r] = "launched"]
      /\ group' = [group EXCEPT ![n][r] = "leader"]
      /\ UNCHANGED <<run, owner, local, prompts>>
  BY DEF Launch, supervisor
<1>2. /\ group' \in [Node -> [Run -> {"none", "leader", "orphans"}]]
      /\ group'[n][r] = "leader"
      /\ \A m \in Node, q \in Run : m # n \/ q # r => group'[m][q] = group[m][q]
  BY <1>1, Entry DEF IInv, Shape
<1>3. /\ thread' \in [Node -> [Run -> {"idle", "owned", "launched", "intent", "prompted"}]]
      /\ thread'[n][r] = "launched"
      /\ \A m \in Node, q \in Run : m # n \/ q # r => thread'[m][q] = thread[m][q]
  BY <1>1, Entry DEF IInv, Shape
<1>4. Shape' /\ Moves(n, r)
  BY <1>1, <1>2, <1>3 DEF IInv, Shape, Moves
<1>5. HeldAt(n, r) /\ StartsAt(n, r) /\ SubmittedAt(n, r)
  BY DEF IInv, Held, Starts, Submissions
<1>6. HeldAt(n, r)' /\ StartsAt(n, r)' /\ SubmittedAt(n, r)'
  BY <1>1, <1>2, <1>3, <1>5 DEF HeldAt, StartsAt, SubmittedAt, Unfinished
<1>7. Unfinished(local[n][r])
  BY <1>1, <1>5 DEF HeldAt
<1> QED BY <1>4, <1>6, <1>7, MoveKeeps

\* A thread takes custody of an execution that nobody held.
LEMMA TakeKeeps ==
  ASSUME IInv, NEW n \in Node, NEW r \in Run, NEW gen \in Nat, Take(n, r, gen)
  PROVE  IInv'
<1> DEFINE e == [local[n][r] EXCEPT !.held = TRUE]
<1>1. /\ Unfinished(local[n][r]) /\ ~local[n][r].held
      /\ thread[n][r] = "idle"
      /\ thread' = [thread EXCEPT ![n][r] = "owned"]
      /\ local' = [local EXCEPT ![n][r] = e]
      /\ UNCHANGED <<run, owner, group, prompts>>
  BY DEF Take, Locked, supervisor
<1>2. local[n][r] \in Execution
  BY Types DEF IInv
<1>3. /\ e \in Execution /\ e.held /\ e.gen = local[n][r].gen /\ e.revoke = local[n][r].revoke
      /\ e.report = local[n][r].report
  BY <1>2 DEF Execution
<1> HIDE DEF e
<1>4. /\ local' \in [Node -> [Run -> Execution]] /\ local'[n][r] = e
      /\ \A m \in Node, q \in Run : m # n \/ q # r => local'[m][q] = local[m][q]
  BY <1>1, <1>3, Entry DEF IInv, Shape
<1>5. /\ thread' \in [Node -> [Run -> {"idle", "owned", "launched", "intent", "prompted"}]]
      /\ thread'[n][r] = "owned"
      /\ \A m \in Node, q \in Run : m # n \/ q # r => thread'[m][q] = thread[m][q]
  BY <1>1, Entry DEF IInv, Shape
<1>6. Shape' /\ Moves(n, r)
  BY <1>1, <1>3, <1>4, <1>5 DEF IInv, Shape, Moves
<1>7. HeldAt(n, r) /\ StartsAt(n, r) /\ SubmittedAt(n, r)
  BY DEF IInv, Held, Starts, Submissions
<1>8. HeldAt(n, r)' /\ StartsAt(n, r)' /\ SubmittedAt(n, r)'
  BY <1>1, <1>3, <1>4, <1>5, <1>7 DEF HeldAt, StartsAt, SubmittedAt, Unfinished
<1> QED BY <1>1, <1>6, <1>8, MoveKeeps

\* The intent is recorded by a thread whose run nobody has submitted.
LEMMA IntendKeeps ==
  ASSUME IInv, NEW n \in Node, NEW r \in Run, Intend(n, r)
  PROVE  IInv'
<1> DEFINE e == local[n][r]
           e1 == [e EXCEPT !.report.state = "running"]
           e2 == [e1 EXCEPT !.report.started = TRUE]
           e3 == [e2 EXCEPT !.acked = FALSE]
           l1 == [local EXCEPT ![n][r].report.state = "running"]
           l2 == [l1 EXCEPT ![n][r].report.started = TRUE]
<1>1. /\ thread[n][r] = "launched"
      /\ thread' = [thread EXCEPT ![n][r] = "intent"]
      /\ local' = [l2 EXCEPT ![n][r].acked = FALSE]
      /\ UNCHANGED <<run, owner, group, prompts>>
  BY DEF Intend, supervisor
<1>2. e \in Execution /\ e.report \in Report /\ local \in [Node -> [Run -> Execution]]
  BY Types DEF IInv, Shape
<1>3. e1 \in Execution /\ e1.gen = e.gen /\ e1.revoke = e.revoke /\ e1.held = e.held
      /\ e1.report.state = "running" /\ e1.report.early = e.report.early
  BY <1>2 DEF Execution, Report
<1>4. l1 = [local EXCEPT ![n][r] = e1]
  OBVIOUS
<1> HIDE DEF e1, l1
<1>5. /\ l1 \in [Node -> [Run -> Execution]] /\ l1[n][r] = e1
      /\ \A m \in Node, q \in Run : m # n \/ q # r => l1[m][q] = local[m][q]
  BY <1>2, <1>3, <1>4, Entry
<1>6. e2 \in Execution /\ e2.gen = e1.gen /\ e2.revoke = e1.revoke /\ e2.held = e1.held
      /\ e2.report.state = "running" /\ e2.report.started /\ e2.report.early = e1.report.early
  BY <1>3 DEF Execution, Report
<1>7. l2 = [l1 EXCEPT ![n][r] = e2]
  BY <1>5
<1> HIDE DEF e2, l2
<1>8. /\ l2 \in [Node -> [Run -> Execution]] /\ l2[n][r] = e2
      /\ \A m \in Node, q \in Run : m # n \/ q # r => l2[m][q] = l1[m][q]
  BY <1>5, <1>6, <1>7, Entry
<1>9. e3 \in Execution /\ e3.gen = e2.gen /\ e3.revoke = e2.revoke /\ e3.held = e2.held
      /\ e3.report = e2.report
  BY <1>6 DEF Execution
<1>10. local' = [l2 EXCEPT ![n][r] = e3]
  BY <1>1, <1>8
<1> HIDE DEF e3
<1>11. /\ local' \in [Node -> [Run -> Execution]] /\ local'[n][r] = e3
       /\ \A m \in Node, q \in Run : m # n \/ q # r => local'[m][q] = l2[m][q]
  BY <1>8, <1>9, <1>10, Entry
<1>12. /\ local'[n][r].gen = local[n][r].gen /\ local'[n][r].revoke = local[n][r].revoke
       /\ local'[n][r].held = local[n][r].held
       /\ local'[n][r].report.state = "running" /\ local'[n][r].report.started
       /\ local'[n][r].report.early = local[n][r].report.early
       /\ \A m \in Node, q \in Run : m # n \/ q # r => local'[m][q] = local[m][q]
  BY <1>3, <1>5, <1>6, <1>8, <1>9, <1>11
<1>13. /\ thread' \in [Node -> [Run -> {"idle", "owned", "launched", "intent", "prompted"}]]
       /\ thread'[n][r] = "intent"
       /\ \A m \in Node, q \in Run : m # n \/ q # r => thread'[m][q] = thread[m][q]
  BY <1>1, Entry DEF IInv, Shape
<1>14. Shape'
  BY <1>1, <1>11, <1>13 DEF IInv, Shape
<1>15. Moves(n, r)
  BY <1>1, <1>12, <1>13 DEF Moves
<1>16. HeldAt(n, r) /\ StartsAt(n, r)
  BY DEF IInv, Held, Starts
<1>17. Unfinished(local[n][r]) /\ local[n][r].held /\ ~local[n][r].report.started
  BY <1>1, <1>16 DEF HeldAt, StartsAt
<1>18. prompts[r] = 0
  <2> SUFFICES ASSUME prompts[r] > 0 PROVE FALSE
    BY Types DEF IInv
  <2>1. owner[r].node = n
    BY <1>17 DEF IInv, CustodyFenced
  <2>2. local[owner[r].node][r].report.started
    BY DEF IInv, StartedByOwner
  <2> QED BY <1>17, <2>1, <2>2
<1>19. HeldAt(n, r)' /\ StartsAt(n, r)' /\ SubmittedAt(n, r)'
  BY <1>1, <1>12, <1>13, <1>16, <1>17, <1>18 DEF HeldAt, StartsAt, SubmittedAt, Unfinished
<1> QED BY <1>14, <1>15, <1>17, <1>19, MoveKeeps

\* Processes that survive every attempt to stop them keep their execution open.
LEMMA GiveUpKeeps ==
  ASSUME IInv, NEW n \in Node, NEW r \in Run, GiveUp(n, r)
  PROVE  IInv'
<1>1. /\ thread[n][r] # "idle"
      /\ thread' = [thread EXCEPT ![n][r] = "idle"]
      /\ group' = [group EXCEPT ![n][r] = "orphans"]
      /\ UNCHANGED <<run, owner, local, prompts>>
  BY DEF GiveUp, supervisor
<1>2. /\ group' \in [Node -> [Run -> {"none", "leader", "orphans"}]]
      /\ \A m \in Node, q \in Run : m # n \/ q # r => group'[m][q] = group[m][q]
  BY <1>1, Entry DEF IInv, Shape
<1>3. /\ thread' \in [Node -> [Run -> {"idle", "owned", "launched", "intent", "prompted"}]]
      /\ thread'[n][r] = "idle"
      /\ \A m \in Node, q \in Run : m # n \/ q # r => thread'[m][q] = thread[m][q]
  BY <1>1, Entry DEF IInv, Shape
<1>4. Shape' /\ Moves(n, r)
  BY <1>1, <1>2, <1>3 DEF IInv, Shape, Moves
<1>5. HeldAt(n, r) /\ StartsAt(n, r) /\ SubmittedAt(n, r)
  BY DEF IInv, Held, Starts, Submissions
<1>6. HeldAt(n, r)' /\ StartsAt(n, r)' /\ SubmittedAt(n, r)'
  BY <1>1, <1>3, <1>5 DEF HeldAt, StartsAt, SubmittedAt, Unfinished
<1>7. Unfinished(local[n][r])
  BY <1>1, <1>5 DEF HeldAt
<1> QED BY <1>4, <1>6, <1>7, MoveKeeps

\* Processes end by themselves, wholly or but for their children.
LEMMA ExitKeeps ==
  ASSUME IInv, NEW n \in Node, NEW r \in Run, NEW left \in {"none", "orphans"},
         group[n][r] # "none", group' = [group EXCEPT ![n][r] = left],
         UNCHANGED <<run, owner, local, thread, prompts>>
  PROVE  IInv'
<1>1. /\ group' \in [Node -> [Run -> {"none", "leader", "orphans"}]]
      /\ \A m \in Node, q \in Run : m # n \/ q # r => group'[m][q] = group[m][q]
  BY Entry DEF IInv, Shape
<1>2. Shape' /\ Moves(n, r)
  BY <1>1 DEF IInv, Shape, Moves
<1>3. HeldAt(n, r) /\ StartsAt(n, r) /\ SubmittedAt(n, r)
  BY DEF IInv, Held, Starts, Submissions
<1>4. HeldAt(n, r)' /\ StartsAt(n, r)' /\ SubmittedAt(n, r)'
  BY <1>3 DEF HeldAt, StartsAt, SubmittedAt, Unfinished
<1>5. Unfinished(local[n][r])
  BY <1>3 DEF HeldAt
<1> QED BY <1>2, <1>4, <1>5, MoveKeeps

\* Instructions are submitted once.
LEMMA PromptKeeps ==
  ASSUME IInv, NEW n \in Node, NEW r \in Run, Prompt(n, r)
  PROVE  IInv'
<1>1. /\ thread[n][r] = "intent"
      /\ thread' = [thread EXCEPT ![n][r] = "prompted"]
      /\ prompts' = [prompts EXCEPT ![r] = @ + 1]
      /\ UNCHANGED <<run, owner, local, group>>
  BY DEF Prompt, supervisor
<1>2. HeldAt(n, r) /\ StartsAt(n, r) /\ SubmittedAt(n, r)
  BY DEF IInv, Held, Starts, Submissions
<1>3. /\ Unfinished(local[n][r]) /\ local[n][r].held /\ local[n][r].report.started
      /\ prompts[r] = 0
  BY <1>1, <1>2 DEF HeldAt, StartsAt, SubmittedAt
<1>4. /\ prompts' \in [Run -> Nat] /\ prompts'[r] = 1
      /\ \A q \in Run : q # r => prompts'[q] = prompts[q]
  BY <1>1, <1>3 DEF IInv, Shape
<1>5. /\ thread' \in [Node -> [Run -> {"idle", "owned", "launched", "intent", "prompted"}]]
      /\ thread'[n][r] = "prompted"
      /\ \A m \in Node, q \in Run : m # n \/ q # r => thread'[m][q] = thread[m][q]
  BY <1>1, Entry DEF IInv, Shape
<1>6. owner[r].node = n /\ owner[r].gen = local[n][r].gen
  BY <1>3 DEF IInv, CustodyFenced
<1>7. \A m \in Node : m # n => thread[m][r] = "idle"
  BY <1>6 DEF IInv, CustodyFenced
<1>8. Shape'
  BY <1>1, <1>4, <1>5 DEF IInv, Shape
<1>9. CustodyFenced' /\ Generations' /\ Occurrences'
  BY <1>1, <1>3, <1>5 DEF IInv, CustodyFenced, Generations, Occurrences, Active, FansOut, Parts
<1>10. Held'
  BY <1>1, <1>3, <1>5 DEF IInv, Held, HeldAt
<1>11. Starts'
  BY <1>1, <1>3, <1>5 DEF IInv, Starts, StartsAt
<1>12. StartedByOwner'
  <2> SUFFICES ASSUME NEW q \in Run, (run[q].started /\ ~FansOut(q)) \/ prompts'[q] > 0
               PROVE  /\ owner[q].node \in Node
                      /\ local[owner[q].node][q].gen = owner[q].gen
                      /\ local[owner[q].node][q].report.started
    BY <1>1 DEF StartedByOwner, FansOut, Parts
  <2>1. CASE q = r
    BY <1>3, <1>6, <2>1
  <2>2. CASE q # r
    BY <1>4, <2>2 DEF IInv, StartedByOwner
  <2> QED BY <2>1, <2>2
<1>13. Submissions'
  <2>1. \A q \in Run : prompts'[q] <= 1
    BY <1>4 DEF IInv, Submissions
  <2>2. ASSUME NEW m \in Node, NEW q \in Run PROVE SubmittedAt(m, q)'
    <3>1. CASE q # r
      BY <1>1, <1>4, <1>5, <3>1 DEF IInv, Submissions, SubmittedAt
    <3>2. CASE q = r
      BY <1>1, <1>4, <1>5, <1>7, <3>2 DEF SubmittedAt
    <3> QED BY <3>1, <3>2
  <2> QED BY <2>1, <2>2 DEF Submissions
<1> QED BY <1>8, <1>9, <1>10, <1>11, <1>12, <1>13 DEF IInv

\* The end of a worker ends its threads and nothing else.
LEMMA CrashKeeps ==
  ASSUME IInv, NEW n \in Node, Crash(n)
  PROVE  IInv'
<1>1. /\ thread' = [thread EXCEPT ![n] = [r \in Run |-> "idle"]]
      /\ UNCHANGED <<run, owner, local, group, prompts>>
  BY DEF Crash, supervisor
<1>2. /\ thread' \in [Node -> [Run -> {"idle", "owned", "launched", "intent", "prompted"}]]
      /\ \A m \in Node, q \in Run : thread'[m][q] \in {"idle", thread[m][q]}
  BY <1>1 DEF IInv, Shape
<1>3. Shape'
  BY <1>1, <1>2 DEF IInv, Shape
<1>4. CustodyFenced' /\ Generations' /\ Occurrences'
  BY <1>1, <1>2 DEF IInv, CustodyFenced, Generations, Occurrences, Active, FansOut, Parts
<1>5. Held'
  BY <1>1, <1>2 DEF IInv, Held, HeldAt
<1>6. Starts'
  BY <1>1, <1>2 DEF IInv, Starts, StartsAt
<1>7. StartedByOwner'
  BY <1>1 DEF IInv, StartedByOwner, FansOut, Parts
<1>8. Submissions'
  BY <1>1, <1>2 DEF IInv, Submissions, SubmittedAt
<1> QED BY <1>3, <1>4, <1>5, <1>6, <1>7, <1>8 DEF IInv

-----------------------------------------------------------------------------
\* Every step of a supervisor alone changes runs and owners.
LEMMA SupervisorFrame ==
  ASSUME IInv, UNCHANGED machines
  PROVE  /\ UNCHANGED <<local, thread, group, prompts>>
         /\ Held' /\ Starts' /\ Submissions'
<1>1. UNCHANGED <<local, thread, group, prompts>>
  BY DEF machines
<1>2. Held' /\ Starts'
  BY <1>1 DEF IInv, Held, HeldAt, Starts, StartsAt, Unfinished
<1>3. Submissions'
  BY <1>1 DEF IInv, Submissions, SubmittedAt
<1> QED BY <1>1, <1>2, <1>3

\* A run without an owner is in nobody's hands and was not submitted.
LEMMA Ownerless ==
  ASSUME IInv, NEW r \in Run, owner[r].node = None
  PROVE  /\ \A n \in Node : /\ ~Unfinished(local[n][r])
                            /\ thread[n][r] = "idle" /\ group[n][r] = "none"
         /\ prompts[r] = 0 /\ (run[r].started => FansOut(r))
<1>1. None \notin Node
  BY JobsAssumption
<1>2. prompts[r] \in Nat
  BY DEF IInv, Shape
<1> QED BY <1>1, <1>2 DEF IInv, CustodyFenced, StartedByOwner

\* Runs that begin have no owner yet.
LEMMA BeginKeeps ==
  ASSUME IInv, UNCHANGED machines, NEW R \in SUBSET Run,
         \A r \in R : run[r].state = "none",
         run' \in [Run -> [state: RunState, started: BOOLEAN]],
         owner' \in [Run -> [node: Node \cup {None}, gen: Nat, revoking: BOOLEAN, stop: BOOLEAN]],
         \A q \in Run : q \notin R => run'[q] = run[q] /\ owner'[q] = owner[q],
         \A r \in R : /\ run'[r].started = run[r].started
                      /\ run'[r].state # "none" /\ (run'[r].state = "skipped" => Parent[r] = r)
                      /\ owner'[r].node = owner[r].node /\ owner'[r].gen \in {0, 1}
  PROVE  IInv'
<1>1. /\ UNCHANGED <<local, thread, group, prompts>>
      /\ Held' /\ Starts' /\ Submissions'
  BY SupervisorFrame
<1>2. \A r \in R : owner[r].node = None /\ owner[r].gen = 0
  BY DEF IInv, Occurrences
<1>3. \A r \in R, n \in Node : /\ ~Unfinished(local[n][r])
                               /\ thread[n][r] = "idle" /\ group[n][r] = "none"
  BY <1>2, Ownerless
<1>4. \A r \in R : prompts[r] = 0 /\ (run[r].started => FansOut(r))
  BY <1>2, Ownerless
<1>5. Shape'
  BY <1>1 DEF IInv, Shape
<1>6. CustodyFenced'
  BY <1>1, <1>3 DEF IInv, CustodyFenced, Unfinished, Active
<1>7. Occurrences'
  BY <1>2 DEF IInv, Occurrences, FansOut, Parts
<1>8. Generations'
  <2> SUFFICES ASSUME NEW n \in Node, NEW q \in Run
               PROVE  /\ local[n][q].gen <= owner'[q].gen
                      /\ local[n][q].revoke => local[n][q].gen > 0
                      /\ local[n][q].revoke /\ local[n][q].gen = owner'[q].gen
                           => owner'[q].revoking
    BY <1>1 DEF Generations
  <2>1. /\ local[n][q].gen <= owner[q].gen /\ local[n][q].gen \in Nat
        /\ local[n][q].revoke => local[n][q].gen > 0
        /\ local[n][q].revoke /\ local[n][q].gen = owner[q].gen => owner[q].revoking
    BY Types DEF IInv, Generations
  <2>2. CASE q \notin R
    BY <2>1, <2>2
  <2>3. CASE q \in R
    <3>1. local[n][q].gen = 0
      BY <1>2, <2>1, <2>3
    <3>2. ~local[n][q].revoke
      BY <3>1 DEF IInv, Generations
    <3> QED BY <2>3, <3>1, <3>2
  <2> QED BY <2>2, <2>3
<1>9. StartedByOwner'
  <2> SUFFICES ASSUME NEW q \in Run, (run'[q].started /\ ~FansOut(q)) \/ prompts[q] > 0
               PROVE  /\ owner'[q].node \in Node
                      /\ local[owner'[q].node][q].gen = owner'[q].gen
                      /\ local[owner'[q].node][q].report.started
    BY <1>1 DEF StartedByOwner, FansOut, Parts
  <2>1. q \notin R
    BY <1>4
  <2> QED BY <2>1 DEF IInv, StartedByOwner
<1> QED BY <1>1, <1>5, <1>6, <1>7, <1>8, <1>9 DEF IInv

\* Without an overlap the occurrence becomes pending, else it is skipped.
LEMMA EnqueueKeeps ==
  ASSUME IInv, NEW r \in Run, Enqueue(r)
  PROVE  IInv'
<1> DEFINE overlap == \E q \in Run : Active(q)
<1>1. /\ run[r].state = "none" /\ Parent[r] = r
      /\ run' = [run EXCEPT ![r].state = IF overlap THEN "skipped" ELSE "pending"]
      /\ owner' = [owner EXCEPT ![r].gen = IF overlap THEN 0 ELSE 1]
      /\ UNCHANGED machines
  BY DEF Enqueue
<1>2. /\ run \in [Run -> [state: RunState, started: BOOLEAN]]
      /\ owner \in [Run -> [node: Node \cup {None}, gen: Nat, revoking: BOOLEAN, stop: BOOLEAN]]
  BY DEF IInv, Shape
<1> HIDE DEF overlap
<1>3. /\ run' \in [Run -> [state: RunState, started: BOOLEAN]]
      /\ run'[r].started = run[r].started /\ run'[r].state \in {"skipped", "pending"}
      /\ \A q \in Run : q \notin {r} => run'[q] = run[q]
  BY <1>1, <1>2 DEF RunState
<1>4. /\ owner' \in [Run -> [node: Node \cup {None}, gen: Nat, revoking: BOOLEAN, stop: BOOLEAN]]
      /\ owner'[r].node = owner[r].node /\ owner'[r].gen \in {0, 1}
      /\ \A q \in Run : q \notin {r} => owner'[q] = owner[q]
  BY <1>1, <1>2
<1> DEFINE R == {r}
<1>5. /\ R \in SUBSET Run /\ \A q \in R : q = r
      /\ \A q \in Run : q \notin R => q # r
  OBVIOUS
<1> HIDE DEF R
<1>6. \A q \in R : run[q].state = "none"
  BY <1>1, <1>5
<1>7. \A q \in Run : q \notin R => run'[q] = run[q] /\ owner'[q] = owner[q]
  BY <1>3, <1>4, <1>5
<1>8. \A q \in R : /\ run'[q].started = run[q].started
                   /\ run'[q].state # "none" /\ (run'[q].state = "skipped" => Parent[q] = q)
                   /\ owner'[q].node = owner[q].node /\ owner'[q].gen \in {0, 1}
  BY <1>1, <1>3, <1>4, <1>5
<1> QED BY <1>1, <1>3, <1>4, <1>5, <1>6, <1>7, <1>8, BeginKeeps

\* The executions of all machines begin together.
LEMMA ExpandKeeps ==
  ASSUME IInv, NEW r \in Run, Expand(r)
  PROVE  IInv'
<1>1. /\ \A c \in Parts(r) : run[c].state = "none"
      /\ run' = [q \in Run |-> IF q \in Parts(r) THEN [run[q] EXCEPT !.state = "pending"]
                               ELSE run[q]]
      /\ owner' = [q \in Run |-> IF q \in Parts(r) THEN [owner[q] EXCEPT !.gen = 1]
                                 ELSE owner[q]]
      /\ UNCHANGED machines
  BY DEF Expand
<1>2. /\ run \in [Run -> [state: RunState, started: BOOLEAN]]
      /\ owner \in [Run -> [node: Node \cup {None}, gen: Nat, revoking: BOOLEAN, stop: BOOLEAN]]
      /\ Parts(r) \in SUBSET Run
  BY DEF IInv, Shape, Parts
<1>3. /\ run' \in [Run -> [state: RunState, started: BOOLEAN]]
      /\ \A q \in Parts(r) : run'[q].started = run[q].started /\ run'[q].state = "pending"
      /\ \A q \in Run : q \notin Parts(r) => run'[q] = run[q]
  BY <1>1, <1>2 DEF RunState
<1>4. /\ owner' \in [Run -> [node: Node \cup {None}, gen: Nat, revoking: BOOLEAN, stop: BOOLEAN]]
      /\ \A q \in Parts(r) : owner'[q].node = owner[q].node /\ owner'[q].gen = 1
      /\ \A q \in Run : q \notin Parts(r) => owner'[q] = owner[q]
  BY <1>1, <1>2
<1> QED BY <1>1, <1>2, <1>3, <1>4, BeginKeeps

\* An occurrence follows its parts; it has no owner.
LEMMA ReconcileGroupKeeps ==
  ASSUME IInv, NEW r \in Run, ReconcileGroup(r)
  PROVE  IInv'
<1>1. PICK state \in {"running", "pending"} \cup Finished, started \in BOOLEAN :
        run' = [run EXCEPT ![r] = [state |-> state, started |-> started]]
  BY DEF ReconcileGroup, GroupOutcome, Finished
<1>2. FansOut(r) /\ Active(r) /\ UNCHANGED <<owner, machines>>
  BY DEF ReconcileGroup
<1>3. /\ UNCHANGED <<local, thread, group, prompts>>
      /\ Held' /\ Starts' /\ Submissions'
  BY <1>2, SupervisorFrame
<1>4. owner[r].node = None
  BY <1>2 DEF IInv, Occurrences
<1>5. /\ \A n \in Node : /\ ~Unfinished(local[n][r])
                         /\ thread[n][r] = "idle" /\ group[n][r] = "none"
      /\ prompts[r] = 0
  BY <1>4, Ownerless
<1>6. /\ run' \in [Run -> [state: RunState, started: BOOLEAN]]
      /\ run'[r].state = state
      /\ \A q \in Run : q # r => run'[q] = run[q]
  BY <1>1 DEF IInv, Shape, RunState
<1>7. Shape'
  BY <1>2, <1>3, <1>6 DEF IInv, Shape
<1>8. CustodyFenced'
  BY <1>2, <1>3, <1>5, <1>6 DEF IInv, CustodyFenced, Unfinished, Active
<1>9. Occurrences'
  BY <1>2, <1>6 DEF IInv, Occurrences, FansOut, Parts, Finished
<1>10. Generations'
  BY <1>2, <1>3 DEF IInv, Generations
<1>11. StartedByOwner'
  <2> SUFFICES ASSUME NEW q \in Run, (run'[q].started /\ ~FansOut(q)) \/ prompts[q] > 0
               PROVE  /\ owner[q].node \in Node
                      /\ local[owner[q].node][q].gen = owner[q].gen
                      /\ local[owner[q].node][q].report.started
    BY <1>2, <1>3 DEF StartedByOwner, FansOut, Parts
  <2>1. q # r
    BY <1>2, <1>5
  <2> QED BY <1>6, <2>1 DEF IInv, StartedByOwner
<1> QED BY <1>3, <1>7, <1>8, <1>9, <1>10, <1>11 DEF IInv

\* A run gets its first owner, or the next one after a release.
LEMMA AssignKeeps ==
  ASSUME IInv, NEW r \in Run, NEW n \in Node, Assign(r, n)
  PROVE  IInv'
<1>1. /\ run[r].state = "pending" /\ ~FansOut(r) /\ owner[r].node = None
      /\ owner' = [owner EXCEPT ![r].node = n]
      /\ UNCHANGED <<run, machines>>
  BY DEF Assign
<1>2. /\ UNCHANGED <<local, thread, group, prompts>>
      /\ Held' /\ Starts' /\ Submissions'
  BY <1>1, SupervisorFrame
<1>3. /\ \A m \in Node : /\ ~Unfinished(local[m][r])
                         /\ thread[m][r] = "idle" /\ group[m][r] = "none"
      /\ prompts[r] = 0 /\ ~run[r].started
  BY <1>1, Ownerless
<1>4. /\ owner' \in [Run -> [node: Node \cup {None}, gen: Nat, revoking: BOOLEAN, stop: BOOLEAN]]
      /\ owner'[r].gen = owner[r].gen /\ owner'[r].revoking = owner[r].revoking
      /\ \A q \in Run : q # r => owner'[q] = owner[q]
  <2> DEFINE Owners == [node: Node \cup {None}, gen: Nat, revoking: BOOLEAN, stop: BOOLEAN]
             o == [owner[r] EXCEPT !.node = n]
  <2>1. owner \in [Run -> Owners] /\ owner[r] \in Owners
    BY DEF IInv, Shape
  <2>2. o \in Owners /\ o.gen = owner[r].gen /\ o.revoking = owner[r].revoking
    BY <2>1
  <2>3. owner' = [owner EXCEPT ![r] = o]
    BY <1>1
  <2> HIDE DEF Owners, o
  <2>4. /\ owner' \in [Run -> Owners] /\ owner'[r] = o
        /\ \A q \in Run : q # r => owner'[q] = owner[q]
    BY <2>1, <2>2, <2>3
  <2> QED BY <2>2, <2>4 DEF Owners
<1>5. Shape'
  BY <1>1, <1>2, <1>4 DEF IInv, Shape
<1>6. CustodyFenced'
  BY <1>1, <1>2, <1>3, <1>4 DEF IInv, CustodyFenced, Unfinished, Active
<1>7. Occurrences'
  BY <1>1, <1>4 DEF IInv, Occurrences, FansOut, Parts
<1>8. Generations'
  BY <1>2, <1>4 DEF IInv, Generations
<1>9. StartedByOwner'
  <2> SUFFICES ASSUME NEW q \in Run, (run[q].started /\ ~FansOut(q)) \/ prompts[q] > 0
               PROVE  /\ owner'[q].node \in Node
                      /\ local[owner'[q].node][q].gen = owner'[q].gen
                      /\ local[owner'[q].node][q].report.started
    BY <1>1, <1>2 DEF StartedByOwner, FansOut, Parts
  <2>1. q # r
    BY <1>3
  <2> QED BY <1>4, <2>1 DEF IInv, StartedByOwner
<1> QED BY <1>2, <1>5, <1>6, <1>7, <1>8, <1>9 DEF IInv

\* A revocation, or a stop that cancels what nobody owns.
LEMMA WithdrawalKeeps ==
  ASSUME IInv, UNCHANGED machines, NEW cancelled \in SUBSET Run,
         \A q \in cancelled : owner[q].node = None /\ Active(q) /\ run'[q].state = "cancelled",
         run' \in [Run -> [state: RunState, started: BOOLEAN]],
         owner' \in [Run -> [node: Node \cup {None}, gen: Nat, revoking: BOOLEAN, stop: BOOLEAN]],
         \A q \in Run : q \notin cancelled => run'[q] = run[q],
         \A q \in Run : /\ owner'[q].node = owner[q].node /\ owner'[q].gen = owner[q].gen
                        /\ owner[q].revoking => owner'[q].revoking
                        /\ run'[q].started = run[q].started
  PROVE  IInv'
<1>1. /\ UNCHANGED <<local, thread, group, prompts>>
      /\ Held' /\ Starts' /\ Submissions'
  BY SupervisorFrame
<1>2. \A q \in cancelled, n \in Node : /\ ~Unfinished(local[n][q])
                                       /\ thread[n][q] = "idle" /\ group[n][q] = "none"
  BY Ownerless
<1>3. Shape'
  BY <1>1 DEF IInv, Shape
<1>4. CustodyFenced'
  BY <1>1, <1>2 DEF IInv, CustodyFenced, Unfinished, Active
<1>5. Occurrences'
  BY DEF IInv, Occurrences, FansOut, Parts
<1>6. Generations'
  BY <1>1 DEF IInv, Generations
<1>7. StartedByOwner'
  BY <1>1 DEF IInv, StartedByOwner, FansOut, Parts
<1> QED BY <1>1, <1>3, <1>4, <1>5, <1>6, <1>7 DEF IInv

\* The supervisor asks an owner to give a run back.
LEMMA RevokeKeeps ==
  ASSUME IInv, NEW r \in Run, Revoke(r)
  PROVE  IInv'
<1>1. /\ owner' = [owner EXCEPT ![r].revoking = TRUE]
      /\ run' = run /\ UNCHANGED machines
  BY DEF Revoke
<1>2. /\ owner \in [Run -> [node: Node \cup {None}, gen: Nat, revoking: BOOLEAN, stop: BOOLEAN]]
      /\ run \in [Run -> [state: RunState, started: BOOLEAN]]
  BY DEF IInv, Shape
<1>3. /\ owner' \in [Run -> [node: Node \cup {None}, gen: Nat, revoking: BOOLEAN, stop: BOOLEAN]]
      /\ \A q \in Run : /\ owner'[q].node = owner[q].node /\ owner'[q].gen = owner[q].gen
                        /\ owner[q].revoking => owner'[q].revoking
  BY <1>1, <1>2
<1> DEFINE cancelled == {}
<1>4. cancelled \in SUBSET Run /\ \A q \in cancelled : FALSE
  OBVIOUS
<1> HIDE DEF cancelled
<1> QED BY <1>1, <1>2, <1>3, <1>4, WithdrawalKeeps

\* A stop asks every owner and cancels the rest.
LEMMA StopKeeps ==
  ASSUME IInv, NEW r \in Run, Stop(r)
  PROVE  IInv'
<1> DEFINE stopped == {q \in {r} \cup Parts(r) : Active(q)}
           parts(q) == {c \in Parts(q) : run[c].state # "none"}
           cancelled == {q \in stopped : owner[q].node = None /\ parts(q) = {}}
<1>1. /\ owner' = [q \in Run |-> IF q \in stopped
                     THEN [owner[q] EXCEPT !.revoking = TRUE, !.stop = TRUE]
                     ELSE owner[q]]
      /\ run' = [q \in Run |->
                   IF q \in stopped /\ owner[q].node = None /\ parts(q) = {}
                   THEN [run[q] EXCEPT !.state = "cancelled"] ELSE run[q]]
      /\ UNCHANGED machines
  BY DEF Stop
<1>2. run' = [q \in Run |-> IF q \in cancelled
                            THEN [run[q] EXCEPT !.state = "cancelled"] ELSE run[q]]
  BY <1>1
<1>3. /\ \A q \in cancelled : owner[q].node = None /\ Active(q)
      /\ cancelled \in SUBSET Run
  BY DEF Parts
<1>4. /\ owner \in [Run -> [node: Node \cup {None}, gen: Nat, revoking: BOOLEAN, stop: BOOLEAN]]
      /\ run \in [Run -> [state: RunState, started: BOOLEAN]]
  BY DEF IInv, Shape
<1> HIDE DEF stopped, parts, cancelled
<1>5. /\ owner' \in [Run -> [node: Node \cup {None}, gen: Nat, revoking: BOOLEAN, stop: BOOLEAN]]
      /\ \A q \in Run : /\ owner'[q].node = owner[q].node /\ owner'[q].gen = owner[q].gen
                        /\ owner[q].revoking => owner'[q].revoking
  BY <1>1, <1>4
<1>6. /\ run' \in [Run -> [state: RunState, started: BOOLEAN]]
      /\ \A q \in cancelled : run'[q].state = "cancelled"
      /\ \A q \in Run : /\ run'[q].started = run[q].started
                        /\ q \notin cancelled => run'[q] = run[q]
  BY <1>2, <1>3, <1>4 DEF RunState, Finished
<1>7. UNCHANGED machines
  BY <1>1
<1> QED BY <1>3, <1>5, <1>6, <1>7, WithdrawalKeeps

-----------------------------------------------------------------------------
\* A dispatch that changes something is the supervisor's present one: repeated
\* ones are older than the entry, or say what it says.
LEMMA DispatchedKeeps ==
  ASSUME IInv, NEW n \in Node, NEW r \in Run, Dispatched(n, r)
  PROVE  IInv'
<1>1. PICK gen \in 1 .. MaxGeneration[r], revoke \in BOOLEAN :
        MayArrive(n, r, gen, revoke) /\ Receive(n, r, gen, revoke)
  BY DEF Dispatched
<1>2. UNCHANGED <<run, owner, thread, group, prompts>>
  BY <1>1 DEF Receive, supervisor
<1>3. gen \in Nat /\ gen > 0
  <2>1. MaxGeneration[r] \in Nat
    BY JobsAssumption
  <2> QED BY <2>1
<1>4. CASE gen = local[n][r].gen /\ revoke /\ ~local[n][r].revoke
           /\ local' = [local EXCEPT ![n][r].revoke = TRUE]
  <2> DEFINE e == [local[n][r] EXCEPT !.revoke = TRUE]
  <2>1. local[n][r] \in Execution /\ local[n][r].gen \in Nat
    BY Types DEF IInv
  <2>2. owner[r].revoking
    BY <1>1, <1>4, <2>1 DEF MayArrive
  <2>3. /\ e \in Execution /\ e.gen = local[n][r].gen /\ e.revoke
        /\ e.report = local[n][r].report /\ e.held = local[n][r].held
    BY <2>1 DEF Execution
  <2>4. local' = [local EXCEPT ![n][r] = e]
    BY <1>4
  <2> HIDE DEF e
  <2>5. /\ local' \in [Node -> [Run -> Execution]] /\ local'[n][r] = e
        /\ \A m \in Node, q \in Run : m # n \/ q # r => local'[m][q] = local[m][q]
    BY <2>3, <2>4, Entry DEF IInv, Shape
  <2>6. \A m \in Node, q \in Run :
          /\ local'[m][q].gen = local[m][q].gen /\ local'[m][q].report = local[m][q].report
          /\ local'[m][q].held = local[m][q].held
          /\ local[m][q].revoke => local'[m][q].revoke
          /\ local'[m][q].revoke => local[m][q].revoke \/ (m = n /\ q = r)
    BY <2>3, <2>5
  <2>7. Shape'
    BY <1>2, <2>5 DEF IInv, Shape
  <2>8. CustodyFenced'
    BY <1>2, <2>6 DEF IInv, CustodyFenced, Unfinished, Active
  <2>9. Occurrences'
    BY <1>2 DEF IInv, Occurrences, FansOut, Parts
  <2>10. Generations'
    BY <1>2, <1>3, <1>4, <2>2, <2>6 DEF IInv, Generations
  <2>11. Held'
    BY <1>2, <2>6 DEF IInv, Held, HeldAt, Unfinished
  <2>12. Starts'
    <3> SUFFICES ASSUME NEW m \in Node, NEW q \in Run PROVE StartsAt(m, q)'
      BY DEF Starts
    <3>1. StartsAt(m, q)
      BY DEF IInv, Starts
    <3> QED BY <1>2, <2>6, <3>1 DEF StartsAt
  <2>13. StartedByOwner'
    BY <1>2, <2>6 DEF IInv, StartedByOwner, FansOut, Parts
  <2>14. Submissions'
    BY <1>2, <2>6 DEF IInv, Submissions, SubmittedAt
  <2> QED BY <2>7, <2>8, <2>9, <2>10, <2>11, <2>12, <2>13, <2>14 DEF IInv
<1>5. CASE /\ gen > local[n][r].gen
           /\ local[n][r].gen = 0 \/ local[n][r].report.state = "released"
           /\ local' = [local EXCEPT ![n][r] = Received(gen, revoke)]
  <2> DEFINE e == Received(gen, revoke)
  <2>1. local[n][r].gen \in Nat
    BY Types DEF IInv
  <2>2. /\ Active(r) /\ owner[r].node = n /\ gen = owner[r].gen
        /\ revoke => owner[r].revoking
    BY <1>1, <1>3, <1>5, <2>1 DEF MayArrive
  <2>3. ~Unfinished(local[n][r])
    BY <1>5, <2>1 DEF Unfinished
  <2>4. thread[n][r] = "idle" /\ group[n][r] = "none"
    BY <2>3 DEF IInv, Held, HeldAt
  <2>5. ~(run[r].started /\ ~FansOut(r)) /\ ~(prompts[r] > 0)
    BY <1>5, <2>1, <2>2 DEF IInv, StartedByOwner
  <2>6. /\ e \in Execution /\ e.gen = gen /\ e.revoke = revoke /\ ~e.held
        /\ e.report.state = "pending" /\ ~e.report.started /\ ~e.report.early
    BY <1>3 DEF Received, Execution, Report, Pending
  <2>7. local' = [local EXCEPT ![n][r] = e]
    BY <1>5
  <2> HIDE DEF e
  <2>8. /\ local' \in [Node -> [Run -> Execution]] /\ local'[n][r] = e
        /\ \A m \in Node, q \in Run : m # n \/ q # r => local'[m][q] = local[m][q]
    BY <2>6, <2>7, Entry DEF IInv, Shape
  <2>9. Shape'
    BY <1>2, <2>8 DEF IInv, Shape
  <2>10. CustodyFenced'
    BY <1>2, <2>2, <2>6, <2>8 DEF IInv, CustodyFenced, Unfinished, Active
  <2>11. Occurrences'
    BY <1>2 DEF IInv, Occurrences, FansOut, Parts
  <2>12. Generations'
    <3>1. owner[r].gen \in Nat
      BY Types DEF IInv
    <3> QED BY <1>2, <1>3, <2>2, <2>6, <2>8, <3>1 DEF IInv, Generations
  <2>13. Held'
    BY <1>2, <2>4, <2>8 DEF IInv, Held, HeldAt, Unfinished
  <2>14. Starts'
    BY <1>2, <2>4, <2>6, <2>8 DEF IInv, Starts, StartsAt
  <2>15. StartedByOwner'
    <3> SUFFICES ASSUME NEW q \in Run, (run[q].started /\ ~FansOut(q)) \/ prompts[q] > 0
                 PROVE  /\ owner[q].node \in Node
                        /\ local'[owner[q].node][q].gen = owner[q].gen
                        /\ local'[owner[q].node][q].report.started
      BY <1>2 DEF StartedByOwner, FansOut, Parts
    <3>1. q # r
      BY <2>5
    <3> QED BY <2>8, <3>1 DEF IInv, StartedByOwner
  <2>16. Submissions'
    BY <1>2, <2>4, <2>6, <2>8 DEF IInv, Submissions, SubmittedAt
  <2> QED BY <2>9, <2>10, <2>11, <2>12, <2>13, <2>14, <2>15, <2>16 DEF IInv
<1> QED BY <1>1, <1>4, <1>5 DEF Receive

\* A report that is not fenced is the last one of the owner, or tells of the
\* start that its last one tells of too.
LEMMA Unfenced ==
  ASSUME IInv, NEW n \in Node, NEW r \in Run, NEW m \in Reports(n, r), ~Fenced(n, r, m.gen)
  PROVE  /\ owner[r].node = n /\ owner[r].gen = m.gen /\ m.gen = local[n][r].gen
         /\ m.report \in Report /\ m.report.state # "pending"
         /\ m.report.state = "running" => m.report.started
         /\ m.report.started => local[n][r].report.started
         /\ m.report.state # "running" => m.report = local[n][r].report
<1>1. owner[r].node = n /\ owner[r].gen = m.gen
  BY DEF Fenced
<1>2. /\ local[n][r].gen \in Nat /\ owner[r].gen \in Nat /\ local[n][r].report \in Report
      /\ local[n][r].gen <= owner[r].gen /\ StartsAt(n, r)
  BY Types DEF IInv, Generations, Starts
<1> DEFINE last == [gen |-> local[n][r].gen, report |-> local[n][r].report]
           start == [gen |-> local[n][r].gen,
                     report |-> [Pending EXCEPT !.state = "running", !.started = TRUE]]
           release(g) == [gen |-> g, report |-> [Pending EXCEPT !.state = "released"]]
<1>3. \/ m = last /\ local[n][r].report.state # "pending"
      \/ m = start /\ local[n][r].report.started
      \/ \E g \in 1 .. local[n][r].gen - 1 : m = release(g)
  BY DEF Reports
<1>4. CASE m = last /\ local[n][r].report.state # "pending"
  BY <1>1, <1>2, <1>4 DEF StartsAt
<1>5. CASE m = start /\ local[n][r].report.started
  <2>1. m.gen = local[n][r].gen /\ m.report.state = "running" /\ m.report.started
    BY <1>5 DEF Pending
  <2>2. m.report \in Report
    BY <1>5 DEF Pending, Report
  <2> QED BY <1>1, <1>5, <2>1, <2>2
<1>6. CASE \E g \in 1 .. local[n][r].gen - 1 : m = release(g)
  <2>1. PICK g \in 1 .. local[n][r].gen - 1 : m = release(g)
    BY <1>6
  <2>2. m.gen = g
    BY <2>1
  <2> QED BY <1>1, <1>2, <2>1, <2>2
<1> QED BY <1>3, <1>4, <1>5, <1>6

\* An acknowledgment marks an entry and changes nothing else.
LEMMA AcknowledgedEntries ==
  ASSUME Shape, NEW n \in Node, NEW r \in Run, NEW gen, NEW report, NEW delivered \in BOOLEAN,
         local' = IF delivered THEN Acknowledged(n, r, gen, report) ELSE local
  PROVE  /\ local' \in [Node -> [Run -> Execution]]
         /\ \A m \in Node, q \in Run :
              /\ local'[m][q].gen = local[m][q].gen
              /\ local'[m][q].revoke = local[m][q].revoke
              /\ local'[m][q].report = local[m][q].report
              /\ local'[m][q].held = local[m][q].held
<1> DEFINE mark == \/ local[n][r].acked
                   \/ /\ gen = local[n][r].gen /\ report = local[n][r].report
                      /\ ~Unfinished(local[n][r])
           e == [local[n][r] EXCEPT !.acked = mark]
<1>1. local[n][r] \in Execution /\ local \in [Node -> [Run -> Execution]]
  BY Types DEF Shape
<1>2. mark \in BOOLEAN
  BY <1>1 DEF Execution
<1>3. Acknowledged(n, r, gen, report) = [local EXCEPT ![n][r] = e]
  BY DEF Acknowledged
<1> HIDE DEF mark
<1>4. /\ e \in Execution /\ e.gen = local[n][r].gen /\ e.revoke = local[n][r].revoke
      /\ e.report = local[n][r].report /\ e.held = local[n][r].held
  BY <1>1, <1>2 DEF Execution
<1> HIDE DEF e
<1> DEFINE g == Acknowledged(n, r, gen, report)
<1>5. /\ g \in [Node -> [Run -> Execution]] /\ g[n][r] = e
      /\ \A m \in Node, q \in Run : m # n \/ q # r => g[m][q] = local[m][q]
  BY <1>1, <1>3, <1>4, Entry
<1> HIDE DEF g
<1>6. local' = IF delivered THEN g ELSE local
  BY DEF g
<1> QED BY <1>1, <1>4, <1>5, <1>6

\* What the owner reports ends the run, starts it, or gives it back.
LEMMA ReportArrivesKeeps ==
  ASSUME IInv, NEW n \in Node, NEW r \in Run, ReportArrives(n, r)
  PROVE  IInv'
<1>1. PICK m \in Reports(n, r), delivered \in BOOLEAN :
        AcceptReport(n, r, m.gen, m.report, delivered)
  BY DEF ReportArrives
<1> DEFINE report == m.report
<1>2. /\ ~Fenced(n, r, m.gen) /\ (Active(r) => ~Refused(r, report))
      /\ IF Active(r) THEN Accepted(r, report) ELSE UNCHANGED supervisor
      /\ UNCHANGED <<thread, group, prompts>>
      /\ local' = IF delivered THEN Acknowledged(n, r, m.gen, m.report) ELSE local
  BY <1>1 DEF AcceptReport
<1>3. /\ owner[r].node = n /\ owner[r].gen = m.gen /\ m.gen = local[n][r].gen
      /\ report \in Report /\ report.state # "pending"
      /\ report.state = "running" => report.started
      /\ report.started => local[n][r].report.started
      /\ report.state # "running" => report = local[n][r].report
  BY <1>2, Unfenced
<1>4. /\ local' \in [Node -> [Run -> Execution]]
      /\ \A k \in Node, q \in Run :
              /\ local'[k][q].gen = local[k][q].gen
              /\ local'[k][q].revoke = local[k][q].revoke
              /\ local'[k][q].report = local[k][q].report
              /\ local'[k][q].held = local[k][q].held
  BY <1>2, AcknowledgedEntries DEF IInv
<1> HIDE DEF report
<1>11. UNCHANGED <<thread, group, prompts>>
  BY <1>2
<1>5. Held' /\ Starts' /\ Submissions'
  <2>1. Held'
    BY <1>11, <1>4 DEF IInv, Held, HeldAt, Unfinished
  <2>2. Starts'
    BY <1>11, <1>4 DEF IInv, Starts, StartsAt
  <2>3. Submissions'
    BY <1>11, <1>4 DEF IInv, Submissions, SubmittedAt
  <2> QED BY <2>1, <2>2, <2>3
<1>6. /\ run \in [Run -> [state: RunState, started: BOOLEAN]]
      /\ owner \in [Run -> [node: Node \cup {None}, gen: Nat, revoking: BOOLEAN, stop: BOOLEAN]]
      /\ owner[r].gen \in Nat
  BY Types DEF IInv, Shape
<1>7. ~FansOut(r)
  BY <1>3, JobsAssumption DEF IInv, Occurrences
<1>8. CASE ~Active(r)
  <2>1. UNCHANGED <<run, owner>>
    BY <1>2, <1>8 DEF supervisor
  <2>2. Shape'
    BY <1>11, <1>4, <2>1 DEF IInv, Shape
  <2>3. CustodyFenced'
    BY <1>11, <1>4, <2>1 DEF IInv, CustodyFenced, Unfinished, Active
  <2>4. Occurrences'
    BY <2>1 DEF IInv, Occurrences, FansOut, Parts
  <2>5. Generations'
    BY <1>4, <2>1 DEF IInv, Generations
  <2>6. StartedByOwner'
    BY <1>11, <1>4, <2>1 DEF IInv, StartedByOwner, FansOut, Parts
  <2> QED BY <1>5, <2>2, <2>3, <2>4, <2>5, <2>6 DEF IInv
<1>9. CASE Active(r) /\ report.state = "released" /\ ~owner[r].stop
  <2>1. /\ owner' = [owner EXCEPT ![r].node = None, ![r].gen = @ + 1, ![r].revoking = FALSE]
        /\ run' = run
    BY <1>2, <1>9 DEF Accepted
  <2>13. run' = run
    BY <2>1
  <2>2. /\ owner' \in [Run -> [node: Node \cup {None}, gen: Nat, revoking: BOOLEAN, stop: BOOLEAN]]
        /\ owner'[r].node = None /\ owner'[r].gen = owner[r].gen + 1
        /\ \A q \in Run : q # r => owner'[q] = owner[q]
    BY <1>6, <2>1
  <2>3. ~run[r].started
    BY <1>2, <1>9 DEF Refused
  <2>4. local[n][r].report.state = "released" /\ ~Unfinished(local[n][r])
    BY <1>3, <1>9 DEF Unfinished
  <2>5. ~local[n][r].report.started
    BY <2>4 DEF IInv, Starts, StartsAt
  <2>6. ~(prompts[r] > 0)
    BY <1>3, <2>5 DEF IInv, StartedByOwner
  <2>7. thread[n][r] = "idle" /\ group[n][r] = "none"
    BY <2>4 DEF IInv, Held, HeldAt
  <2>8. Shape'
    BY <1>11, <1>4, <2>1, <2>2 DEF IInv, Shape
  <2>9. CustodyFenced'
    <3> SUFFICES ASSUME NEW k \in Node, NEW q \in Run,
                        \/ Unfinished(local[k][q]) \/ thread[k][q] # "idle"
                        \/ group[k][q] # "none"
                 PROVE  /\ Active(q) /\ owner'[q].node = k
                        /\ owner'[q].gen = local[k][q].gen
      BY <1>11, <1>4, <2>13 DEF CustodyFenced, Unfinished, Active
    <3>1. Active(q) /\ owner[q].node = k /\ owner[q].gen = local[k][q].gen
      BY DEF IInv, CustodyFenced
    <3>2. q # r
      BY <1>3, <2>4, <2>7, <3>1
    <3> QED BY <2>2, <3>1, <3>2
  <2>10. Occurrences'
    BY <1>9, <2>1, <2>2 DEF IInv, Occurrences, FansOut, Parts, Active
  <2>11. Generations'
    <3> SUFFICES ASSUME NEW k \in Node, NEW q \in Run
                 PROVE  /\ local[k][q].gen <= owner'[q].gen
                        /\ local[k][q].revoke => local[k][q].gen > 0
                        /\ local[k][q].revoke /\ local[k][q].gen = owner'[q].gen
                             => owner'[q].revoking
      BY <1>4 DEF Generations
    <3>1. /\ local[k][q].gen <= owner[q].gen /\ local[k][q].gen \in Nat
          /\ local[k][q].revoke => local[k][q].gen > 0
          /\ local[k][q].revoke /\ local[k][q].gen = owner[q].gen => owner[q].revoking
      BY Types DEF IInv, Generations
    <3>2. CASE q = r
      BY <1>6, <2>2, <3>1, <3>2
    <3>3. CASE q # r
      BY <2>2, <3>1, <3>3
    <3> QED BY <3>2, <3>3
  <2>12. StartedByOwner'
    <3> SUFFICES ASSUME NEW q \in Run, (run[q].started /\ ~FansOut(q)) \/ prompts[q] > 0
                 PROVE  /\ owner'[q].node \in Node
                        /\ local[owner'[q].node][q].gen = owner'[q].gen
                        /\ local[owner'[q].node][q].report.started
      BY <1>11, <1>4, <2>13 DEF StartedByOwner, FansOut, Parts
    <3>1. q # r
      BY <2>3, <2>6
    <3> QED BY <2>2, <3>1 DEF IInv, StartedByOwner
  <2> QED BY <1>5, <2>8, <2>9, <2>10, <2>11, <2>12 DEF IInv
<1>10. CASE Active(r) /\ ~(report.state = "released" /\ ~owner[r].stop)
  <2> DEFINE state == IF report.state = "running" THEN "running"
                      ELSE IF owner[r].stop THEN "cancelled" ELSE report.state
             started == run[r].started \/ report.started
  <2>1. /\ run' = [run EXCEPT ![r].started = started, ![r].state = state]
        /\ owner' = owner
    BY <1>2, <1>10 DEF Accepted
  <2>11. owner' = owner
    BY <2>1
  <2>2. started \in BOOLEAN /\ (started => run[r].started \/ report.started)
    OBVIOUS
  <2>3. /\ state \in {"running"} \cup Finished
        /\ state # "running" => report.state # "running"
    BY <1>3, <1>10 DEF Report, Finished
  <2> HIDE DEF state, started
  <2>4. /\ run' \in [Run -> [state: RunState, started: BOOLEAN]]
        /\ run'[r].state = state /\ run'[r].started = started
        /\ \A q \in Run : q # r => run'[q] = run[q]
    BY <1>6, <2>1, <2>2, <2>3 DEF RunState
  <2>5. state # "running" =>
          ~Unfinished(local[n][r]) /\ thread[n][r] = "idle" /\ group[n][r] = "none"
    <3> SUFFICES ASSUME state # "running"
                 PROVE  ~Unfinished(local[n][r]) /\ thread[n][r] = "idle" /\ group[n][r] = "none"
      OBVIOUS
    <3>1. ~Unfinished(local[n][r])
      BY <1>3, <2>3 DEF Unfinished
    <3> QED BY <3>1 DEF IInv, Held, HeldAt
  <2>6. Shape'
    BY <1>11, <1>4, <2>1, <2>4 DEF IInv, Shape
  <2>7. CustodyFenced'
    <3> SUFFICES ASSUME NEW k \in Node, NEW q \in Run,
                        \/ Unfinished(local[k][q]) \/ thread[k][q] # "idle"
                        \/ group[k][q] # "none"
                 PROVE  /\ run'[q].state \in {"pending", "running"}
                        /\ owner[q].node = k /\ owner[q].gen = local[k][q].gen
      BY <1>11, <1>4, <2>11 DEF CustodyFenced, Unfinished, Active
    <3>1. Active(q) /\ owner[q].node = k /\ owner[q].gen = local[k][q].gen
      BY DEF IInv, CustodyFenced
    <3> QED BY <1>3, <2>4, <2>5, <3>1 DEF Active
  <2>8. Occurrences'
    BY <2>1, <2>3, <2>4 DEF IInv, Occurrences, FansOut, Parts, Finished
  <2>9. Generations'
    BY <1>4, <2>1 DEF IInv, Generations
  <2>10. StartedByOwner'
    <3> SUFFICES ASSUME NEW q \in Run, (run'[q].started /\ ~FansOut(q)) \/ prompts[q] > 0
                 PROVE  /\ owner[q].node \in Node
                        /\ local[owner[q].node][q].gen = owner[q].gen
                        /\ local[owner[q].node][q].report.started
      BY <1>11, <1>4, <2>11 DEF StartedByOwner, FansOut, Parts
    <3>1. CASE q = r /\ report.started
      BY <1>3, <3>1
    <3>2. CASE ~(q = r /\ report.started)
      BY <2>2, <2>4, <3>2 DEF IInv, StartedByOwner
    <3> QED BY <3>1, <3>2
  <2> QED BY <1>5, <2>6, <2>7, <2>8, <2>9, <2>10 DEF IInv
<1> QED BY <1>8, <1>9, <1>10

-----------------------------------------------------------------------------
\* Nothing has happened yet.
LEMMA Initially == Init => IInv
<1> SUFFICES ASSUME Init PROVE IInv
  OBVIOUS
<1>1. /\ \A r \in Run : /\ run[r] = [state |-> "none", started |-> FALSE]
                        /\ owner[r] = [node |-> None, gen |-> 0, revoking |-> FALSE,
                                       stop |-> FALSE]
                        /\ prompts[r] = 0
      /\ \A n \in Node, r \in Run : /\ local[n][r] = NoExecution /\ thread[n][r] = "idle"
                                    /\ group[n][r] = "none"
  BY DEF Init
<1>2. /\ NoExecution \in Execution /\ NoExecution.gen = 0 /\ ~NoExecution.revoke
      /\ NoExecution.report.state = "pending" /\ ~NoExecution.report.started
      /\ ~NoExecution.report.early
  BY DEF NoExecution, Execution, Report, Pending
<1>3. Shape
  BY <1>2 DEF Init, Shape, RunState
<1>4. CustodyFenced
  BY <1>1, <1>2 DEF CustodyFenced, Unfinished
<1>5. Occurrences /\ Generations
  BY <1>1, <1>2 DEF Occurrences, Generations
<1>6. Held /\ Starts
  BY <1>1, <1>2 DEF Held, HeldAt, Starts, StartsAt
<1>7. StartedByOwner /\ Submissions
  BY <1>1, <1>2 DEF StartedByOwner, Submissions, SubmittedAt
<1> QED BY <1>3, <1>4, <1>5, <1>6, <1>7 DEF IInv

\* Every step keeps the invariant.
LEMMA StepKeeps == IInv /\ [Next]_vars => IInv'
<1> SUFFICES ASSUME IInv, [Next]_vars PROVE IInv'
  OBVIOUS
<1>1. CASE \E r \in Run : Enqueue(r) \/ Expand(r) \/ ReconcileGroup(r) \/ Revoke(r) \/ Stop(r)
  BY <1>1, EnqueueKeeps, ExpandKeeps, ReconcileGroupKeeps, RevokeKeeps, StopKeeps
<1>2. CASE \E r \in Run, n \in Node : Assign(r, n)
  BY <1>2, AssignKeeps
<1>3. CASE \E n \in Node : Crash(n)
  BY <1>3, CrashKeeps
<1>4. ASSUME NEW n \in Node, NEW r \in Run, Dispatched(n, r) \/ ReportArrives(n, r)
      PROVE  IInv'
  BY <1>4, DispatchedKeeps, ReportArrivesKeeps
<1>5. ASSUME NEW n \in Node, NEW r \in Run, Execute(n, r)
      PROVE  IInv'
  <2>1. PICK gen \in 1 .. MaxGeneration[r] :
          Recover(n, r, gen) \/ Release(n, r, gen) \/ Take(n, r, gen)
    BY <1>5 DEF Execute
  <2>2. gen \in Nat
    BY JobsAssumption
  <2> QED BY <2>1, <2>2, RecoverKeeps, ReleaseKeeps, TakeKeeps
<1>6. ASSUME NEW n \in Node, NEW r \in Run, Step(n, r)
      PROVE  IInv'
  BY <1>6, LaunchKeeps, StopUnsubmittedKeeps, IntendKeeps, PromptKeeps, ConcludeKeeps,
     FailKeeps, GiveUpKeeps DEF Step
<1>7. ASSUME NEW n \in Node, NEW r \in Run, LeaderExits(n, r) \/ OrphansExit(n, r)
      PROVE  IInv'
  <2>1. group[n][r] # "none" /\ UNCHANGED <<run, owner, local, thread, prompts>>
    BY <1>7 DEF LeaderExits, OrphansExit, supervisor
  <2>2. \E left \in {"none", "orphans"} : group' = [group EXCEPT ![n][r] = left]
    BY <1>7 DEF LeaderExits, OrphansExit
  <2> QED BY <2>1, <2>2, ExitKeeps
<1>8. CASE UNCHANGED vars
  <2>1. UNCHANGED <<run, owner, local, thread, group, prompts>>
    BY <1>8 DEF vars
  <2>2. Shape' /\ CustodyFenced' /\ Occurrences' /\ Generations'
    <3>1. Shape'
      BY <2>1 DEF IInv, Shape
    <3>2. CustodyFenced'
      BY <2>1 DEF IInv, CustodyFenced, Unfinished, Active
    <3>3. Occurrences'
      BY <2>1 DEF IInv, Occurrences, FansOut, Parts
    <3>4. Generations'
      BY <2>1 DEF IInv, Generations, Unfinished, Active, FansOut, Parts
    <3> QED BY <3>1, <3>2, <3>3, <3>4
  <2>3. Held' /\ Starts' /\ StartedByOwner' /\ Submissions'
    <3>1. Held'
      BY <2>1 DEF IInv, Held, HeldAt, Unfinished, FansOut, Parts
    <3>2. Starts'
      BY <2>1 DEF IInv, Starts, StartsAt, Unfinished
    <3>3. StartedByOwner'
      BY <2>1 DEF IInv, StartedByOwner, Unfinished
    <3>4. Submissions'
      BY <2>1 DEF IInv, Submissions, SubmittedAt, Unfinished
    <3> QED BY <3>1, <3>2, <3>3, <3>4
  <2> QED BY <2>2, <2>3 DEF IInv
<1> QED BY <1>1, <1>2, <1>3, <1>4, <1>5, <1>6, <1>7, <1>8 DEF Next

\* The invariant holds for every number of machines, runs, crashes and stops.
THEOREM Inductive == Spec => []IInv
BY Initially, StepKeeps, PTL DEF Spec

\* The number of crashes that the model allows.
CrashesCounted == crashes \in 0 .. MaxCrashes

\* Only crashes are counted.
LEMMA OnlyCrashesCount ==
  ASSUME [Next]_vars, ~(\E n \in Node : Crash(n))
  PROVE  crashes' = crashes
<1>1. CASE \E r \in Run : Enqueue(r) \/ Expand(r) \/ ReconcileGroup(r) \/ Revoke(r) \/ Stop(r)
  BY <1>1 DEF machines, Enqueue, Expand, ReconcileGroup, Revoke, Stop
<1>2. CASE \E r \in Run, n \in Node : Assign(r, n)
  BY <1>2 DEF machines, Assign
<1>3. ASSUME NEW n \in Node, NEW r \in Run, Dispatched(n, r) \/ ReportArrives(n, r)
      PROVE  crashes' = crashes
  BY <1>3 DEF Dispatched, Receive, ReportArrives, AcceptReport
<1>4. ASSUME NEW n \in Node, NEW r \in Run, Execute(n, r)
      PROVE  crashes' = crashes
  BY <1>4 DEF Execute, Recover, Release, Take
<1>5. ASSUME NEW n \in Node, NEW r \in Run, Step(n, r)
      PROVE  crashes' = crashes
  BY <1>5 DEF Step, Launch, StopUnsubmitted, Intend, Prompt, Conclude, Fail, GiveUp
<1>6. ASSUME NEW n \in Node, NEW r \in Run, LeaderExits(n, r) \/ OrphansExit(n, r)
      PROVE  crashes' = crashes
  BY <1>6 DEF LeaderExits, OrphansExit
<1> QED BY <1>1, <1>2, <1>3, <1>4, <1>5, <1>6 DEF Next, vars

\* Every variable has its type; the crashes of workers are bounded.
THEOREM TypeCorrect == Spec => []TypeOK
<1>1. Init => CrashesCounted
  BY JobsAssumption DEF Init, CrashesCounted
<1>2. CrashesCounted /\ [Next]_vars => CrashesCounted'
  <2> SUFFICES ASSUME CrashesCounted, [Next]_vars PROVE CrashesCounted'
    OBVIOUS
  <2>1. CASE \E n \in Node : Crash(n)
    BY <2>1, JobsAssumption DEF Crash, CrashesCounted
  <2>2. CASE ~(\E n \in Node : Crash(n))
    BY <2>2, OnlyCrashesCount DEF CrashesCounted
  <2> QED BY <2>1, <2>2
<1>3. IInv /\ CrashesCounted => TypeOK
  BY DEF IInv, Shape, TypeOK, CrashesCounted
<1> QED BY <1>1, <1>2, <1>3, Inductive, PTL DEF Spec

\* Whatever a machine still has in its hands belongs to an open run whose owner
\* it is, under the generation it was dispatched with: reports, revocations and
\* releases keep custody fenced without any agreement (accept_job_report).
THEOREM Custody == Spec => []CustodyFenced
<1>1. IInv => CustodyFenced
  BY DEF IInv
<1> QED BY <1>1, Inductive, PTL

\* Instructions of a run are submitted at most once, over all machines, crashes
\* and generations (run_session stores the intent first).
THEOREM SubmittedOnce == Spec => [](\A r \in Run : prompts[r] <= 1)
<1>1. IInv => \A r \in Run : prompts[r] <= 1
  BY DEF IInv, Submissions
<1> QED BY <1>1, Inductive, PTL

\* The supervisor accepts whatever the owner of an open run reports, when no
\* clock is behind its own: a release follows its revocation and tells of no start,
\* and no other report hides one (accept_job_report against finish).
THEOREM Acceptable == ASSUME Slow = {} PROVE Spec => []ReportsAcceptable
<1>1. ASSUME IInv PROVE ReportsAcceptable
  <2> SUFFICES ASSUME NEW n \in Node, NEW r \in Run,
                      ~Fenced(n, r, local[n][r].gen), Active(r),
                      local[n][r].report.state # "pending", Refused(r, local[n][r].report)
               PROVE  FALSE
    BY DEF ReportsAcceptable
  <2> DEFINE report == local[n][r].report
  <2>1. StartsAt(n, r)
    BY <1>1 DEF IInv, Starts
  <2>2. owner[r].node = n /\ owner[r].gen = local[n][r].gen
    BY DEF Fenced
  <2>3. ~report.early
    BY <2>1 DEF StartsAt
  <2>4. CASE report.state = "released" /\ (~owner[r].revoking \/ report.started \/ run[r].started)
    <3>1. local[n][r].revoke /\ ~report.started
      BY <2>1, <2>4 DEF StartsAt
    <3>2. owner[r].revoking
      BY <1>1, <2>2, <3>1 DEF IInv, Generations
    <3>3. ~FansOut(r)
      BY <1>1, <2>2, JobsAssumption DEF IInv, Occurrences
    <3>4. ~run[r].started
      BY <1>1, <2>2, <3>1, <3>3 DEF IInv, StartedByOwner
    <3> QED BY <2>4, <3>1, <3>2, <3>4
  <2>5. CASE report.state \in {"running", "succeeded"} /\ ~report.started
    BY <2>1, <2>5 DEF StartsAt
  <2> QED BY <2>3, <2>4, <2>5 DEF Refused
<1> QED BY <1>1, Inductive, PTL

-----------------------------------------------------------------------------
(* The promise of SingleExecution. *)

\* The state of the promise.
Phase == [r \in Run |-> CASE run[r].state = "none" -> "absent"
                          [] Active(r)             -> "open"
                          [] OTHER                 -> run[r].state]
Home == [r \in Run |-> {n \in Node : group[n][r] # "none"}]

\* Phases of runs, before and after a step.
LEMMA Phases ==
  ASSUME Shape, NEW r \in Run
  PROVE  /\ Phase[r] = "absent" <=> run[r].state = "none"
         /\ Phase[r] = "open" <=> Active(r)
         /\ ~Active(r) /\ run[r].state # "none" => Phase[r] = run[r].state
<1>1. run[r].state \in RunState
  BY DEF Shape
<1>2. Phase[r] = CASE run[r].state = "none" -> "absent"
                   [] Active(r)             -> "open"
                   [] OTHER                 -> run[r].state
  BY DEF Phase
<1>3. CASE run[r].state = "none"
  BY <1>2, <1>3 DEF Active
<1>4. CASE Active(r)
  BY <1>2, <1>4 DEF Active
<1>5. CASE run[r].state # "none" /\ ~Active(r)
  BY <1>1, <1>2, <1>5 DEF Active, RunState, Finished
<1> QED BY <1>3, <1>4, <1>5

\* A step that changes neither a phase nor a home nor a submission.
LEMMA Stutters ==
  ASSUME \A r \in Run : Active(r)' = Active(r) /\ (run'[r].state = run[r].state \/ Active(r)),
         \A n \in Node, r \in Run : group'[n][r] = "none" <=> group[n][r] = "none",
         UNCHANGED prompts
  PROVE  UNCHANGED Promise!vars
<1>1. Phase' = Phase
  BY DEF Phase, Active
<1>2. Home' = Home
  BY DEF Home
<1> QED BY <1>1, <1>2 DEF Promise!vars, Phase, Home

\* An occurrence begins or is skipped.
LEMMA EnqueueBegins ==
  ASSUME IInv, IInv', NEW r \in Run, Enqueue(r)
  PROVE  Promise!Begin(r)
<1> DEFINE overlap == \E q \in Run : Active(q)
<1>1. /\ run[r].state = "none" /\ Parent[r] = r
      /\ run' = [run EXCEPT ![r].state = IF overlap THEN "skipped" ELSE "pending"]
      /\ UNCHANGED machines
  BY DEF Enqueue
<1>2. Shape /\ Shape'
  BY DEF IInv
<1>3. overlap <=> \E q \in Run : Phase[q] = "open"
  BY <1>2, Phases
<1> HIDE DEF overlap
<1>4. /\ run'[r].state = IF overlap THEN "skipped" ELSE "pending"
      /\ \A q \in Run : q # r => run'[q] = run[q]
  BY <1>1, <1>2 DEF Shape
<1>5. \A q \in Run : Phase'[q] = IF q = r THEN IF overlap THEN "skipped" ELSE "open"
                                 ELSE Phase[q]
  BY <1>4 DEF Phase, Active
<1>6. Phase' = [Phase EXCEPT ![r] = IF overlap THEN "skipped" ELSE "open"]
  <2>1. Phase = [q \in Run |-> Phase[q]] /\ Phase' = [q \in Run |-> Phase'[q]]
    BY DEF Phase
  <2> QED BY <1>5, <2>1
<1>7. Phase[r] = "absent"
  BY <1>1, <1>2, Phases
<1>8. Home' = Home /\ prompts' = prompts
  BY <1>1 DEF machines, Home
<1>9. Phase' = [Phase EXCEPT ![r] = IF \E q \in Run : Phase[q] = "open" THEN "skipped" ELSE "open"]
  BY <1>3, <1>6
<1> QED BY <1>1, <1>7, <1>8, <1>9 DEF Promise!Begin, Promise!Open, Phase, Home

\* An occurrence is divided.
LEMMA ExpandDivides ==
  ASSUME IInv, IInv', NEW r \in Run, Expand(r)
  PROVE  Promise!Divide(r)
<1>1. /\ run[r].state = "pending" /\ Parts(r) # {}
      /\ \A c \in Parts(r) : run[c].state = "none"
      /\ run' = [q \in Run |-> IF q \in Parts(r) THEN [run[q] EXCEPT !.state = "pending"]
                               ELSE run[q]]
      /\ UNCHANGED machines
  BY DEF Expand, FansOut
<1>2. Shape /\ Shape' /\ Promise!Parts(r) = Parts(r) /\ Parts(r) \subseteq Run
  BY DEF IInv, Promise!Parts, Parts
<1>3. \A q \in Run : Phase'[q] = IF q \in Parts(r) THEN "open" ELSE Phase[q]
  <2>1. \A q \in Run : run'[q].state = IF q \in Parts(r) THEN "pending" ELSE run[q].state
    BY <1>1, <1>2 DEF Shape
  <2> QED BY <2>1 DEF Phase, Active
<1>4. Phase' = [q \in Run |-> IF q \in Parts(r) THEN "open" ELSE Phase[q]]
  BY <1>3 DEF Phase
<1>5. /\ Phase[r] = "open"
      /\ \A c \in Parts(r) : Phase[c] = "absent"
  BY <1>1, <1>2, Phases DEF Active
<1>6. Home' = Home /\ prompts' = prompts
  BY <1>1 DEF machines, Home
<1> HIDE DEF Parts
<1>7. Phase[r] = "open" /\ Promise!Parts(r) # {}
  BY <1>1, <1>2, <1>5
<1>8. /\ \A c \in Promise!Parts(r) : Phase[c] = "absent"
      /\ Phase' = [q \in Run |-> IF q \in Promise!Parts(r) THEN "open" ELSE Phase[q]]
  BY <1>2, <1>4, <1>5
<1> QED BY <1>6, <1>7, <1>8 DEF Promise!Divide, Promise!Open, Phase, Home

\* Open runs end that nobody has in hands and whose parts have ended.
LEMMA Ends ==
  ASSUME IInv, IInv', NEW R \in SUBSET Run, R # {},
         \A r \in R : /\ Active(r) /\ run'[r].state \in Finished
                      /\ \A n \in Node : group[n][r] = "none"
                      /\ run'[r].state = "succeeded" =>
                           Parts(r) # {} \/ (Parts(r) = {} /\ prompts[r] = 1)
                      /\ \A c \in Parts(r) :
                           /\ ~Active(c)
                           /\ run'[r].state = "succeeded" => run[c].state = "succeeded",
         \A q \in Run : q \notin R => run'[q].state = run[q].state,
         UNCHANGED <<group, prompts>>
  PROVE  Promise!End(R)
<1>1. Shape /\ Shape' /\ \A r \in Run : Promise!Parts(r) = Parts(r) /\ Parts(r) \subseteq Run
  BY DEF IInv, Promise!Parts, Parts
<1>2. \A q \in Run : q \notin R => Phase'[q] = Phase[q]
  BY DEF Phase, Active
<1>3. Phase' = [r \in Run |-> IF r \in R THEN Phase'[r] ELSE Phase[r]]
  BY <1>2 DEF Phase
<1>4. \A r \in R : Phase'[r] = run'[r].state
  BY DEF Phase, Active, Finished
<1>5. ASSUME NEW r \in R
      PROVE  /\ Phase[r] = "open" /\ Home[r] = {} /\ Phase'[r] \in Finished
             /\ Phase'[r] = "succeeded" =>
                  \/ Parts(r) = {} /\ prompts[r] = 1
                  \/ Parts(r) # {}
             /\ \A c \in Parts(r) :
                  Phase[c] # "open" /\ (Phase'[r] = "succeeded" => Phase[c] = "succeeded")
  <2>1. Phase[r] = "open" /\ Home[r] = {}
    BY <1>1, Phases DEF Home
  <2>2. ASSUME NEW c \in Parts(r)
        PROVE  Phase[c] # "open" /\ (Phase'[r] = "succeeded" => Phase[c] = "succeeded")
    <3>1. c \in Run /\ ~Active(c)
      BY <1>1
    <3>2. Phase[c] # "open"
      BY <1>1, <3>1, Phases
    <3>3. ASSUME Phase'[r] = "succeeded" PROVE Phase[c] = "succeeded"
      <4>1. run[c].state = "succeeded"
        BY <1>4, <3>3
      <4> QED BY <1>1, <3>1, <4>1, Phases
    <3> QED BY <3>2, <3>3
  <2> QED BY <1>4, <2>1, <2>2
<1>6. Home' = Home
  BY DEF Home
<1> HIDE DEF Parts
<1>7. \A r \in R :
       /\ Phase[r] = "open" /\ Home[r] = {} /\ Phase'[r] \in Promise!Outcome
       /\ Phase'[r] = "succeeded" => \/ Promise!Parts(r) = {} /\ prompts[r] = 1
                                     \/ Promise!Parts(r) # {}
       /\ \A c \in Promise!Parts(r) :
            ~(Phase[c] = "open") /\ (Phase'[r] = "succeeded" => Phase[c] = "succeeded")
  BY <1>1, <1>5 DEF Promise!Outcome, Finished
<1>8. UNCHANGED <<Home, prompts>>
  BY <1>6
<1> QED BY <1>3, <1>7, <1>8 DEF Promise!End, Promise!Open, Phase, Home

\* An occurrence ends with its parts, or goes on.
LEMMA ReconcileGroupImplements ==
  ASSUME IInv, IInv', NEW r \in Run, ReconcileGroup(r)
  PROVE  Promise!End({r}) \/ UNCHANGED Promise!vars
<1> DEFINE over == \A c \in Parts(r) : ~Active(c)
           started == \E c \in Parts(r) : run[c].started
           state == IF over THEN GroupOutcome(r) ELSE IF started THEN "running" ELSE "pending"
<1>1. /\ Active(r) /\ Parts(r) # {}
      /\ \A c \in Parts(r) : run[c].state # "none"
      /\ run' = [run EXCEPT ![r] = [state |-> state, started |-> started]]
      /\ owner' = owner /\ UNCHANGED machines
  BY DEF ReconcileGroup, FansOut
<1>2. /\ UNCHANGED <<group, prompts>> /\ Shape /\ Parts(r) \subseteq Run
      /\ \A c \in Parts(r) : Parent[c] # c
  BY <1>1 DEF machines, IInv, Parts
<1>3. \A n \in Node : group[n][r] = "none"
  <2>1. owner[r].node = None
    BY <1>1 DEF IInv, Occurrences, FansOut
  <2> QED BY <2>1, Ownerless
<1>4. /\ state = "succeeded" => \A c \in Parts(r) : run[c].state = "succeeded"
      /\ over => state \in Finished
      /\ ~over => state \in {"running", "pending"}
  <2>1. over => state \in Finished
    BY DEF GroupOutcome, Finished
  <2>2. ~over => state \in {"running", "pending"}
    OBVIOUS
  <2>3. ASSUME state = "succeeded", NEW c \in Parts(r) PROVE run[c].state = "succeeded"
    <3>1. over /\ GroupOutcome(r) = "succeeded"
      BY <2>3
    <3>2. run[c].state \notin {"failed", "cancelled"}
      BY <3>1 DEF GroupOutcome
    <3>3. run[c].state # "skipped"
      BY <1>2 DEF IInv, Occurrences
    <3>4. run[c].state \in RunState
      BY <1>2 DEF Shape
    <3> QED BY <1>1, <3>1, <3>2, <3>3, <3>4 DEF RunState, Active, Finished
  <2> QED BY <2>1, <2>2, <2>3
<1> HIDE DEF state, started
<1>5. /\ run'[r].state = state
      /\ \A q \in Run : q # r => run'[q] = run[q]
  BY <1>1, <1>2 DEF Shape
<1>6. CASE over
  <2> DEFINE R == {r}
  <2>1. R \in SUBSET Run /\ R # {} /\ \A q : q \in R <=> q = r
    OBVIOUS
  <2> HIDE DEF R, over
  <2>2. \A q \in R : /\ Active(q) /\ run'[q].state \in Finished
                     /\ \A n \in Node : group[n][q] = "none"
                     /\ run'[q].state = "succeeded" =>
                          Parts(q) # {} \/ (Parts(q) = {} /\ prompts[q] = 1)
                     /\ \A c \in Parts(q) :
                          /\ ~Active(c)
                          /\ run'[q].state = "succeeded" => run[c].state = "succeeded"
    BY <1>1, <1>3, <1>4, <1>5, <1>6, <2>1 DEF over
  <2>3. \A q \in Run : q \notin R => run'[q].state = run[q].state
    BY <1>5, <2>1
  <2>4. Promise!End(R)
    BY <1>2, <2>1, <2>2, <2>3, Ends
  <2> QED BY <2>4 DEF R
<1>7. CASE ~over
  <2>1. run'[r].state \in {"running", "pending"}
    BY <1>4, <1>5, <1>7
  <2>2. \A q \in Run : Active(q)' = Active(q) /\ (run'[q].state = run[q].state \/ Active(q))
    BY <1>1, <1>5, <2>1 DEF Active
  <2> QED BY <1>2, <2>2, Stutters
<1> QED BY <1>6, <1>7

\* A stop ends the runs that nobody has in hands, or only asks the owners.
LEMMA StopImplements ==
  ASSUME IInv, IInv', NEW r \in Run, Stop(r)
  PROVE  (\E R \in SUBSET Run : Promise!End(R)) \/ UNCHANGED Promise!vars
<1> DEFINE stopped == {q \in {r} \cup Parts(r) : Active(q)}
           parts(q) == {c \in Parts(q) : run[c].state # "none"}
           R == {q \in stopped : owner[q].node = None /\ parts(q) = {}}
<1>1. /\ run' = [q \in Run |->
                   IF q \in stopped /\ owner[q].node = None /\ parts(q) = {}
                   THEN [run[q] EXCEPT !.state = "cancelled"] ELSE run[q]]
      /\ UNCHANGED machines
  BY DEF Stop
<1>2. run' = [q \in Run |-> IF q \in R
                            THEN [run[q] EXCEPT !.state = "cancelled"] ELSE run[q]]
  BY <1>1
<1>3. \A q \in R : /\ q \in Run /\ owner[q].node = None /\ Active(q)
                   /\ \A c \in Parts(q) : run[c].state = "none"
  BY DEF Parts
<1>4. UNCHANGED <<group, prompts>> /\ Shape
  BY <1>1 DEF machines, IInv
<1> HIDE DEF stopped, parts, R
<1>8. PICK S \in SUBSET Run : S = R
  BY <1>3
<1>5. \A q \in Run : run'[q].state = IF q \in S THEN "cancelled" ELSE run[q].state
  BY <1>2, <1>4, <1>8 DEF Shape
<1>6. CASE S = {}
  <2>1. \A q \in Run : Active(q)' = Active(q) /\ (run'[q].state = run[q].state \/ Active(q))
    BY <1>5, <1>6 DEF Active
  <2> QED BY <1>4, <2>1, Stutters
<1>7. CASE S # {}
  <2>1. \A q \in S : /\ Active(q) /\ run'[q].state \in Finished
                     /\ \A n \in Node : group[n][q] = "none"
                     /\ run'[q].state = "succeeded" =>
                          Parts(q) # {} \/ (Parts(q) = {} /\ prompts[q] = 1)
                     /\ \A c \in Parts(q) :
                          /\ ~Active(c)
                          /\ run'[q].state = "succeeded" => run[c].state = "succeeded"
    BY <1>3, <1>5, <1>8, Ownerless DEF Active, Finished
  <2>3. \A q \in Run : q \notin S => run'[q].state = run[q].state
    BY <1>5
  <2>4. Promise!End(S)
    BY <1>4, <1>7, <2>1, <2>3, Ends
  <2> QED BY <2>4
<1> QED BY <1>6, <1>7

\* A report ends its run, or changes nothing that was promised.
LEMMA ReportArrivesImplements ==
  ASSUME IInv, IInv', NEW n \in Node, NEW r \in Run, ReportArrives(n, r)
  PROVE  Promise!End({r}) \/ UNCHANGED Promise!vars
<1>1. PICK m \in Reports(n, r), delivered \in BOOLEAN :
        AcceptReport(n, r, m.gen, m.report, delivered)
  BY DEF ReportArrives
<1> DEFINE report == m.report
<1>2. /\ ~Fenced(n, r, m.gen)
      /\ IF Active(r) THEN Accepted(r, report) ELSE UNCHANGED supervisor
      /\ UNCHANGED <<thread, group, prompts>>
  BY <1>1 DEF AcceptReport
<1>3. /\ owner[r].node = n
      /\ report \in Report /\ report.state # "pending"
      /\ report.state # "running" => report = local[n][r].report
      /\ owner[r].gen = m.gen /\ m.gen = local[n][r].gen
  BY <1>2, Unfenced
<1> HIDE DEF report
<1>4. Shape /\ UNCHANGED <<group, prompts>>
  BY <1>2 DEF IInv
<1>5. CASE UNCHANGED run
  <2>1. \A q \in Run : Active(q)' = Active(q) /\ (run'[q].state = run[q].state \/ Active(q))
    BY <1>5 DEF Active
  <2> QED BY <1>4, <2>1, Stutters
<1>6. CASE Active(r) /\ ~(report.state = "released" /\ ~owner[r].stop)
  <2> DEFINE state == IF report.state = "running" THEN "running"
                      ELSE IF owner[r].stop THEN "cancelled" ELSE report.state
             started == run[r].started \/ report.started
  <2>1. run' = [run EXCEPT ![r].started = started, ![r].state = state]
    BY <1>2, <1>6 DEF Accepted
  <2>2. /\ state \in {"running"} \cup Finished
        /\ state # "running" => report.state # "running"
        /\ state = "succeeded" => report.state = "succeeded"
    BY <1>3, <1>6 DEF Report, Finished
  <2> HIDE DEF state, started
  <2>3. /\ run'[r].state = state
        /\ \A q \in Run : q # r => run'[q] = run[q]
    BY <1>4, <2>1 DEF Shape
  <2>4. CASE state = "running"
    <3>1. \A q \in Run : Active(q)' = Active(q) /\ (run'[q].state = run[q].state \/ Active(q))
      BY <1>6, <2>3, <2>4 DEF Active
    <3> QED BY <1>4, <3>1, Stutters
  <2>5. CASE state # "running"
    <3> DEFINE R == {r}
    <3>1. R \in SUBSET Run /\ R # {} /\ \A q : q \in R <=> q = r
      OBVIOUS
    <3> HIDE DEF R
    <3>2. ~Unfinished(local[n][r])
      BY <1>3, <2>2, <2>5 DEF Unfinished
    <3>3. \A k \in Node : group[k][r] = "none"
      <4>1. group[n][r] = "none"
        BY <3>2 DEF IInv, Held, HeldAt
      <4>2. \A k \in Node : k # n => group[k][r] = "none"
        BY <1>3 DEF IInv, CustodyFenced
      <4> QED BY <4>1, <4>2
    <3>4. Parts(r) = {}
      <4>1. owner[r].node # None
        BY <1>3, JobsAssumption
      <4> QED BY <4>1 DEF IInv, Occurrences, FansOut
    <3>5. state = "succeeded" => prompts[r] = 1
      BY <1>3, <2>2 DEF IInv, Submissions, SubmittedAt
    <3>6. \A q \in R : /\ Active(q) /\ run'[q].state \in Finished
                       /\ \A k \in Node : group[k][q] = "none"
                       /\ run'[q].state = "succeeded" =>
                            Parts(q) # {} \/ (Parts(q) = {} /\ prompts[q] = 1)
                       /\ \A c \in Parts(q) :
                            /\ ~Active(c)
                            /\ run'[q].state = "succeeded" => run[c].state = "succeeded"
      BY <1>6, <2>2, <2>3, <2>5, <3>1, <3>3, <3>4, <3>5
    <3>7. \A q \in Run : q \notin R => run'[q].state = run[q].state
      BY <2>3, <3>1
    <3>8. Promise!End(R)
      BY <1>4, <3>1, <3>6, <3>7, Ends
    <3> QED BY <3>8 DEF R
  <2> QED BY <2>4, <2>5
<1>7. CASE ~(Active(r) /\ ~(report.state = "released" /\ ~owner[r].stop))
  BY <1>2, <1>5, <1>7 DEF Accepted, supervisor
<1> QED BY <1>6, <1>7

\* The machines' side: launches, submissions and ends of processes.
LEMMA LaunchImplements ==
  ASSUME IInv, IInv', NEW n \in Node, NEW r \in Run, Launch(n, r)
  PROVE  Promise!Launch(r, n)
<1>1. /\ thread[n][r] = "owned"
      /\ group' = [group EXCEPT ![n][r] = "leader"]
      /\ UNCHANGED <<run, prompts>>
  BY DEF Launch, supervisor
<1>2. /\ Shape /\ HeldAt(n, r)
      /\ Active(r) /\ owner[r].node = n
  BY <1>1 DEF IInv, Held, CustodyFenced
<1>3. \A k \in Node : group[k][r] = "none"
  <2>1. \A k \in Node : k # n => group[k][r] = "none"
    BY <1>2 DEF IInv, CustodyFenced
  <2> QED BY <1>1, <1>2, <2>1 DEF HeldAt
<1>4. /\ group'[n][r] = "leader"
      /\ \A m \in Node, q \in Run : m # n \/ q # r => group'[m][q] = group[m][q]
  BY <1>1, <1>2 DEF Shape
<1>5. \A q \in Run : Home'[q] = IF q = r THEN {n} ELSE Home[q]
  BY <1>3, <1>4 DEF Home
<1>6. Home' = [Home EXCEPT ![r] = {n}]
  BY <1>5 DEF Home
<1>7. Phase[r] = "open" /\ Home[r] = {}
  BY <1>2, <1>3, Phases DEF Home
<1>8. UNCHANGED <<Phase, prompts>>
  BY <1>1 DEF Phase, Active
<1> QED BY <1>6, <1>7, <1>8 DEF Promise!Launch, Promise!Open, Phase, Home

\* The only submission of a run.
LEMMA PromptImplements ==
  ASSUME IInv, IInv', NEW n \in Node, NEW r \in Run, Prompt(n, r)
  PROVE  Promise!Submit(r)
<1>1. /\ thread[n][r] = "intent"
      /\ prompts' = [prompts EXCEPT ![r] = @ + 1]
      /\ UNCHANGED <<run, group>>
  BY DEF Prompt, supervisor
<1>2. Shape /\ Active(r) /\ prompts[r] = 0
  BY <1>1 DEF IInv, CustodyFenced, Submissions, SubmittedAt
<1>3. prompts' = [prompts EXCEPT ![r] = 1]
  BY <1>1, <1>2 DEF Shape
<1>4. Phase[r] = "open"
  BY <1>2, Phases
<1>5. UNCHANGED <<Phase, Home>>
  BY <1>1 DEF Phase, Active, Home
<1> QED BY <1>2, <1>3, <1>4, <1>5 DEF Promise!Submit, Promise!Open, Phase, Home

\* A process group ends, or lives on in other shape.
LEMMA ExitImplements ==
  ASSUME IInv, IInv', NEW n \in Node, NEW r \in Run, NEW left \in {"none", "orphans"},
         group' = [group EXCEPT ![n][r] = left], left = "none" \/ group[n][r] # "none",
         UNCHANGED <<run, prompts>>
  PROVE  Promise!Exit(r) \/ UNCHANGED Promise!vars
<1>1. /\ group'[n][r] = left
      /\ \A m \in Node, q \in Run : m # n \/ q # r => group'[m][q] = group[m][q]
  BY DEF IInv, Shape
<1>2. CASE left = "none" <=> group[n][r] = "none"
  <2>1. \A m \in Node, q \in Run : group'[m][q] = "none" <=> group[m][q] = "none"
    BY <1>1, <1>2
  <2>2. \A q \in Run : Active(q)' = Active(q) /\ (run'[q].state = run[q].state \/ Active(q))
    BY DEF Active
  <2> QED BY <2>1, <2>2, Stutters
<1>3. CASE left = "none" /\ group[n][r] # "none"
  <2>1. owner[r].node = n
    BY <1>3 DEF IInv, CustodyFenced
  <2>2. \A m \in Node : group'[m][r] = "none"
    BY <1>1, <1>3, <2>1 DEF IInv, CustodyFenced
  <2>3. \A q \in Run : Home'[q] = IF q = r THEN {} ELSE Home[q]
    BY <1>1, <2>2 DEF Home
  <2>4. Home' = [Home EXCEPT ![r] = {}]
    BY <2>3 DEF Home
  <2>5. Home[r] # {}
    BY <1>3 DEF Home
  <2>6. UNCHANGED <<Phase, prompts>>
    BY DEF Phase, Active
  <2> QED BY <2>4, <2>5, <2>6 DEF Promise!Exit, Phase, Home
<1> QED BY <1>2, <1>3

\* Other steps of machines and of the supervisor are not seen in the promise.
LEMMA UnseenImplements ==
  ASSUME UNCHANGED <<run, group, prompts>>
  PROVE  UNCHANGED Promise!vars
<1>1. \A q \in Run : Active(q)' = Active(q) /\ (run'[q].state = run[q].state \/ Active(q))
  BY DEF Active
<1> QED BY <1>1, Stutters

\* Every step of the jobs is a step of the promise, or changes nothing in it.
LEMMA StepImplements == IInv /\ IInv' /\ [Next]_vars => [Promise!Next]_(Promise!vars)
<1> SUFFICES ASSUME IInv, IInv', [Next]_vars
             PROVE  Promise!Next \/ UNCHANGED Promise!vars
  OBVIOUS
<1>1. ASSUME NEW r \in Run, Enqueue(r) \/ Expand(r)
      PROVE  Promise!Next
  BY <1>1, EnqueueBegins, ExpandDivides DEF Promise!Next
<1>2. ASSUME NEW r \in Run, ReconcileGroup(r) \/ Stop(r)
      PROVE  Promise!Next \/ UNCHANGED Promise!vars
  <2>1. {r} \in SUBSET Run
    OBVIOUS
  <2>2. (\E R \in SUBSET Run : Promise!End(R)) \/ UNCHANGED Promise!vars
    BY <1>2, <2>1, ReconcileGroupImplements, StopImplements
  <2> QED BY <2>2 DEF Promise!Next
<1>3. ASSUME NEW r \in Run, Revoke(r)
      PROVE  UNCHANGED Promise!vars
  BY <1>3, UnseenImplements DEF Revoke, machines
<1>4. ASSUME NEW r \in Run, NEW n \in Node, Assign(r, n)
      PROVE  UNCHANGED Promise!vars
  BY <1>4, UnseenImplements DEF Assign, machines
<1>5. ASSUME NEW n \in Node, Crash(n)
      PROVE  UNCHANGED Promise!vars
  BY <1>5, UnseenImplements DEF Crash, supervisor
<1>6. ASSUME NEW n \in Node, NEW r \in Run, Dispatched(n, r)
      PROVE  UNCHANGED Promise!vars
  BY <1>6, UnseenImplements DEF Dispatched, Receive, supervisor
<1>7. ASSUME NEW n \in Node, NEW r \in Run, ReportArrives(n, r)
      PROVE  Promise!Next \/ UNCHANGED Promise!vars
  <2>1. {r} \in SUBSET Run
    OBVIOUS
  <2> QED BY <1>7, <2>1, ReportArrivesImplements DEF Promise!Next
<1>8. ASSUME NEW n \in Node, NEW r \in Run, Execute(n, r)
      PROVE  Promise!Next \/ UNCHANGED Promise!vars
  <2>1. PICK gen \in 1 .. MaxGeneration[r] :
          Recover(n, r, gen) \/ Release(n, r, gen) \/ Take(n, r, gen)
    BY <1>8 DEF Execute
  <2>2. CASE Recover(n, r, gen)
    <3>1. group' = [group EXCEPT ![n][r] = "none"] /\ UNCHANGED <<run, prompts>>
      BY <2>2 DEF Recover, supervisor
    <3> QED BY <3>1, ExitImplements DEF Promise!Next
  <2>3. CASE Release(n, r, gen) \/ Take(n, r, gen)
    BY <2>3, UnseenImplements DEF Release, Take, supervisor
  <2> QED BY <2>1, <2>2, <2>3
<1>9. ASSUME NEW n \in Node, NEW r \in Run, Step(n, r)
      PROVE  Promise!Next \/ UNCHANGED Promise!vars
  <2>1. CASE Launch(n, r) \/ Prompt(n, r)
    BY <2>1, LaunchImplements, PromptImplements DEF Promise!Next
  <2>2. CASE Intend(n, r)
    BY <2>2, UnseenImplements DEF Intend, supervisor
  <2>3. CASE StopUnsubmitted(n, r) \/ Conclude(n, r) \/ Fail(n, r)
    <3>1. group' = [group EXCEPT ![n][r] = "none"] /\ UNCHANGED <<run, prompts>>
      BY <2>3 DEF StopUnsubmitted, Conclude, Fail, supervisor
    <3> QED BY <3>1, ExitImplements DEF Promise!Next
  <2>4. CASE GiveUp(n, r)
    <3>1. /\ group' = [group EXCEPT ![n][r] = "orphans"] /\ group[n][r] # "none"
          /\ UNCHANGED <<run, prompts>>
      BY <2>4 DEF GiveUp, supervisor
    <3> QED BY <3>1, ExitImplements DEF Promise!Next
  <2> QED BY <1>9, <2>1, <2>2, <2>3, <2>4 DEF Step
<1>10. ASSUME NEW n \in Node, NEW r \in Run, LeaderExits(n, r) \/ OrphansExit(n, r)
       PROVE  Promise!Next \/ UNCHANGED Promise!vars
  <2>1. group[n][r] # "none" /\ UNCHANGED <<run, prompts>>
    BY <1>10 DEF LeaderExits, OrphansExit, supervisor
  <2>2. PICK left \in {"none", "orphans"} : group' = [group EXCEPT ![n][r] = left]
    BY <1>10 DEF LeaderExits, OrphansExit
  <2> QED BY <2>1, <2>2, ExitImplements DEF Promise!Next
<1>11. CASE UNCHANGED vars
  BY <1>11, UnseenImplements DEF vars
<1> QED BY <1>1, <1>2, <1>3, <1>4, <1>5, <1>6, <1>7, <1>8, <1>9, <1>10, <1>11 DEF Next

\* The jobs keep the promise of the documents: instructions are submitted once,
\* on one machine at a time, to an open run; a run is over only when nothing of
\* it runs, succeeds only if it was submitted, and never overlaps another occurrence.
THEOREM KeepsPromise == Spec => ImplementsSingleExecution
<1>1. Init => Promise!Init
  <2> SUFFICES ASSUME Init PROVE Promise!Init
    OBVIOUS
  <2>1. /\ \A r \in Run : run[r].state = "none"
        /\ \A n \in Node, r \in Run : group[n][r] = "none"
        /\ prompts = [r \in Run |-> 0]
    BY DEF Init
  <2>2. Phase = [r \in Run |-> "absent"]
    <3>1. \A r \in Run : Phase[r] = "absent"
      BY <2>1, Initially, Phases DEF IInv
    <3>2. Phase = [r \in Run |-> Phase[r]]
      BY DEF Phase
    <3> HIDE DEF Phase
    <3> QED BY <3>1, <3>2
  <2>3. Home = [r \in Run |-> {}]
    <3>1. \A r \in Run : {n \in Node : group[n][r] # "none"} = {}
      BY <2>1
    <3> QED BY <3>1 DEF Home
  <2> QED BY <2>1, <2>2, <2>3 DEF Promise!Init, Phase, Home
<1> QED BY <1>1, StepImplements, Inductive, PTL DEF Spec, ImplementsSingleExecution, Promise!Spec
=============================================================================
