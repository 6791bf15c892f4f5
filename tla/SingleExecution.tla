-------------------------- MODULE SingleExecution --------------------------
(***************************************************************************)
(* What the scheduled jobs of one definition promise                       *)
(* (docs/scheduled-jobs.md, "Execution"): every run submits its            *)
(* instructions at most once, runs on one machine at a time, is over only  *)
(* when nothing of it runs any more, and never begins while another        *)
(* occurrence of the job is unfinished.                                    *)
(***************************************************************************)
EXTENDS Naturals

CONSTANTS
  Node,    \* machines
  Run,     \* executions
  Parent   \* the occurrence an execution belongs to; itself for occurrences

VARIABLES
  phase,      \* absent, open, skipped, or the outcome of a finished run
  home,       \* the machines on which processes of a run exist
  submitted   \* how often its instructions were submitted

vars == <<phase, home, submitted>>

Outcome == {"succeeded", "failed", "cancelled"}
Parts(r) == {c \in Run : c # r /\ Parent[c] = r}
Open(r) == phase[r] = "open"

Init ==
  /\ phase = [r \in Run |-> "absent"]
  /\ home = [r \in Run |-> {}]
  /\ submitted = [r \in Run |-> 0]

\* An occurrence begins, unless an earlier one is open.
Begin(r) ==
  /\ phase[r] = "absent" /\ Parent[r] = r
  /\ phase' = [phase EXCEPT ![r] =
                 IF \E q \in Run : Open(q) THEN "skipped" ELSE "open"]
  /\ UNCHANGED <<home, submitted>>

\* An open occurrence is divided into one execution per machine, at once.
Divide(r) ==
  /\ Open(r) /\ Parts(r) # {}
  /\ \A c \in Parts(r) : phase[c] = "absent"
  /\ phase' = [q \in Run |-> IF q \in Parts(r) THEN "open" ELSE phase[q]]
  /\ UNCHANGED <<home, submitted>>

Launch(r, n) ==
  /\ Open(r) /\ home[r] = {}
  /\ home' = [home EXCEPT ![r] = {n}]
  /\ UNCHANGED <<phase, submitted>>

Submit(r) ==
  /\ Open(r) /\ submitted[r] = 0
  /\ submitted' = [submitted EXCEPT ![r] = 1]
  /\ UNCHANGED <<phase, home>>

Exit(r) ==
  /\ home[r] # {}
  /\ home' = [home EXCEPT ![r] = {}]
  /\ UNCHANGED <<phase, submitted>>

\* A run ends when nothing of it runs, and succeeds only if it was submitted.
\* Stopping an occurrence ends the parts that nobody has started with it.
End(R) ==
  /\ R # {}
  /\ \A r \in R :
       /\ Open(r) /\ home[r] = {} /\ phase'[r] \in Outcome
       /\ phase'[r] = "succeeded" => \/ Parts(r) = {} /\ submitted[r] = 1
                                     \/ Parts(r) # {}
       /\ \A c \in Parts(r) :
            ~Open(c) /\ (phase'[r] = "succeeded" => phase[c] = "succeeded")
  /\ phase' = [r \in Run |-> IF r \in R THEN phase'[r] ELSE phase[r]]
  /\ UNCHANGED <<home, submitted>>

Next ==
  \/ \E r \in Run : Begin(r) \/ Divide(r) \/ Submit(r) \/ Exit(r)
  \/ \E r \in Run, n \in Node : Launch(r, n)
  \/ \E R \in SUBSET Run : End(R)

Spec == Init /\ [][Next]_vars
============================================================================
