------------------------ MODULE DatabaseOwner_proofs ------------------------
(***************************************************************************)
(* Elections of the database owner and the transactions of its clients,    *)
(* for any number of services, clients, crashes and stops: writers take    *)
(* turns as long as one of the owner's names stays, and clients keep what  *)
(* Transactions promises, but for the liveness of the service.             *)
(***************************************************************************)
EXTENDS DatabaseOwner, TLAPS

ServiceState ==
  [pc: {"idle", "opened", "locked", "opened writer", "elected", "stale", "clear",
        "bound", "giving up", "serving", "draining", "closing", "drained", "removing"},
   lock: LockFile \cup {None}, socket: SocketFile \cup {None},
   seen: SocketFile \cup {None}]
SessionState ==
  [state: {"none", "open", "writing"}, writes: SUBSET Statement, late: BOOLEAN]
ClientState ==
  [next: Statement \cup {"begin", "commit", "rollback", "done"},
   transaction: BOOLEAN, told: {"nothing", "committed", "unknown", "failed"}]

\* The types, without bounds on what is counted.
ServiceShape ==
  /\ files \in [lock: LockFile \cup {None}, socket: SocketFile \cup {None}]
  /\ proc \in [Proc -> ServiceState]
  /\ removed \subseteq {"lock", "socket"}
ClientShape ==
  /\ session \in [Proc -> [Client -> SessionState]]
  /\ conn \in [Client -> Proc \cup {None}]
  /\ client \in [Client -> ClientState]
  /\ applied \in [Client -> [Statement -> Nat]]

Waiting(p) == proc[p].pc \in {"idle", "opened", "locked", "giving up"}
Serving(p) == proc[p].pc \in {"bound", "serving", "draining"}

\* What a service has open fits the point that it has reached.
Files ==
  \A p \in Proc : /\ proc[p].pc \in {"idle", "giving up"} <=> proc[p].lock = None
                  /\ Serving(p) <=> proc[p].socket # None

\* A lock file is locked by one service.
LocksExclude ==
  \A p, q \in Proc : p # q /\ Locked(p) /\ Locked(q) => proc[p].lock # proc[q].lock

\* As long as nobody else removed its name, all services have the same lock file.
NamedLock ==
  "lock" \notin removed =>
    \A p \in Proc : proc[p].lock # None => proc[p].lock = files.lock

\* An owner whose lock file lost its name keeps the others waiting by its socket.
DisplacedOwner ==
  "lock" \in removed /\ "socket" \notin removed =>
    \A p \in Proc : proc[p].lock # None /\ proc[p].lock # files.lock =>
      /\ proc[p].pc \notin {"opened writer", "elected", "stale", "clear"}
      /\ Serving(p) => /\ proc[p].socket = files.socket
                       /\ \A q \in Proc : q # p => Waiting(q)

Election == ServiceShape /\ Files /\ LocksExclude /\ NamedLock /\ DisplacedOwner

\* Sessions exist with a service only.
SessionsServed ==
  \A p \in Proc, c \in Client :
    session[p][c].state # "none" => proc[p].pc \in {"serving", "draining"}

-----------------------------------------------------------------------------
\* What the types say of one service.
LEMMA ServiceTypes ==
  ASSUME ServiceShape, NEW p \in Proc
  PROVE  /\ proc[p] \in ServiceState
         /\ proc[p].lock \in LockFile \cup {None} /\ proc[p].socket \in SocketFile \cup {None}
         /\ files.lock \in LockFile \cup {None} /\ files.socket \in SocketFile \cup {None}
         /\ None \notin LockFile /\ None \notin SocketFile
BY OwnerAssumption DEF ServiceShape, ServiceState

\* A service that replaces its state replaces nobody else's.
LEMMA ServiceEntry ==
  ASSUME ServiceShape, NEW p \in Proc, NEW s \in ServiceState, proc' = [proc EXCEPT ![p] = s]
  PROVE  /\ proc' \in [Proc -> ServiceState] /\ proc'[p] = s
         /\ \A q \in Proc : q # p => proc'[q] = proc[q]
BY DEF ServiceShape

\* Moving to another point keeps the files.
LEMMA MoveEntry ==
  ASSUME ServiceShape, NEW p \in Proc, NEW pc, Move(p, pc),
         pc \in {"opened", "locked", "opened writer", "elected", "stale",
                 "clear", "bound", "serving", "draining", "closing", "drained", "removing"}
  PROVE  /\ proc' \in [Proc -> ServiceState]
         /\ proc'[p].pc = pc /\ proc'[p].lock = proc[p].lock /\ proc'[p].socket = proc[p].socket
         /\ \A q \in Proc : q # p => proc'[q] = proc[q]
BY DEF ServiceShape, ServiceState, Move

\* A withdrawal closes all files.
LEMMA WithdrawEntry ==
  ASSUME ServiceShape, NEW p \in Proc, Withdraw(p)
  PROVE  /\ proc' \in [Proc -> ServiceState]
         /\ proc'[p].pc = "idle" /\ proc'[p].lock = None /\ proc'[p].socket = None
         /\ \A q \in Proc : q # p => proc'[q] = proc[q]
BY DEF ServiceShape, ServiceState, Withdraw, Idle

\* Whoever gives its files up gives way; the name of the socket may go with them,
\* if it cannot be that of a displaced owner.
LEMMA GivesWay ==
  ASSUME Election, NEW p \in Proc, removed' = removed,
         files' = files \/ (files' = [files EXCEPT !.socket = None] /\ ~Waiting(p)),
         proc' \in [Proc -> ServiceState], proc'[p].pc \in {"idle", "giving up"},
         proc'[p].lock = None, proc'[p].socket = None,
         \A q \in Proc : q # p => proc'[q] = proc[q]
  PROVE  Election'
<1>1. /\ proc' \in [Proc -> ServiceState]
      /\ proc'[p].pc \in {"idle", "giving up"} /\ proc'[p].lock = None /\ proc'[p].socket = None
      /\ \A q \in Proc : q # p => proc'[q] = proc[q]
  OBVIOUS
<1>2. /\ files' \in [lock: LockFile \cup {None}, socket: SocketFile \cup {None}]
      /\ files'.lock = files.lock
      /\ files'.socket = files.socket \/ ~Waiting(p)
  BY DEF Election, ServiceShape
<1>3. ServiceShape'
  BY <1>1, <1>2 DEF Election, ServiceShape
<1>4. Files'
  BY <1>1 DEF Election, Files, Serving
<1>5. LocksExclude'
  BY <1>1 DEF Election, LocksExclude, Locked
<1>6. NamedLock'
  BY <1>1, <1>2 DEF Election, NamedLock
<1>7. DisplacedOwner'
  BY <1>1, <1>2 DEF Election, DisplacedOwner, Serving, Waiting
<1> QED BY <1>3, <1>4, <1>5, <1>6, <1>7 DEF Election

LEMMA WithdrawKeeps ==
  ASSUME Election, NEW p \in Proc, Withdraw(p), removed' = removed,
         files' = files \/ (files' = [files EXCEPT !.socket = None] /\ ~Waiting(p))
  PROVE  Election'
<1>1. /\ proc' \in [Proc -> ServiceState]
      /\ proc'[p].pc = "idle" /\ proc'[p].lock = None /\ proc'[p].socket = None
      /\ \A q \in Proc : q # p => proc'[q] = proc[q]
  BY WithdrawEntry DEF Election
<1> QED BY <1>1, GivesWay

\* Opening takes the lock file of that name, or makes a new one.
LEMMA OpenKeeps ==
  ASSUME Election, NEW p \in Proc, Open(p)
  PROVE  Election'
<1>1. PICK i \in LockFile :
        /\ IF files.lock # None THEN i = files.lock
           ELSE \A q \in Proc : proc[q].lock # i
        /\ files' = [files EXCEPT !.lock = i]
        /\ proc' = [proc EXCEPT ![p].pc = "opened", ![p].lock = i]
        /\ proc[p].pc = "idle" /\ removed' = removed
  BY DEF Open
<1>2. i # None
  BY OwnerAssumption
<1>3. /\ files' \in [lock: LockFile \cup {None}, socket: SocketFile \cup {None}]
      /\ files'.lock = i /\ files'.socket = files.socket
  BY <1>1 DEF Election, ServiceShape
<1>4. /\ proc' \in [Proc -> ServiceState]
      /\ proc'[p].pc = "opened" /\ proc'[p].lock = i /\ proc'[p].socket = proc[p].socket
      /\ \A q \in Proc : q # p => proc'[q] = proc[q]
  <2> DEFINE s == [proc[p] EXCEPT !.pc = "opened", !.lock = i]
  <2>1. proc[p] \in ServiceState
    BY ServiceTypes DEF Election
  <2>2. /\ s \in ServiceState
        /\ s.pc = "opened" /\ s.lock = i /\ s.socket = proc[p].socket
    BY <2>1 DEF ServiceState
  <2>3. proc' = [proc EXCEPT ![p] = s]
    BY <1>1
  <2> HIDE DEF s
  <2> QED BY <2>2, <2>3, ServiceEntry DEF Election
<1>5. ServiceShape'
  BY <1>1, <1>3, <1>4 DEF Election, ServiceShape
<1>6. Files'
  BY <1>1, <1>2, <1>4 DEF Election, Files, Serving
<1>7. LocksExclude'
  BY <1>4 DEF Election, LocksExclude, Locked
<1>8. NamedLock'
  BY <1>1, <1>2, <1>3, <1>4 DEF Election, NamedLock
<1>9. DisplacedOwner'
  <2> SUFFICES ASSUME "lock" \in removed, "socket" \notin removed,
                      NEW q \in Proc, proc'[q].lock # None, proc'[q].lock # i
               PROVE  /\ proc'[q].pc \notin {"opened writer", "elected", "stale", "clear"}
                      /\ Serving(q)' => /\ proc'[q].socket = files.socket
                                        /\ \A o \in Proc : o # q => Waiting(o)'
    BY <1>1, <1>3 DEF DisplacedOwner
  <2>1. q # p /\ proc'[q] = proc[q]
    BY <1>4
  <2>2. proc[q].lock # None /\ proc[q].lock # files.lock
    BY <1>1, <2>1
  <2>3. /\ proc[q].pc \notin {"opened writer", "elected", "stale", "clear"}
        /\ Serving(q) => /\ proc[q].socket = files.socket
                         /\ \A o \in Proc : o # q => Waiting(o)
    BY <2>2 DEF Election, DisplacedOwner
  <2>4. \A o \in Proc : Waiting(o) => Waiting(o)'
    BY <1>4 DEF Waiting
  <2>5. Serving(q)' = Serving(q)
    BY <2>1 DEF Serving
  <2> QED BY <2>1, <2>3, <2>4, <2>5
<1> QED BY <1>5, <1>6, <1>7, <1>8, <1>9 DEF Election

\* The lock of a file is granted to one service.
LEMMA FlockKeeps ==
  ASSUME Election, NEW p \in Proc, Flock(p)
  PROVE  Election'
<1>1. proc[p].pc = "opened" /\ UNCHANGED <<files, removed>>
  BY DEF Flock
<1>2. CASE Withdraw(p)
  BY <1>1, <1>2, WithdrawKeeps
<1>3. CASE /\ Move(p, "locked")
           /\ \A q \in Proc \ {p} : ~(Locked(q) /\ proc[q].lock = proc[p].lock)
  <2>1. /\ proc' \in [Proc -> ServiceState]
        /\ proc'[p].pc = "locked" /\ proc'[p].lock = proc[p].lock
        /\ proc'[p].socket = proc[p].socket
        /\ \A q \in Proc : q # p => proc'[q] = proc[q]
    BY <1>3, MoveEntry DEF Election
  <2>2. ServiceShape'
    BY <1>1, <2>1 DEF Election, ServiceShape
  <2>3. Files'
    BY <1>1, <2>1 DEF Election, Files, Serving
  <2>4. LocksExclude'
    <3>1. \A q \in Proc : /\ proc'[q].lock = proc[q].lock
                          /\ q # p => Locked(q)' = Locked(q)
      BY <2>1 DEF Locked
    <3>2. \A q \in Proc : q # p /\ Locked(q) => proc[q].lock # proc[p].lock
      BY <1>3
    <3> QED BY <3>1, <3>2 DEF Election, LocksExclude
  <2>5. NamedLock'
    BY <1>1, <2>1 DEF Election, NamedLock
  <2>6. DisplacedOwner'
    BY <1>1, <2>1 DEF Election, DisplacedOwner, Serving, Waiting
  <2> QED BY <2>2, <2>3, <2>4, <2>5, <2>6 DEF Election
<1> QED BY <1>2, <1>3 DEF Flock

\* Who finds the name of its lock file and nobody behind the socket opens the
\* writer.
LEMMA CheckKeeps ==
  ASSUME Election, NEW p \in Proc, Check(p)
  PROVE  Election'
<1>1. proc[p].pc \in {"locked", "opened writer"} /\ UNCHANGED <<files, removed>>
  BY DEF Check
<1>2. CASE Withdraw(p)
  BY <1>1, <1>2, WithdrawKeeps
<1>3. CASE ~Withdraw(p)
  <2> DEFINE pc == IF proc[p].pc = "locked" THEN "opened writer" ELSE "elected"
  <2>1. Move(p, pc) /\ proc[p].lock = files.lock /\ ~Listening
    BY <1>3 DEF Check, Eligible
  <2>2. pc \in {"opened writer", "elected"}
    OBVIOUS
  <2> HIDE DEF pc
  <2>3. /\ proc' \in [Proc -> ServiceState]
        /\ proc'[p].pc = pc /\ proc'[p].lock = proc[p].lock
        /\ proc'[p].socket = proc[p].socket
        /\ \A q \in Proc : q # p => proc'[q] = proc[q]
    BY <2>1, <2>2, MoveEntry DEF Election
  <2>4. ServiceShape'
    BY <1>1, <2>3 DEF Election, ServiceShape
  <2>5. Files'
    BY <1>1, <2>2, <2>3 DEF Election, Files, Serving
  <2>6. LocksExclude'
    <3>1. \A q \in Proc : /\ Locked(q)' => Locked(q)
                          /\ proc'[q].lock = proc[q].lock
      BY <1>1, <2>3 DEF Locked
    <3> QED BY <3>1 DEF Election, LocksExclude
  <2>7. NamedLock'
    BY <1>1, <2>3 DEF Election, NamedLock
  <2>8. ASSUME NEW q \in Proc, Serving(q)
        PROVE  proc[q].socket # files.socket
    <3>1. proc[q].socket # None
      BY <2>8 DEF Election, Files
    <3> QED BY <2>1, <3>1 DEF Listening
  <2>9. DisplacedOwner'
    BY <1>1, <2>1, <2>2, <2>3, <2>8 DEF Election, DisplacedOwner, Serving, Waiting
  <2> QED BY <2>4, <2>5, <2>6, <2>7, <2>9 DEF Election
<1> QED BY <1>2, <1>3

\* Between its election and its end, a service that is not displaced moves on;
\* the name of the socket is its own affair.
LEMMA ElectedKeeps ==
  ASSUME Election, NEW p \in Proc, removed' = removed,
         files' \in [lock: LockFile \cup {None}, socket: SocketFile \cup {None}],
         files'.lock = files.lock,
         proc' \in [Proc -> ServiceState], proc'[p].lock = proc[p].lock,
         \A q \in Proc : q # p => proc'[q] = proc[q],
         proc[p].pc \in {"elected", "stale", "clear"},
         proc'[p].pc \in {"stale", "clear", "bound"},
         proc'[p].pc = "bound" <=> proc'[p].socket # None
  PROVE  Election'
<1>1. ServiceShape'
  BY DEF Election, ServiceShape
<1>2. Files'
  <2>1. Serving(p)' <=> proc'[p].socket # None
    BY DEF Serving
  <2>2. proc'[p].lock # None /\ proc'[p].pc \notin {"idle", "giving up"}
    BY DEF Election, Files
  <2> QED BY <2>1, <2>2 DEF Election, Files, Serving
<1>3. LocksExclude'
  <2>1. \A q \in Proc : proc'[q].lock = proc[q].lock /\ (Locked(q)' => Locked(q))
    BY DEF Locked
  <2> QED BY <2>1 DEF Election, LocksExclude
<1>4. NamedLock'
  BY DEF Election, NamedLock
<1>5. DisplacedOwner'
  BY DEF Election, DisplacedOwner, Serving, Waiting, Files
<1> QED BY <1>1, <1>2, <1>3, <1>4, <1>5 DEF Election

\* The way to the socket: lookup, removal of a stale name, binding.
LEMMA BindingKeeps ==
  ASSUME Election, NEW p \in Proc, Examine(p) \/ Unlink(p) \/ Bind(p)
  PROVE  Election'
<1>1. proc[p].pc \in {"elected", "stale", "clear"} /\ removed' = removed /\ proc[p].socket = None
  BY DEF Examine, Unlink, Bind, Election, Files, Serving
<1>2. files \in [lock: LockFile \cup {None}, socket: SocketFile \cup {None}]
  BY DEF Election, ServiceShape
<1>3. CASE Withdraw(p)
  <2>1. files' = files \/ files' = [files EXCEPT !.socket = None]
    <3>1. CASE Examine(p)
      BY <3>1 DEF Examine
    <3>2. CASE Unlink(p)
      BY <3>2 DEF Unlink
    <3>3. CASE Bind(p)
      <4>1. CASE files.socket # None
        BY <3>3, <4>1 DEF Bind
      <4>2. CASE files.socket = None
        <5>1. PICK i \in SocketFile : proc' = [proc EXCEPT ![p].pc = "bound", ![p].socket = i]
          BY <3>3, <4>2 DEF Bind
        <5>2. proc'[p].pc = "bound"
          BY <5>1 DEF Election, ServiceShape, ServiceState
        <5>3. proc'[p].pc = "idle"
          BY <1>3, WithdrawEntry DEF Election
        <5> QED BY <5>2, <5>3
      <4> QED BY <4>1, <4>2
    <3> QED BY <3>1, <3>2, <3>3
  <2>2. ~Waiting(p)
    BY <1>1 DEF Waiting
  <2> QED BY <1>1, <1>3, <2>1, <2>2, WithdrawKeeps
<1>4. CASE Examine(p)
  <2> DEFINE pc == IF files.socket = None THEN "clear" ELSE "stale"
  <2>1. Move(p, pc) /\ files' = files
    BY <1>4 DEF Examine
  <2>2. pc \in {"clear", "stale"}
    OBVIOUS
  <2> HIDE DEF pc
  <2>3. /\ proc' \in [Proc -> ServiceState]
        /\ proc'[p].pc = pc /\ proc'[p].lock = proc[p].lock
        /\ proc'[p].socket = proc[p].socket
        /\ \A q \in Proc : q # p => proc'[q] = proc[q]
    BY <2>1, <2>2, MoveEntry DEF Election
  <2> QED BY <1>1, <1>2, <2>1, <2>2, <2>3, ElectedKeeps
<1>5. CASE Unlink(p) /\ ~Withdraw(p)
  <2>1. Move(p, "clear") /\ files' = [files EXCEPT !.socket = None]
    BY <1>5 DEF Unlink
  <2>2. /\ proc' \in [Proc -> ServiceState]
        /\ proc'[p].pc = "clear" /\ proc'[p].lock = proc[p].lock
        /\ proc'[p].socket = proc[p].socket
        /\ \A q \in Proc : q # p => proc'[q] = proc[q]
    BY <2>1, MoveEntry DEF Election
  <2>3. /\ files' \in [lock: LockFile \cup {None}, socket: SocketFile \cup {None}]
        /\ files'.lock = files.lock
    BY <1>2, <2>1
  <2> QED BY <1>1, <2>2, <2>3, ElectedKeeps
<1>6. CASE Bind(p) /\ ~Withdraw(p)
  <2>1. PICK i \in SocketFile : /\ files' = [files EXCEPT !.socket = i]
                                /\ proc' = [proc EXCEPT ![p].pc = "bound", ![p].socket = i]
    BY <1>6 DEF Bind
  <2>2. /\ files' \in [lock: LockFile \cup {None}, socket: SocketFile \cup {None}]
        /\ files'.lock = files.lock
    BY <1>2, <2>1
  <2>3. /\ proc' \in [Proc -> ServiceState]
        /\ proc'[p].pc = "bound" /\ proc'[p].lock = proc[p].lock
        /\ proc'[p].socket = i
        /\ \A q \in Proc : q # p => proc'[q] = proc[q]
    <3> DEFINE s == [proc[p] EXCEPT !.pc = "bound", !.socket = i]
    <3>1. proc[p] \in ServiceState
      BY ServiceTypes DEF Election
    <3>2. s \in ServiceState /\ s.pc = "bound" /\ s.lock = proc[p].lock /\ s.socket = i
      BY <3>1 DEF ServiceState
    <3>3. proc' = [proc EXCEPT ![p] = s]
      BY <2>1
    <3> HIDE DEF s
    <3> QED BY <3>2, <3>3, ServiceEntry DEF Election
  <2>4. i # None
    BY OwnerAssumption
  <2> QED BY <1>1, <2>2, <2>3, <2>4, ElectedKeeps
<1> QED BY <1>3, <1>4, <1>5, <1>6

\* A service that serves goes on, drains, or has drained.
LEMMA ServingKeeps ==
  ASSUME Election, NEW p \in Proc, UNCHANGED <<files, removed>>,
         proc' \in [Proc -> ServiceState], proc'[p].lock = proc[p].lock,
         \A q \in Proc : q # p => proc'[q] = proc[q],
         Serving(p) \/ proc[p].pc \in {"closing", "drained"},
         \/ proc'[p].pc \in {"serving", "draining"} /\ proc'[p].socket = proc[p].socket /\ Serving(p)
         \/ proc'[p].pc \in {"closing", "drained", "removing"} /\ proc'[p].socket = None
  PROVE  Election'
<1>1. ServiceShape'
  BY DEF Election, ServiceShape
<1>2. Files'
  BY DEF Election, Files, Serving
<1>3. LocksExclude'
  <2>1. \A q \in Proc : proc'[q].lock = proc[q].lock /\ (Locked(q)' => Locked(q))
    BY DEF Locked, Serving
  <2> QED BY <2>1 DEF Election, LocksExclude
<1>4. NamedLock'
  BY DEF Election, NamedLock
<1>5. DisplacedOwner'
  <2> SUFFICES ASSUME "lock" \in removed, "socket" \notin removed,
                      NEW q \in Proc, proc'[q].lock # None, proc'[q].lock # files.lock
               PROVE  /\ proc'[q].pc \notin {"opened writer", "elected", "stale", "clear"}
                      /\ Serving(q)' => /\ proc'[q].socket = files.socket
                                        /\ \A o \in Proc : o # q => Waiting(o)'
    BY DEF DisplacedOwner
  <2>1. proc[q].lock # None /\ proc[q].lock # files.lock
    OBVIOUS
  <2>2. /\ proc[q].pc \notin {"opened writer", "elected", "stale", "clear"}
        /\ Serving(q) => /\ proc[q].socket = files.socket
                         /\ \A o \in Proc : o # q => Waiting(o)
    BY <2>1 DEF Election, DisplacedOwner
  <2>3. CASE q = p
    <3>1. Serving(q)' => Serving(q) /\ proc'[q].socket = proc[q].socket
      BY <2>3 DEF Serving
    <3>2. \A o \in Proc : o # q => Waiting(o)' = Waiting(o)
      BY <2>3 DEF Waiting
    <3> QED BY <2>2, <2>3, <3>1, <3>2
  <2>4. CASE q # p
    <3>1. proc'[q] = proc[q] /\ Serving(q)' = Serving(q)
      BY <2>4 DEF Serving
    <3>2. Serving(q) => Waiting(p)
      BY <2>2, <2>4
    <3>3. ~Waiting(p)
      BY DEF Serving, Waiting
    <3> QED BY <2>2, <3>1, <3>2, <3>3
  <2> QED BY <2>3, <2>4
<1> QED BY <1>1, <1>2, <1>3, <1>4, <1>5 DEF Election

\* The owner from its first to its last step.
LEMMA OwnerKeeps ==
  ASSUME Election, NEW p \in Proc,
         \/ Identify(p) \/ Displaced(p) \/ Stop(p)
         \/ DropListener(p) \/ DropWriter(p) \/ Compare(p) \/ Remove(p)
  PROVE  Election'
<1>1. CASE Identify(p)
  <2>1. CASE files.socket = None
    <3> DEFINE s == [Idle EXCEPT !.pc = "giving up"]
    <3>1. UNCHANGED <<files, removed>> /\ proc' = [proc EXCEPT ![p] = s]
      BY <1>1, <2>1 DEF Identify
    <3>2. s \in ServiceState /\ s.pc = "giving up" /\ s.lock = None /\ s.socket = None
      BY DEF Idle, ServiceState
    <3> HIDE DEF s
    <3>3. /\ proc' \in [Proc -> ServiceState] /\ proc'[p] = s
          /\ \A q \in Proc : q # p => proc'[q] = proc[q]
      BY <3>1, <3>2, ServiceEntry DEF Election
    <3> QED BY <3>1, <3>2, <3>3, GivesWay
  <2>2. CASE files.socket # None
    <3>1. /\ proc[p].pc = "bound" /\ UNCHANGED <<files, removed>>
          /\ proc' = [proc EXCEPT ![p].pc = "serving", ![p].seen = files.socket]
      BY <1>1, <2>2 DEF Identify
    <3>2. /\ proc' \in [Proc -> ServiceState]
          /\ proc'[p].pc = "serving" /\ proc'[p].lock = proc[p].lock
          /\ proc'[p].socket = proc[p].socket
          /\ \A q \in Proc : q # p => proc'[q] = proc[q]
      <4> DEFINE s == [proc[p] EXCEPT !.pc = "serving", !.seen = files.socket]
      <4>1. proc[p] \in ServiceState /\ files.socket \in SocketFile \cup {None}
        BY ServiceTypes DEF Election
      <4>2. /\ s \in ServiceState /\ s.pc = "serving"
            /\ s.lock = proc[p].lock /\ s.socket = proc[p].socket
        BY <4>1 DEF ServiceState
      <4>3. proc' = [proc EXCEPT ![p] = s]
        BY <3>1
      <4> HIDE DEF s
      <4> QED BY <4>2, <4>3, ServiceEntry DEF Election
    <3> QED BY <3>1, <3>2, ServingKeeps DEF Serving
  <2> QED BY <2>1, <2>2
<1>2. CASE Displaced(p) \/ Stop(p)
  <2>1. proc[p].pc = "serving" /\ Move(p, "draining") /\ UNCHANGED <<files, removed>>
    BY <1>2 DEF Displaced, Stop
  <2>2. /\ proc' \in [Proc -> ServiceState]
        /\ proc'[p].pc = "draining" /\ proc'[p].lock = proc[p].lock
        /\ proc'[p].socket = proc[p].socket
        /\ \A q \in Proc : q # p => proc'[q] = proc[q]
    BY <2>1, MoveEntry DEF Election
  <2> QED BY <2>1, <2>2, ServingKeeps DEF Serving
<1>3. CASE DropListener(p)
  <2>1. /\ proc[p].pc = "draining" /\ UNCHANGED <<files, removed>>
        /\ proc' = [proc EXCEPT ![p].pc = "closing", ![p].socket = None]
    BY <1>3 DEF DropListener
  <2>2. /\ proc' \in [Proc -> ServiceState]
        /\ proc'[p].pc = "closing" /\ proc'[p].lock = proc[p].lock
        /\ proc'[p].socket = None
        /\ \A q \in Proc : q # p => proc'[q] = proc[q]
    <3> DEFINE s == [proc[p] EXCEPT !.pc = "closing", !.socket = None]
    <3>1. proc[p] \in ServiceState
      BY ServiceTypes DEF Election
    <3>2. s \in ServiceState /\ s.pc = "closing" /\ s.lock = proc[p].lock /\ s.socket = None
      BY <3>1 DEF ServiceState
    <3>3. proc' = [proc EXCEPT ![p] = s]
      BY <2>1
    <3> HIDE DEF s
    <3> QED BY <3>2, <3>3, ServiceEntry DEF Election
  <2> QED BY <2>1, <2>2, ServingKeeps DEF Serving
<1>6. CASE DropWriter(p)
  <2>1. UNCHANGED <<files, removed>>
    BY <1>6 DEF DropWriter
  <2>2. CASE Withdraw(p)
    BY <2>1, <2>2, WithdrawKeeps
  <2>3. CASE proc[p].pc = "closing" /\ Move(p, "drained")
    <3>1. /\ proc' \in [Proc -> ServiceState]
          /\ proc'[p].pc = "drained" /\ proc'[p].lock = proc[p].lock
          /\ proc'[p].socket = proc[p].socket
          /\ \A q \in Proc : q # p => proc'[q] = proc[q]
      BY <2>3, MoveEntry DEF Election
    <3>2. proc[p].socket = None
      BY <2>3 DEF Election, Files, Serving
    <3> QED BY <2>1, <2>3, <3>1, <3>2, ServingKeeps
  <2> QED BY <1>6, <2>2, <2>3 DEF DropWriter
<1>4. CASE Compare(p)
  <2>1. proc[p].pc = "drained" /\ UNCHANGED <<files, removed>>
    BY <1>4 DEF Compare
  <2>2. CASE Withdraw(p)
    BY <2>1, <2>2, WithdrawKeeps
  <2>3. CASE Move(p, "removing")
    <3>1. /\ proc' \in [Proc -> ServiceState]
          /\ proc'[p].pc = "removing" /\ proc'[p].lock = proc[p].lock
          /\ proc'[p].socket = proc[p].socket
          /\ \A q \in Proc : q # p => proc'[q] = proc[q]
      BY <2>3, MoveEntry DEF Election
    <3>2. proc[p].socket = None
      BY <2>1 DEF Election, Files, Serving
    <3> QED BY <2>1, <3>1, <3>2, ServingKeeps
  <2> QED BY <1>4, <2>2, <2>3 DEF Compare
<1>5. CASE Remove(p)
  BY <1>5, WithdrawKeeps DEF Remove, Waiting
<1> QED BY <1>1, <1>2, <1>3, <1>4, <1>5, <1>6

\* Before the name of the lock file is lost, the only service that has passed the
\* lock is the one that listens.
LEMMA RemovalKeeps ==
  ASSUME Election, RemoveLock \/ RemoveSocket
  PROVE  Election'
<1>1. proc' = proc
  BY DEF RemoveLock, RemoveSocket
<1>2. Files' /\ LocksExclude'
  BY <1>1 DEF Election, Files, LocksExclude, Serving, Locked
<1>3. CASE RemoveLock
  <2>1. /\ files' = [files EXCEPT !.lock = None] /\ removed' = removed \cup {"lock"}
        /\ "lock" \notin removed /\ Listening
    BY <1>3 DEF RemoveLock
  <2>2. /\ files' \in [lock: LockFile \cup {None}, socket: SocketFile \cup {None}]
        /\ files'.socket = files.socket
    BY <2>1 DEF Election, ServiceShape
  <2>3. ServiceShape'
    BY <1>1, <2>1, <2>2 DEF Election, ServiceShape
  <2>4. NamedLock'
    BY <2>1 DEF NamedLock
  <2>5. PICK p \in Proc : proc[p].socket # None /\ proc[p].socket = files.socket
    BY <2>1 DEF Listening
  <2>6. Serving(p) /\ proc[p].lock # None
    BY <2>5 DEF Election, Files, Serving
  <2>7. ASSUME NEW q \in Proc, q # p PROVE Waiting(q)
    <3>1. CASE proc[q].lock = None
      BY <3>1 DEF Election, Files, Waiting
    <3>2. CASE proc[q].lock # None
      <4>1. proc[q].lock = proc[p].lock
        BY <2>1, <2>6, <3>2 DEF Election, NamedLock
      <4>2. ~Locked(q)
        BY <2>6, <2>7, <4>1 DEF Election, LocksExclude, Locked, Serving
      <4> QED BY <4>2 DEF Locked, Waiting
    <3> QED BY <3>1, <3>2
  <2>8. DisplacedOwner'
    BY <1>1, <2>2, <2>5, <2>6, <2>7 DEF DisplacedOwner, Serving, Waiting
  <2> QED BY <1>2, <2>3, <2>4, <2>8 DEF Election
<1>4. CASE RemoveSocket
  <2>1. /\ files' = [files EXCEPT !.socket = None] /\ removed' = removed \cup {"socket"}
    BY <1>4 DEF RemoveSocket
  <2>2. /\ files' \in [lock: LockFile \cup {None}, socket: SocketFile \cup {None}]
        /\ files'.lock = files.lock
    BY <2>1 DEF Election, ServiceShape
  <2>3. ServiceShape'
    BY <1>1, <2>1, <2>2 DEF Election, ServiceShape
  <2>4. NamedLock' /\ DisplacedOwner'
    BY <1>1, <2>1, <2>2 DEF Election, NamedLock, DisplacedOwner
  <2> QED BY <1>2, <2>3, <2>4 DEF Election
<1> QED BY <1>3, <1>4

\* The election does not see what clients do.
LEMMA ElectionFrame ==
  ASSUME Election, UNCHANGED <<services, removed>>
  PROVE  Election'
BY DEF services, Election, ServiceShape, Files, LocksExclude, NamedLock, DisplacedOwner,
       Serving, Waiting, Locked

\* Every step keeps the invariant of the election.
LEMMA ElectionStep ==
  ASSUME Election, [Next]_vars
  PROVE  Election'
<1>1. ASSUME NEW p \in Proc, Service(p) PROVE Election'
  BY <1>1, OpenKeeps, FlockKeeps, CheckKeeps, BindingKeeps, OwnerKeeps DEF Service
<1>2. ASSUME NEW p \in Proc, Stop(p) PROVE Election'
  BY <1>2, OwnerKeeps
<1>3. ASSUME NEW p \in Proc, Crash(p) PROVE Election'
  BY <1>3, WithdrawKeeps DEF Crash
<1>4. CASE RemoveLock \/ RemoveSocket
  BY <1>4, RemovalKeeps
<1>5. CASE Sessions
  <2>1. UNCHANGED <<services, removed>>
    BY <1>5 DEF Sessions, EndSession, Expire, Ends, LateCommit
  <2> QED BY <2>1, ElectionFrame
<1>6. ASSUME NEW c \in Client, NEW p \in Proc, Connect(c, p) PROVE Election'
  BY <1>6, ElectionFrame DEF Connect
<1>7. ASSUME NEW c \in Client, Unreachable(c) \/ Call(c) \/ Break(c) \/ Abandon(c) \/ Refuse(c)
      PROVE  Election'
  <2>1. UNCHANGED <<services, removed>>
    BY <1>7 DEF Unreachable, Call, Break, Abandon, Refuse
  <2> QED BY <2>1, ElectionFrame
<1>8. CASE UNCHANGED vars
  BY <1>8, ElectionFrame DEF vars, services
<1> QED BY <1>1, <1>2, <1>3, <1>4, <1>5, <1>6, <1>7, <1>8 DEF Next

\* At first nobody has anything open.
LEMMA ElectionInit == Init => Election
<1> SUFFICES ASSUME Init PROVE Election
  OBVIOUS
<1>1. /\ files = [lock |-> None, socket |-> None] /\ removed = {}
      /\ proc = [p \in Proc |-> Idle]
      /\ \A p \in Proc : proc[p] = Idle
  BY DEF Init
<1>2. /\ Idle \in ServiceState /\ Idle.pc = "idle"
      /\ Idle.lock = None /\ Idle.socket = None
  BY DEF Idle, ServiceState
<1> HIDE DEF Idle
<1>3. ServiceShape
  BY <1>1, <1>2 DEF ServiceShape
<1>4. Files /\ LocksExclude
  BY <1>1, <1>2 DEF Files, LocksExclude, Serving, Locked
<1>5. NamedLock /\ DisplacedOwner
  BY <1>1, <1>2 DEF NamedLock, DisplacedOwner
<1> QED BY <1>3, <1>4, <1>5 DEF Election

-----------------------------------------------------------------------------
(* What a client and its sessions look like as its transaction goes on. *)

Zero(c) == \A s \in Statement : applied[c][s] = 0
Full(c) == \A s \in Statement : applied[c][s] = IF s \in Statements(c) THEN 1 ELSE 0
Before(next) == CASE next = "first" -> {} [] next = "second" -> {"first"} [] OTHER -> Statement

Fresh(c) ==
  /\ client[c].next = IF c \in Single THEN "first" ELSE "begin"
  /\ ~client[c].transaction /\ client[c].told = "nothing"
  /\ Zero(c)
  /\ \A p \in Proc : session[p][c].state # "writing"

Within(c) ==
  /\ c \notin Single
  /\ client[c].next \in {"first", "second", "commit"}
  /\ client[c].transaction /\ client[c].told = "nothing"
  /\ Zero(c)
  /\ conn[c] # None /\ session[conn[c]][c].state # "open"
  /\ \A p \in Proc : session[p][c].state = "writing" =>
       p = conn[c] /\ session[p][c].writes = Before(client[c].next)

Ended(c) ==
  /\ client[c].next = IF client[c].transaction THEN "rollback" ELSE "done"
  /\ client[c].told # "nothing"
  /\ client[c].told = "failed" => Zero(c)
  /\ client[c].told = "committed" => Full(c)
  /\ client[c].told = "unknown" => Zero(c) \/ Full(c)

\* A COMMIT that is still to be executed is the only one, and its client knows
\* nothing of its outcome.
Late(p, c) ==
  session[p][c].late =>
    /\ session[p][c].state = "writing" /\ session[p][c].writes = Statement
    /\ c \notin Single /\ client[c].told = "unknown" /\ Zero(c) /\ conn[c] = None
    /\ \A q \in Proc : q # p => ~session[q][c].late

Whole(c) ==
  /\ Fresh(c) \/ Within(c) \/ Ended(c)
  /\ \A p \in Proc : /\ session[p][c].state # "writing" => session[p][c].writes = {}
                     /\ Late(p, c)

Clients == ClientShape /\ \A c \in Client : Whole(c)

Same(c) ==
  /\ conn'[c] = conn[c] /\ client'[c] = client[c] /\ applied'[c] = applied[c]
  /\ \A p \in Proc : session'[p][c] = session[p][c]

\* What Transactions lets happen to a client in a step, told in this module's
\* terms.
Lawful(c) ==
  \/ applied'[c] = applied[c] /\ client'[c].told = client[c].told
  \/ /\ Zero(c) /\ Full(c)'
     /\ \/ client[c].told = "nothing" /\ client'[c].told \in {"committed", "unknown"}
        \/ client[c].told = "unknown" /\ client'[c].told = "unknown"
  \/ applied'[c] = applied[c] /\ client[c].told = "nothing" /\ client'[c].told = "unknown"
  \/ /\ applied'[c] = applied[c] /\ Zero(c)
     /\ client[c].told = "nothing" /\ client'[c].told = "failed"

Only(c) ==
  /\ ClientShape'
  /\ \A d \in Client : d # c => Same(d)
  /\ Whole(c)'
  /\ Lawful(c)

Kept == Clients' /\ ((\E c \in Client : Only(c)) \/ UNCHANGED <<client, applied>>)

-----------------------------------------------------------------------------
\* A client that a step does not concern is as whole as before.
LEMMA SameKeeps ==
  ASSUME ClientShape, NEW c \in Client, Whole(c), Same(c)
  PROVE  Whole(c)'
<1>1. conn[c] \in Proc \cup {None}
  BY DEF ClientShape
<1>2. Fresh(c) => Fresh(c)'
  BY DEF Same, Fresh, Zero
<1>3. Within(c) => Within(c)'
  BY <1>1 DEF Same, Within, Zero
<1>4. Ended(c) => Ended(c)'
  BY DEF Same, Ended, Zero, Full
<1>5. ASSUME NEW p \in Proc
      PROVE  Late(p, c)' /\ (session'[p][c].state # "writing" => session'[p][c].writes = {})
  BY DEF Same, Whole, Late, Zero
<1> QED BY <1>2, <1>3, <1>4, <1>5 DEF Whole

\* A session that ends takes what it has written with it.
LEMMA LossKeeps ==
  ASSUME ClientShape, NEW c \in Client, Whole(c),
         conn'[c] = conn[c], client'[c] = client[c], applied'[c] = applied[c],
         \A p \in Proc : session'[p][c] \in {session[p][c], Closed}
  PROVE  Whole(c)'
<1>1. conn[c] \in Proc \cup {None}
  BY DEF ClientShape
<1>2. Fresh(c) => Fresh(c)'
  BY DEF Fresh, Zero, Closed
<1>3. Within(c) => Within(c)'
  BY <1>1 DEF Within, Zero, Closed
<1>4. Ended(c) => Ended(c)'
  BY DEF Ended, Zero, Full
<1>5. ASSUME NEW p \in Proc
      PROVE  Late(p, c)' /\ (session'[p][c].state # "writing" => session'[p][c].writes = {})
  BY DEF Whole, Late, Zero, Closed
<1> QED BY <1>2, <1>3, <1>4, <1>5 DEF Whole

\* Replacing one session replaces no other.
LEMMA SessionEntry ==
  ASSUME ClientShape, NEW p \in Proc, NEW c \in Client, NEW t \in SessionState,
         session' = [session EXCEPT ![p][c] = t]
  PROVE  /\ session' \in [Proc -> [Client -> SessionState]]
         /\ session'[p][c] = t
         /\ \A q \in Proc, d \in Client : q # p \/ d # c => session'[q][d] = session[q][d]
BY DEF ClientShape

\* Closed and connected sessions are sessions.
LEMMA SessionValues ==
  /\ Closed \in SessionState /\ Connected \in SessionState
  /\ Closed.state = "none" /\ Closed.writes = {} /\ ~Closed.late
  /\ Connected.state = "open" /\ Connected.writes = {} /\ ~Connected.late
BY DEF Closed, Connected, SessionState

\* Counting what one client wrote counts nothing for the others.
LEMMA CountEntry ==
  ASSUME ClientShape, NEW c \in Client, NEW w \in SUBSET Statement, applied' = Count(c, w)
  PROVE  /\ applied' \in [Client -> [Statement -> Nat]]
         /\ \A s \in Statement : applied'[c][s] = applied[c][s] + IF s \in w THEN 1 ELSE 0
         /\ \A d \in Client : d # c => applied'[d] = applied[d]
         /\ w = {} => applied'[c] = applied[c]
<1> DEFINE f == [s \in Statement |-> applied[c][s] + IF s \in w THEN 1 ELSE 0]
<1>1. applied \in [Client -> [Statement -> Nat]]
  BY DEF ClientShape
<1>2. applied' = [applied EXCEPT ![c] = f]
  BY DEF Count
<1>3. f \in [Statement -> Nat]
  BY <1>1
<1>4. w = {} => f = applied[c]
  BY <1>1
<1>5. \A s \in Statement : f[s] = applied[c][s] + IF s \in w THEN 1 ELSE 0
  OBVIOUS
<1> HIDE DEF f
<1> QED BY <1>1, <1>2, <1>3, <1>4, <1>5

-----------------------------------------------------------------------------
\* The ways in which a command is executed by a session s, which becomes t.
Outcome(s, command, done, t, w) ==
  \/ /\ command = "begin" /\ done /\ w = {}
     /\ t = [state |-> "writing", writes |-> s.writes, late |-> s.late]
  \/ /\ command \in Statement \cup {"begin"} /\ s.state # "writing" /\ ~done
     /\ w = {} /\ t = s
  \/ /\ command = "commit" /\ done = (s.state = "writing")
     /\ w = s.writes /\ t = Connected
  \/ /\ command = "rollback" /\ done = (s.state = "writing")
     /\ w = {} /\ t = Connected
  \/ /\ command \in Statement /\ s.state = "writing" /\ done /\ w = {}
     /\ t = [state |-> s.state, writes |-> s.writes \cup {command}, late |-> s.late]
  \/ /\ command \in Statement /\ s.state # "writing" /\ done
     /\ w = {command} /\ t = s

Command == Statement \cup {"begin", "commit", "rollback"}

\* Execution replaces the session, and counts what it writes, by one of them.
LEMMA ExecutedEntry ==
  ASSUME ClientShape, NEW p \in Proc, NEW c \in Client, NEW command \in Command,
         NEW done \in BOOLEAN, Executed(p, c, command, done)
  PROVE  \E t \in SessionState, w \in SUBSET Statement :
           /\ Outcome(session[p][c], command, done, t, w)
           /\ session' = [session EXCEPT ![p][c] = t]
           /\ applied' = Count(c, w)
<1> DEFINE s == session[p][c]
<1>1. s \in SessionState
  BY DEF ClientShape
<1>2. UNCHANGED <<session, applied>> =>
        session' = [session EXCEPT ![p][c] = s] /\ applied' = Count(c, {})
  <2>1. session = [session EXCEPT ![p][c] = s]
    BY DEF ClientShape
  <2>2. applied = Count(c, {})
    BY DEF ClientShape, Count
  <2> QED BY <2>1, <2>2
<1> DEFINE becomes(t, w) == session' = [session EXCEPT ![p][c] = t] /\ applied' = Count(c, w)
<1>3. CASE command = "begin" /\ done /\ becomes([s EXCEPT !.state = "writing"], {})
  <2> DEFINE t == [s EXCEPT !.state = "writing"]
  <2>1. t \in SessionState /\ t = [state |-> "writing", writes |-> s.writes, late |-> s.late]
    BY <1>1 DEF SessionState
  <2>2. Outcome(s, command, done, t, {})
    BY <1>3, <2>1 DEF Outcome
  <2> QED BY <1>3, <2>1, <2>2
<1>4. CASE command = "commit" /\ done = (s.state = "writing") /\ becomes(Connected, s.writes)
  <2>1. Outcome(s, command, done, Connected, s.writes)
    BY <1>4 DEF Outcome
  <2>2. s.writes \in SUBSET Statement
    BY <1>1 DEF SessionState
  <2> QED BY <1>4, <2>1, <2>2, SessionValues
<1>5. CASE command = "rollback" /\ done = (s.state = "writing") /\ becomes(Connected, {})
  <2>1. Outcome(s, command, done, Connected, {})
    BY <1>5 DEF Outcome
  <2> QED BY <1>5, <2>1, SessionValues
<1>6. CASE /\ command \in Statement /\ s.state = "writing" /\ done
           /\ becomes([s EXCEPT !.writes = @ \cup {command}], {})
  <2> DEFINE t == [s EXCEPT !.writes = @ \cup {command}]
  <2>1. t \in SessionState /\ t = [state |-> s.state, writes |-> s.writes \cup {command}, late |-> s.late]
    BY <1>1, <1>6 DEF SessionState
  <2>2. Outcome(s, command, done, t, {})
    BY <1>6, <2>1 DEF Outcome
  <2> QED BY <1>6, <2>1, <2>2
<1>7. CASE command \in Statement /\ s.state # "writing" /\ done /\ becomes(s, {command})
  <2>1. Outcome(s, command, done, s, {command})
    BY <1>7 DEF Outcome
  <2> QED BY <1>1, <1>7, <2>1
<1>8. CASE /\ command \in Statement \cup {"begin"} /\ s.state # "writing" /\ ~done
           /\ UNCHANGED <<session, applied>>
  <2>1. Outcome(s, command, done, s, {})
    BY <1>8 DEF Outcome, Statement
  <2> QED BY <1>1, <1>2, <1>8, <2>1
<1> QED BY <1>3, <1>4, <1>5, <1>6, <1>7, <1>8 DEF Executed

\* A client that goes on is a client, and alone.
LEMMA ClientEntry ==
  ASSUME ClientShape, NEW c \in Client, NEW r \in ClientState, client' = [client EXCEPT ![c] = r]
  PROVE  /\ client' \in [Client -> ClientState] /\ client'[c] = r
         /\ \A d \in Client : d # c => client'[d] = client[d]
BY DEF ClientShape

\* After an error there is nothing left to do but to roll back.
LEMMA GivenValues ==
  ASSUME ClientShape, NEW c \in Client, NEW transaction \in BOOLEAN, NEW told \in {"unknown", "failed"}
  PROVE  /\ Given(c, transaction, told) \in ClientState
         /\ Given(c, transaction, told).next =
              IF Given(c, transaction, told).transaction THEN "rollback" ELSE "done"
         /\ Given(c, transaction, told).transaction = (transaction /\ client[c].next # "rollback")
         /\ Given(c, transaction, told).told =
              IF client[c].told = "nothing" THEN told ELSE client[c].told
<1>1. client[c].told \in {"nothing", "committed", "unknown", "failed"}
  BY DEF ClientShape, ClientState
<1> QED BY <1>1 DEF Given, ClientState

-----------------------------------------------------------------------------
\* Connecting opens a session for a client that has not begun.
LEMMA ConnectOnly ==
  ASSUME Clients, NEW c \in Client, NEW p \in Proc, Connect(c, p)
  PROVE  Only(c)
<1>1. /\ client' = client /\ applied' = applied
      /\ conn' = [conn EXCEPT ![c] = p] /\ session' = [session EXCEPT ![p][c] = Connected]
      /\ client[c].next # "done" /\ ~client[c].transaction
  BY DEF Connect
<1>2. ClientShape /\ Whole(c)
  BY DEF Clients
<1>3. /\ session' \in [Proc -> [Client -> SessionState]]
      /\ session'[p][c] = Connected
      /\ \A q \in Proc, d \in Client : q # p \/ d # c => session'[q][d] = session[q][d]
  BY <1>1, <1>2, SessionEntry, SessionValues
<1>4. conn' \in [Client -> Proc \cup {None}] /\ \A d \in Client : d # c => conn'[d] = conn[d]
  BY <1>1, <1>2 DEF ClientShape
<1>5. ClientShape' /\ \A d \in Client : d # c => Same(d)
  BY <1>1, <1>2, <1>3, <1>4 DEF ClientShape, Same
<1>6. Fresh(c)
  BY <1>1, <1>2 DEF Whole, Within, Ended
<1>7. Fresh(c)'
  BY <1>1, <1>3, <1>6, SessionValues DEF Fresh, Zero
<1>8. ASSUME NEW q \in Proc
      PROVE  Late(q, c)' /\ (session'[q][c].state # "writing" => session'[q][c].writes = {})
  <2>1. CASE q = p
    BY <1>3, <2>1, SessionValues DEF Late
  <2>2. CASE q # p
    <3>1. session'[q][c] = session[q][c]
      BY <1>3, <2>2
    <3>2. ~session[q][c].late /\ (session[q][c].state # "writing" => session[q][c].writes = {})
      BY <1>2, <1>6 DEF Whole, Late, Fresh
    <3> QED BY <3>1, <3>2 DEF Late
  <2> QED BY <2>1, <2>2
<1> QED BY <1>1, <1>5, <1>7, <1>8 DEF Only, Whole, Lawful

\* Giving up without a call leaves a client with a rollback at most.
LEMMA GivingUpOnly ==
  ASSUME Clients, NEW c \in Client, Unreachable(c) \/ Abandon(c) \/ Refuse(c)
  PROVE  Only(c)
<1>1. PICK transaction \in BOOLEAN :
        /\ client' = [client EXCEPT ![c] = Given(c, transaction, "failed")]
        /\ transaction = client[c].transaction
  BY DEF Unreachable, Abandon, Refuse, Clients, ClientShape, ClientState
<1>2. UNCHANGED <<session, conn, applied>> /\ client[c].next # "done"
  <2>1. client[c].transaction => Within(c) \/ Ended(c)
    BY DEF Clients, Whole, Fresh
  <2>2. client[c].transaction => client[c].next # "done"
    BY <2>1 DEF Within, Ended
  <2> QED BY <2>2 DEF Unreachable, Abandon, Refuse
<1>3. ClientShape /\ Whole(c)
  BY DEF Clients
<1> DEFINE r == Given(c, transaction, "failed")
<1>4. /\ r \in ClientState /\ r.next = IF r.transaction THEN "rollback" ELSE "done"
      /\ r.told = IF client[c].told = "nothing" THEN "failed" ELSE client[c].told
  BY <1>3, GivenValues
<1>5. client' = [client EXCEPT ![c] = r]
  BY <1>1
<1> HIDE DEF r
<1>6. /\ client' \in [Client -> ClientState] /\ client'[c] = r
      /\ \A d \in Client : d # c => client'[d] = client[d]
  BY <1>3, <1>4, <1>5, ClientEntry
<1>7. ClientShape' /\ \A d \in Client : d # c => Same(d)
  BY <1>2, <1>3, <1>6 DEF ClientShape, Same
<1>8. (client[c].told = "nothing" => Zero(c)) /\ (client[c].told # "nothing" => Ended(c))
  BY <1>3 DEF Whole, Fresh, Within, Ended
<1>9. Ended(c)'
  BY <1>2, <1>4, <1>6, <1>8 DEF Ended, Zero, Full
<1>10. ASSUME NEW q \in Proc
       PROVE  Late(q, c)' /\ (session'[q][c].state # "writing" => session'[q][c].writes = {})
  BY <1>2, <1>3, <1>4, <1>6 DEF Whole, Late, Zero
<1>11. Lawful(c)
  BY <1>2, <1>4, <1>6, <1>8 DEF Lawful
<1> QED BY <1>7, <1>9, <1>10, <1>11 DEF Only, Whole

\* What the execution of a command means for a client with a stream.
Effect(p, c, now, done) ==
  /\ session' \in [Proc -> [Client -> SessionState]]
  /\ applied' \in [Client -> [Statement -> Nat]]
  /\ \A d \in Client : d # c =>
       applied'[d] = applied[d] /\ \A q \in Proc : session'[q][d] = session[q][d]
  /\ \A q \in Proc : q # p => session'[q][c] = session[q][c]
  /\ \A q \in Proc : ~session'[q][c].late
  /\ \/ /\ now = "begin" /\ Fresh(c) /\ c \notin Single /\ applied'[c] = applied[c]
        /\ IF done THEN session'[p][c].state = "writing" /\ session'[p][c].writes = {}
                   ELSE session'[p][c] = session[p][c]
     \/ /\ now = "first" /\ Fresh(c) /\ c \in Single /\ session'[p][c] = session[p][c]
        /\ IF done THEN Full(c)' ELSE applied'[c] = applied[c]
     \/ /\ now \in Statement /\ Within(c) /\ done /\ applied'[c] = applied[c]
        /\ session'[p][c].state = "writing"
        /\ session'[p][c].writes = session[p][c].writes \cup {now}
        /\ session[p][c].state = "writing"
     \/ /\ now = "commit" /\ Within(c) /\ done /\ Full(c)'
        /\ session'[p][c].state = "open" /\ session'[p][c].writes = {}
     \/ /\ now = "rollback" /\ Ended(c) /\ client[c].transaction /\ applied'[c] = applied[c]
        /\ session'[p][c].state = "open" /\ session'[p][c].writes = {}

\* A command has the effect that the stage of its client's transaction calls for.
LEMMA Execution ==
  ASSUME Clients, NEW c \in Client, NEW p \in Proc, conn[c] = p,
         NEW now \in Command, client[c].next = now,
         NEW done \in BOOLEAN, Executed(p, c, now, done), session[p][c].state # "none"
  PROVE  Effect(p, c, now, done)
<1>1. ClientShape /\ Whole(c)
  BY DEF Clients
<1>2. PICK t \in SessionState, w \in SUBSET Statement :
        /\ Outcome(session[p][c], now, done, t, w)
        /\ session' = [session EXCEPT ![p][c] = t]
        /\ applied' = Count(c, w)
  BY <1>1, ExecutedEntry
<1>3. /\ session' \in [Proc -> [Client -> SessionState]]
      /\ session'[p][c] = t
      /\ \A q \in Proc, d \in Client : q # p \/ d # c => session'[q][d] = session[q][d]
  <2>1. session' = [session EXCEPT ![p][c] = t]
    BY <1>2
  <2>2. session \in [Proc -> [Client -> SessionState]]
    BY <1>1 DEF ClientShape
  <2> QED BY <2>1, <2>2
<1>4. /\ applied' \in [Client -> [Statement -> Nat]]
      /\ \A x \in Statement : applied'[c][x] = applied[c][x] + IF x \in w THEN 1 ELSE 0
      /\ \A d \in Client : d # c => applied'[d] = applied[d]
      /\ w = {} => applied'[c] = applied[c]
  <2>1. applied' = Count(c, w)
    BY <1>2
  <2> QED BY <1>1, <2>1, CountEntry
<1>5. \A q \in Proc : ~session[q][c].late
  <2>1. p # None
    BY OwnerAssumption
  <2> QED BY <1>1, <2>1 DEF Whole, Late
<1>6. ~t.late
  BY <1>2, <1>5, SessionValues DEF Outcome
<1>7. \A q \in Proc : ~session'[q][c].late
  BY <1>3, <1>5, <1>6
<1>8. CASE Fresh(c) /\ c \notin Single
  <2>1. now = "begin"
    BY <1>8 DEF Fresh
  <2>2. session[p][c].writes = {}
    BY <1>1, <1>8 DEF Fresh, Whole
  <2>3. w = {} /\ IF done THEN t.state = "writing" /\ t.writes = {} ELSE t = session[p][c]
    BY <1>2, <2>1, <2>2 DEF Outcome, Statement
  <2> QED BY <1>3, <1>4, <1>7, <1>8, <2>1, <2>3 DEF Effect
<1>9. CASE Fresh(c) /\ c \in Single
  <2>1. now = "first"
    BY <1>9 DEF Fresh
  <2>2. session[p][c].state # "writing"
    BY <1>9 DEF Fresh
  <2>3. t = session[p][c] /\ w = IF done THEN {"first"} ELSE {}
    BY <1>2, <2>1, <2>2 DEF Outcome, Statement
  <2>4. done => Full(c)'
    BY <1>4, <1>9, <2>3 DEF Fresh, Zero, Full, Statements, Statement
  <2> QED BY <1>3, <1>4, <1>7, <1>9, <2>1, <2>3, <2>4 DEF Effect
<1>10. CASE Within(c)
  <2>1. session[p][c].state = "writing"
    <3>1. session[p][c] \in SessionState
      BY <1>1 DEF ClientShape
    <3>2. session[p][c].state # "open"
      BY <1>10 DEF Within
    <3> QED BY <3>1, <3>2 DEF SessionState
  <2>2. session[p][c].writes = Before(now)
    BY <1>10, <2>1 DEF Within
  <2>3. CASE now \in Statement
    <3>1. done /\ w = {} /\ t.state = "writing" /\ t.writes = session[p][c].writes \cup {now}
      BY <1>2, <2>1, <2>3 DEF Outcome, Statement
    <3> QED BY <1>3, <1>4, <1>7, <1>10, <2>1, <2>3, <3>1 DEF Effect
  <2>4. CASE now = "commit"
    <3>1. done /\ w = Statement /\ t = Connected
      BY <1>2, <2>1, <2>2, <2>4 DEF Outcome, Statement, Before
    <3>2. Full(c)'
      BY <1>4, <1>10, <3>1 DEF Within, Zero, Full, Statements
    <3> QED BY <1>3, <1>4, <1>7, <1>10, <2>4, <3>1, <3>2, SessionValues DEF Effect
  <2> QED BY <1>10, <2>3, <2>4 DEF Within, Statement
<1>11. CASE Ended(c)
  <2>1. now = "rollback" /\ client[c].transaction
    BY <1>11 DEF Ended, Command, Statement
  <2>2. w = {} /\ t = Connected
    BY <1>2, <2>1 DEF Outcome, Statement
  <2> QED BY <1>3, <1>4, <1>7, <1>11, <2>1, <2>2, SessionValues DEF Effect
<1> QED BY <1>1, <1>8, <1>9, <1>10, <1>11 DEF Whole

\* A command with its reply.
LEMMA CallOnly ==
  ASSUME Clients, NEW c \in Client, Call(c)
  PROVE  Only(c)
<1>1. ClientShape /\ Whole(c)
  BY DEF Clients
<1>2. PICK p \in Proc : conn[c] = p
  BY <1>1 DEF Call, ClientShape
<1>3. PICK now \in Command : client[c].next = now
  BY <1>1 DEF Call, ClientShape, ClientState, Command
<1>4. PICK done \in BOOLEAN :
        /\ Executed(p, c, now, done)
        /\ client' = [client EXCEPT ![c] =
             IF ~done \/ now = "rollback"
             THEN Given(c, session'[p][c].state = "writing", "failed")
             ELSE [next |-> Following(c),
                   transaction |-> session'[p][c].state = "writing",
                   told |-> IF Decides(c) THEN "committed" ELSE "nothing"]]
  BY <1>2, <1>3 DEF Call
<1>5. session[p][c].state # "none" /\ conn' = conn
  BY <1>2 DEF Call
<1>6. Effect(p, c, now, done)
  <2>1. Executed(p, c, now, done)
    BY <1>4
  <2>2. session[p][c].state # "none"
    BY <1>5
  <2>3. conn[c] = p /\ client[c].next = now
    BY <1>2, <1>3
  <2> QED BY <2>1, <2>2, <2>3, Execution
<1>7. PICK writing \in BOOLEAN : writing = (session'[p][c].state = "writing")
  OBVIOUS
<1> DEFINE g == Given(c, writing, "failed")
           n == [next |-> Following(c), transaction |-> writing,
                 told |-> IF Decides(c) THEN "committed" ELSE "nothing"]
           r == IF ~done \/ now = "rollback" THEN g ELSE n
<1>8. client' = [client EXCEPT ![c] = r]
  BY <1>4, <1>7
<1>9. /\ g \in ClientState /\ g.next = IF g.transaction THEN "rollback" ELSE "done"
      /\ g.transaction = (writing /\ now # "rollback")
      /\ g.told = IF client[c].told = "nothing" THEN "failed" ELSE client[c].told
  BY <1>1, <1>3, GivenValues
<1>10. /\ n \in ClientState /\ n.next = Following(c) /\ n.transaction = writing
       /\ n.told = IF Following(c) = "done" THEN "committed" ELSE "nothing"
  BY DEF ClientState, Following, Decides, Statement
<1>11. r \in ClientState /\ r = IF ~done \/ now = "rollback" THEN g ELSE n
  BY <1>9, <1>10
<1> HIDE DEF r, g, n
<1>12. /\ client' \in [Client -> ClientState] /\ client'[c] = r
       /\ \A d \in Client : d # c => client'[d] = client[d]
  BY <1>1, <1>8, <1>11, ClientEntry
<1>13. ClientShape' /\ \A d \in Client : d # c => Same(d)
  BY <1>1, <1>5, <1>6, <1>12 DEF ClientShape, Same, Effect
<1>14. ASSUME NEW q \in Proc
       PROVE  Late(q, c)' /\ (session'[q][c].state # "writing" => session'[q][c].writes = {})
  BY <1>1, <1>6 DEF Whole, Late, Effect
<1>15. (Fresh(c)' \/ Within(c)' \/ Ended(c)') /\ Lawful(c)
  <2>1. CASE now = "begin" /\ Fresh(c) /\ done
    <3>1. r = n /\ Following(c) = "first" /\ writing
      BY <1>3, <1>6, <1>7, <1>11, <2>1 DEF Following, Fresh, Statement, Effect
    <3>2. applied'[c] = applied[c] /\ c \notin Single
      BY <1>6, <2>1 DEF Fresh, Statement, Effect
    <3>3. /\ client'[c].next = "first" /\ client'[c].transaction /\ client'[c].told = "nothing"
      BY <1>10, <1>12, <3>1
    <3>4. /\ session'[p][c].state = "writing" /\ session'[p][c].writes = {}
          /\ \A q \in Proc : q # p => session'[q][c].state # "writing"
      BY <1>6, <2>1 DEF Fresh, Statement, Effect
    <3>5. Within(c)'
      BY <1>2, <1>5, <2>1, <3>2, <3>3, <3>4, OwnerAssumption DEF Within, Fresh, Zero, Before
    <3> QED BY <2>1, <3>2, <3>3, <3>5 DEF Lawful, Fresh
  <2>2. CASE Fresh(c) /\ ~done
    <3>1. r = g /\ ~writing /\ applied'[c] = applied[c]
      BY <1>3, <1>6, <1>7, <1>11, <2>2 DEF Fresh, Statement, Effect
    <3>2. client'[c].next = "done" /\ ~client'[c].transaction /\ client'[c].told = "failed"
      BY <1>9, <1>12, <2>2, <3>1 DEF Fresh
    <3>3. Ended(c)'
      BY <2>2, <3>1, <3>2 DEF Ended, Fresh, Zero
    <3> QED BY <2>2, <3>1, <3>2, <3>3 DEF Lawful, Fresh
  <2>3. CASE now = "first" /\ Fresh(c) /\ done
    <3>1. r = n /\ Following(c) = "done" /\ ~writing /\ Full(c)'
      BY <1>3, <1>6, <1>7, <1>11, <2>3 DEF Following, Fresh, Effect
    <3>2. client'[c].next = "done" /\ ~client'[c].transaction /\ client'[c].told = "committed"
      BY <1>10, <1>12, <3>1
    <3>3. Ended(c)'
      BY <3>1, <3>2 DEF Ended
    <3> QED BY <2>3, <3>1, <3>2, <3>3 DEF Lawful, Fresh
  <2>4. CASE now \in Statement /\ Within(c)
    <3>1. /\ applied'[c] = applied[c] /\ done /\ session'[p][c].state = "writing"
          /\ session'[p][c].writes = session[p][c].writes \cup {now}
          /\ session[p][c].state = "writing"
      BY <1>6, <2>4 DEF Fresh, Within, Statement, Effect
    <3>2. r = n /\ writing /\ Following(c) = IF now = "first" THEN "second" ELSE "commit"
      BY <1>3, <1>7, <1>11, <2>4, <3>1 DEF Following, Within, Statement
    <3>3. /\ client'[c].next = IF now = "first" THEN "second" ELSE "commit"
          /\ client'[c].transaction /\ client'[c].told = "nothing"
      BY <1>10, <1>12, <3>2
    <3>4. session'[p][c].writes = Before(client'[c].next)
      BY <1>2, <1>3, <2>4, <3>1, <3>3 DEF Within, Before, Statement
    <3>5. \A q \in Proc : q # p => session'[q][c].state # "writing"
      BY <1>2, <1>6, <2>4 DEF Within, Effect
    <3>6. Within(c)'
      BY <1>2, <1>5, <2>4, <3>1, <3>3, <3>4, <3>5 DEF Within, Zero
    <3> QED BY <2>4, <3>1, <3>3, <3>6 DEF Lawful, Within
  <2>5. CASE now = "commit" /\ Within(c)
    <3>1. Full(c)' /\ done /\ session'[p][c].state = "open"
      BY <1>6, <2>5 DEF Statement, Effect
    <3>2. r = n /\ ~writing /\ Following(c) = "done"
      BY <1>3, <1>7, <1>11, <2>5, <3>1 DEF Following
    <3>3. client'[c].next = "done" /\ ~client'[c].transaction /\ client'[c].told = "committed"
      BY <1>10, <1>12, <3>2
    <3>4. Ended(c)'
      BY <3>1, <3>3 DEF Ended
    <3> QED BY <2>5, <3>1, <3>3, <3>4 DEF Lawful, Within
  <2>6. CASE now = "rollback" /\ Ended(c)
    <3>1. applied'[c] = applied[c]
      BY <1>6, <2>6 DEF Statement, Effect
    <3>2. /\ client'[c].next = "done" /\ ~client'[c].transaction
          /\ client'[c].told = client[c].told
      BY <1>9, <1>11, <1>12, <2>6 DEF Ended
    <3>3. Ended(c)'
      BY <2>6, <3>1, <3>2 DEF Ended, Zero, Full
    <3> QED BY <3>1, <3>2, <3>3 DEF Lawful
  <2> QED BY <1>6, <2>1, <2>2, <2>3, <2>4, <2>5, <2>6 DEF Effect
<1> QED BY <1>13, <1>14, <1>15 DEF Only, Whole

\* A command without its reply.
LEMMA BreakOnly ==
  ASSUME Clients, NEW c \in Client, Break(c)
  PROVE  Only(c)
<1>1. ClientShape /\ Whole(c)
  BY DEF Clients
<1>2. PICK p \in Proc : conn[c] = p
  BY <1>1 DEF Break, ClientShape
<1>3. PICK now \in Command : client[c].next = now
  BY <1>1 DEF Break, ClientShape, ClientState, Command
<1>4. now # "done" /\ conn' = [conn EXCEPT ![c] = None]
  BY <1>3 DEF Break
<1>5. PICK transaction \in BOOLEAN : transaction = client[c].transaction
  BY <1>1 DEF ClientShape, ClientState
<1>6. PICK told \in {"unknown", "failed"} :
        told = IF Following(c) = "done" THEN "unknown" ELSE "failed"
  OBVIOUS
<1> DEFINE r == Given(c, transaction, told)
<1>7. client' = [client EXCEPT ![c] = r]
  BY <1>5, <1>6 DEF Break, Decides
<1>8. /\ r \in ClientState /\ r.next = IF r.transaction THEN "rollback" ELSE "done"
      /\ r.transaction = (transaction /\ now # "rollback")
      /\ r.told = IF client[c].told = "nothing" THEN told ELSE client[c].told
  BY <1>1, <1>3, GivenValues
<1> HIDE DEF r
<1>9. /\ client' \in [Client -> ClientState] /\ client'[c] = r
      /\ \A d \in Client : d # c => client'[d] = client[d]
  BY <1>1, <1>7, <1>8, ClientEntry
<1>10. /\ conn' \in [Client -> Proc \cup {None}] /\ conn'[c] = None
       /\ \A d \in Client : d # c => conn'[d] = conn[d]
  BY <1>1, <1>4 DEF ClientShape
<1>11. \A q \in Proc : ~session[q][c].late
  <2>1. p # None
    BY OwnerAssumption
  <2> QED BY <1>1, <1>2, <2>1 DEF Whole, Late
<1>12. told = IF now = "commit" \/ now = "rollback" \/ (now = "first" /\ c \in Single)
              THEN "unknown" ELSE "failed"
  BY <1>3, <1>6 DEF Following, Command, Statement
<1>13. CASE UNCHANGED <<session, applied>>
  <2>1. ClientShape' /\ \A d \in Client : d # c => Same(d)
    BY <1>1, <1>9, <1>10, <1>13 DEF ClientShape, Same
  <2>2. (client[c].told = "nothing" => Zero(c)) /\ (client[c].told # "nothing" => Ended(c))
    BY <1>1 DEF Whole, Fresh, Within, Ended
  <2>3. Ended(c)'
    BY <1>8, <1>9, <1>13, <2>2 DEF Ended, Zero, Full
  <2>4. Lawful(c)
    BY <1>8, <1>9, <1>13, <2>2 DEF Lawful
  <2>5. ASSUME NEW q \in Proc
        PROVE  Late(q, c)' /\ (session'[q][c].state # "writing" => session'[q][c].writes = {})
    BY <1>1, <1>11, <1>13 DEF Whole, Late
  <2> QED BY <2>1, <2>3, <2>4, <2>5 DEF Only, Whole
<1>14. CASE session[p][c].state # "none" /\ \E done \in BOOLEAN : Executed(p, c, now, done)
  <2>1. PICK done \in BOOLEAN : Executed(p, c, now, done)
    BY <1>14
  <2>2. conn[c] = p /\ client[c].next = now /\ session[p][c].state # "none"
    BY <1>2, <1>3, <1>14
  <2>3. Effect(p, c, now, done)
    BY <2>1, <2>2, Execution
  <2>4. ClientShape' /\ \A d \in Client : d # c => Same(d)
    BY <1>1, <1>9, <1>10, <2>3 DEF ClientShape, Same, Effect
  <2>5. ASSUME NEW q \in Proc
        PROVE  Late(q, c)' /\ (session'[q][c].state # "writing" => session'[q][c].writes = {})
    BY <1>1, <2>3 DEF Whole, Late, Effect
  <2>6. Ended(c)' /\ Lawful(c)
    <3>1. CASE Ended(c)
      <4>1. applied'[c] = applied[c]
        BY <2>3, <3>1 DEF Effect, Ended, Fresh, Within
      <4>2. r.told = client[c].told
        BY <1>8, <3>1 DEF Ended
      <4> QED BY <1>8, <1>9, <3>1, <4>1, <4>2 DEF Ended, Lawful, Zero, Full
    <3>2. CASE (Fresh(c) \/ Within(c)) /\ applied'[c] = applied[c]
      <4>1. client[c].told = "nothing" /\ Zero(c) /\ Zero(c)'
        BY <3>2 DEF Fresh, Within, Zero
      <4> QED BY <1>8, <1>9, <3>2, <4>1 DEF Ended, Lawful
    <3>3. CASE (Fresh(c) \/ Within(c)) /\ applied'[c] # applied[c]
      <4>1. client[c].told = "nothing" /\ Zero(c)
        BY <3>3 DEF Fresh, Within
      <4>2. Full(c)' /\ (now = "commit" \/ (now = "first" /\ c \in Single))
        BY <2>3, <3>3 DEF Effect
      <4>3. told = "unknown"
        BY <1>12, <4>2
      <4> QED BY <1>8, <1>9, <4>1, <4>2, <4>3 DEF Ended, Lawful
    <3> QED BY <1>1, <3>1, <3>2, <3>3 DEF Whole
  <2> QED BY <2>4, <2>5, <2>6 DEF Only, Whole
<1>15. CASE /\ now = "commit" /\ session[p][c].state = "writing"
            /\ session' = [session EXCEPT ![p][c].late = TRUE]
            /\ UNCHANGED applied
  <2> DEFINE t == [session[p][c] EXCEPT !.late = TRUE]
  <2>1. session[p][c] \in SessionState
    BY <1>1 DEF ClientShape
  <2>2. /\ t \in SessionState /\ t.state = "writing" /\ t.writes = session[p][c].writes
    BY <1>15, <2>1 DEF SessionState
  <2>3. session' = [session EXCEPT ![p][c] = t]
    BY <1>15
  <2> HIDE DEF t
  <2>4. /\ session' \in [Proc -> [Client -> SessionState]]
        /\ session'[p][c] = t
        /\ \A q \in Proc, d \in Client : q # p \/ d # c => session'[q][d] = session[q][d]
    BY <1>1, <2>2, <2>3 DEF ClientShape
  <2>5. ClientShape' /\ \A d \in Client : d # c => Same(d)
    BY <1>1, <1>9, <1>10, <1>15, <2>4 DEF ClientShape, Same
  <2>6. Within(c)
    BY <1>1, <1>3, <1>15 DEF Whole, Fresh, Ended
  <2>7. client[c].told = "nothing" /\ Zero(c) /\ Zero(c)' /\ c \notin Single
    BY <1>15, <2>6 DEF Within, Zero
  <2>8. told = "unknown" /\ client'[c].told = "unknown"
    BY <1>8, <1>9, <1>12, <1>15, <2>7
  <2>9. Ended(c)' /\ Lawful(c)
    BY <1>8, <1>9, <1>15, <2>7, <2>8 DEF Ended, Lawful
  <2>10. t.writes = Statement
    BY <1>3, <1>15, <2>2, <2>6 DEF Within, Before
  <2>11. ASSUME NEW q \in Proc
         PROVE  Late(q, c)' /\ (session'[q][c].state # "writing" => session'[q][c].writes = {})
    <3>1. CASE q = p
      BY <1>10, <1>11, <2>2, <2>4, <2>7, <2>8, <2>10, <3>1 DEF Late
    <3>2. CASE q # p
      BY <1>1, <1>11, <2>4, <3>2 DEF Whole, Late
    <3> QED BY <3>1, <3>2
  <2> QED BY <2>5, <2>9, <2>11 DEF Only, Whole
<1> QED BY <1>2, <1>3, <1>13, <1>14, <1>15 DEF Break

\* A COMMIT that is executed after its client has gone.
LEMMA LateCommitOnly ==
  ASSUME Clients, NEW p \in Proc, NEW c \in Client, LateCommit(p, c)
  PROVE  Only(c)
<1>1. ClientShape /\ Whole(c)
  BY DEF Clients
<1>2. /\ session[p][c].late /\ conn' = conn /\ client' = client
      /\ session' = [session EXCEPT ![p][c] = Connected]
  BY DEF LateCommit
<1>3. /\ session[p][c].state = "writing" /\ session[p][c].writes = Statement
      /\ c \notin Single /\ client[c].told = "unknown" /\ Zero(c) /\ conn[c] = None
      /\ \A q \in Proc : q # p => ~session[q][c].late
  BY <1>1, <1>2 DEF Whole, Late
<1>4. applied' = Count(c, Statement)
  BY <1>3 DEF LateCommit
<1>5. /\ session' \in [Proc -> [Client -> SessionState]]
      /\ session'[p][c] = Connected
      /\ \A q \in Proc, d \in Client : q # p \/ d # c => session'[q][d] = session[q][d]
  <2>1. session' = [session EXCEPT ![p][c] = Connected]
    BY <1>2
  <2>2. session \in [Proc -> [Client -> SessionState]]
    BY <1>1 DEF ClientShape
  <2> QED BY <2>1, <2>2, SessionValues
<1>6. /\ applied' \in [Client -> [Statement -> Nat]]
      /\ \A s \in Statement : applied'[c][s] = applied[c][s] + IF s \in Statement THEN 1 ELSE 0
      /\ \A d \in Client : d # c => applied'[d] = applied[d]
  BY <1>1, <1>4, CountEntry
<1>7. ClientShape' /\ \A d \in Client : d # c => Same(d)
  BY <1>1, <1>2, <1>5, <1>6 DEF ClientShape, Same
<1>8. Full(c)'
  BY <1>3, <1>6 DEF Zero, Full, Statements
<1>9. Ended(c)
  BY <1>1, <1>3 DEF Whole, Fresh, Within
<1>10. Ended(c)' /\ Lawful(c)
  BY <1>2, <1>3, <1>8, <1>9 DEF Ended, Lawful
<1>11. ASSUME NEW q \in Proc
       PROVE  Late(q, c)' /\ (session'[q][c].state # "writing" => session'[q][c].writes = {})
  <2>1. CASE q = p
    BY <1>5, <2>1, SessionValues DEF Late
  <2>2. CASE q # p
    BY <1>1, <1>3, <1>5, <2>2 DEF Whole, Late
  <2> QED BY <2>1, <2>2
<1> QED BY <1>7, <1>10, <1>11 DEF Only, Whole

-----------------------------------------------------------------------------
\* Every step keeps all clients whole, and is lawful for the one that it concerns.
LEMMA ClientsStep ==
  ASSUME Clients, [Next]_vars
  PROVE  Kept
<1>1. ASSUME NEW c \in Client, Only(c) PROVE Kept
  <2>1. ASSUME NEW d \in Client PROVE Whole(d)'
    BY <1>1, <2>1, SameKeeps DEF Only, Clients
  <2> QED BY <1>1, <2>1 DEF Only, Clients, Kept
<1>2. ASSUME UNCHANGED <<conn, client, applied>>,
             session' \in [Proc -> [Client -> SessionState]],
             \A p \in Proc, c \in Client : session'[p][c] \in {session[p][c], Closed}
      PROVE  Kept
  <2>1. ClientShape'
    BY <1>2 DEF Clients, ClientShape
  <2>2. ASSUME NEW d \in Client PROVE Whole(d)'
    BY <1>2, LossKeeps DEF Clients
  <2> QED BY <1>2, <2>1, <2>2 DEF Clients, Kept
<1>3. ASSUME UNCHANGED clients PROVE Kept
  BY <1>2, <1>3 DEF clients, Clients, ClientShape
<1>4. ASSUME NEW p \in Proc, Service(p) \/ Stop(p)
      PROVE  Kept
  BY <1>3, <1>4 DEF Service, Open, Flock, Check, Examine, Unlink, Bind, Identify, Displaced,
                    DropListener, DropWriter, Compare, Remove, Stop
<1>5. ASSUME NEW p \in Proc, Crash(p) PROVE Kept
  <2>1. /\ UNCHANGED <<conn, client, applied>>
        /\ session' = [session EXCEPT ![p] = [c \in Client |-> Closed]]
    BY <1>5 DEF Crash
  <2>2. session \in [Proc -> [Client -> SessionState]]
    BY DEF Clients, ClientShape
  <2>3. session' \in [Proc -> [Client -> SessionState]]
    BY <2>1, <2>2, SessionValues
  <2>4. \A q \in Proc, c \in Client : session'[q][c] \in {session[q][c], Closed}
    BY <2>1, <2>2
  <2> QED BY <1>2, <2>1, <2>3, <2>4
<1>6. ASSUME NEW p \in Proc, NEW c \in Client, EndSession(p, c) \/ Expire(p, c)
      PROVE  Kept
  <2>1. /\ UNCHANGED <<conn, client, applied>>
        /\ session' = [session EXCEPT ![p][c] = Closed]
    BY <1>6 DEF EndSession, Expire, Ends
  <2>2. /\ session' \in [Proc -> [Client -> SessionState]]
        /\ session'[p][c] = Closed
        /\ \A q \in Proc, d \in Client : q # p \/ d # c => session'[q][d] = session[q][d]
    <3>1. session \in [Proc -> [Client -> SessionState]] /\ Closed \in SessionState
      BY SessionValues DEF Clients, ClientShape
    <3> QED BY <2>1, <3>1
  <2>3. \A q \in Proc, d \in Client : session'[q][d] \in {session[q][d], Closed}
    BY <2>2
  <2> QED BY <1>2, <2>1, <2>2, <2>3
<1>7. CASE RemoveLock \/ RemoveSocket
  BY <1>3, <1>7 DEF RemoveLock, RemoveSocket
<1>8. CASE UNCHANGED vars
  BY <1>3, <1>8 DEF vars, clients
<1>9. ASSUME NEW p \in Proc, NEW c \in Client, LateCommit(p, c) \/ Connect(c, p)
      PROVE  Kept
  BY <1>1, <1>9, LateCommitOnly, ConnectOnly
<1>10. ASSUME NEW c \in Client, Unreachable(c) \/ Call(c) \/ Break(c) \/ Abandon(c) \/ Refuse(c)
       PROVE  Kept
  BY <1>1, <1>10, GivingUpOnly, CallOnly, BreakOnly
<1> QED BY <1>4, <1>5, <1>6, <1>7, <1>8, <1>9, <1>10 DEF Next, Sessions

\* At first no client has begun.
LEMMA ClientsInit == Init => Clients
<1> SUFFICES ASSUME Init PROVE Clients
  OBVIOUS
<1>1. ClientShape
  BY SessionValues DEF Init, ClientShape, ClientState, Statement
<1>2. ASSUME NEW c \in Client PROVE Whole(c)
  <2>1. /\ client[c].next = IF c \in Single THEN "first" ELSE "begin"
        /\ ~client[c].transaction /\ client[c].told = "nothing"
    BY DEF Init
  <2>2. \A p \in Proc : session[p][c] = Closed
    BY DEF Init
  <2>3. Zero(c)
    BY DEF Init, Zero
  <2> QED BY <2>1, <2>2, <2>3, SessionValues DEF Whole, Fresh, Late
<1> QED BY <1>1, <1>2 DEF Clients

-----------------------------------------------------------------------------
\* A command opens no session.
LEMMA ExecutedWithin ==
  ASSUME ClientShape, NEW p \in Proc, NEW c \in Client, NEW command \in Command,
         NEW done \in BOOLEAN, Executed(p, c, command, done), session[p][c].state # "none"
  PROVE  \A q \in Proc, d \in Client :
           session'[q][d].state # "none" => session[q][d].state # "none"
<1>1. PICK t \in SessionState : session' = [session EXCEPT ![p][c] = t]
  BY ExecutedEntry
<1> QED BY <1>1 DEF ClientShape

\* Sessions are opened by owners that serve, and closed before they are done.
LEMMA SessionsServedStep ==
  ASSUME Election, Clients, SessionsServed, [Next]_vars
  PROVE  SessionsServed'
<1>1. ClientShape /\ ServiceShape
  BY DEF Clients, Election
<1>2. ASSUME UNCHANGED proc,
             \A q \in Proc, d \in Client :
               session'[q][d].state # "none" => session[q][d].state # "none"
      PROVE  SessionsServed'
  BY <1>2 DEF SessionsServed
<1>3. ASSUME NEW p \in Proc, UNCHANGED session, proc' \in [Proc -> ServiceState],
             \A q \in Proc : q # p => proc'[q] = proc[q],
             \/ proc[p].pc \notin {"serving", "draining"}
             \/ proc'[p].pc = "draining"
             \/ \A c \in Client : session[p][c].state = "none"
      PROVE  SessionsServed'
  BY <1>3 DEF SessionsServed
<1>4. ASSUME NEW p \in Proc, Service(p) \/ Stop(p) PROVE SessionsServed'
  <2>1. UNCHANGED session
    BY <1>4 DEF Service, Open, Flock, Check, Examine, Unlink, Bind, Identify, Displaced,
                DropListener, DropWriter, Compare, Remove, Stop, clients
  <2>2. Election'
    BY <1>4, ElectionStep DEF Next
  <2>3. proc' \in [Proc -> ServiceState]
    BY <2>2 DEF Election, ServiceShape
  <2>4. \A q \in Proc : q # p => proc'[q] = proc[q]
    BY <1>1, <1>4 DEF ServiceShape, Service, Open, Flock, Check, Examine, Unlink, Bind, Identify,
                      Displaced, DropListener, DropWriter, Compare, Remove, Stop, Move, Withdraw
  <2>5. \/ proc[p].pc \notin {"serving", "draining"}
        \/ proc'[p].pc = "draining"
        \/ \A c \in Client : session[p][c].state = "none"
    <3>1. CASE Displaced(p) \/ Stop(p)
      BY <1>1, <3>1 DEF Displaced, Stop, Move, ServiceShape, ServiceState
    <3>2. CASE DropListener(p)
      BY <3>2 DEF DropListener
    <3>3. CASE DropWriter(p)
      BY <3>3 DEF DropWriter
    <3> QED BY <1>4, <3>1, <3>2, <3>3 DEF Service, Open, Flock, Check, Examine, Unlink, Bind,
                                          Identify, Compare, Remove
  <2> QED BY <1>3, <2>1, <2>3, <2>4, <2>5
<1>5. ASSUME NEW p \in Proc, Crash(p) PROVE SessionsServed'
  <2>1. /\ proc' = [proc EXCEPT ![p] = Idle]
        /\ session' = [session EXCEPT ![p] = [c \in Client |-> Closed]]
    BY <1>5 DEF Crash, Withdraw
  <2> QED BY <1>1, <2>1, SessionValues DEF SessionsServed, ClientShape, ServiceShape
<1>6. ASSUME NEW p \in Proc, NEW c \in Client, EndSession(p, c) \/ Expire(p, c)
      PROVE  SessionsServed'
  <2>1. UNCHANGED proc /\ session' = [session EXCEPT ![p][c] = Closed]
    BY <1>6 DEF EndSession, Expire, Ends, services
  <2> QED BY <1>1, <1>2, <2>1, SessionValues DEF ClientShape
<1>7. ASSUME NEW p \in Proc, NEW c \in Client, LateCommit(p, c)
      PROVE  SessionsServed'
  <2>1. UNCHANGED proc /\ session' = [session EXCEPT ![p][c] = Connected]
    BY <1>7 DEF LateCommit, services
  <2>2. session[p][c].state # "none"
    BY <1>7 DEF LateCommit, Clients, Whole, Late
  <2> QED BY <1>1, <1>2, <2>1, <2>2 DEF ClientShape
<1>8. CASE RemoveLock \/ RemoveSocket \/ UNCHANGED vars
  BY <1>2, <1>8 DEF RemoveLock, RemoveSocket, vars, clients
<1>9. ASSUME NEW p \in Proc, NEW c \in Client, Connect(c, p) PROVE SessionsServed'
  <2>1. /\ UNCHANGED proc /\ session' = [session EXCEPT ![p][c] = Connected]
        /\ proc[p].pc = "serving"
    BY <1>9 DEF Connect, services
  <2> QED BY <1>1, <2>1 DEF ClientShape, SessionsServed
<1>10. ASSUME NEW c \in Client, Unreachable(c) \/ Abandon(c) \/ Refuse(c)
       PROVE  SessionsServed'
  BY <1>2, <1>10 DEF Unreachable, Abandon, Refuse, services
<1>11. ASSUME NEW c \in Client, Call(c) \/ Break(c) PROVE SessionsServed'
  <2>1. PICK p \in Proc : conn[c] = p
    BY <1>1, <1>11 DEF Call, Break, ClientShape
  <2>2. PICK now \in Command : client[c].next = now
    BY <1>1, <1>11 DEF Call, Break, ClientShape, ClientState, Command
  <2>3. UNCHANGED proc
    BY <1>11 DEF Call, Break, services
  <2>4. \/ UNCHANGED session
        \/ session[p][c].state # "none" /\ \E done \in BOOLEAN : Executed(p, c, now, done)
        \/ session[p][c].state = "writing" /\ session' = [session EXCEPT ![p][c].late = TRUE]
    BY <1>11, <2>1, <2>2 DEF Call, Break
  <2>5. CASE UNCHANGED session
    BY <1>2, <2>3, <2>5
  <2>6. CASE session[p][c].state # "none" /\ \E done \in BOOLEAN : Executed(p, c, now, done)
    BY <1>1, <1>2, <2>3, <2>6, ExecutedWithin
  <2>7. CASE session[p][c].state = "writing" /\ session' = [session EXCEPT ![p][c].late = TRUE]
    <3>1. \A q \in Proc, d \in Client :
            session'[q][d].state # "none" => session[q][d].state # "none"
      BY <1>1, <2>7 DEF ClientShape, SessionState
    <3> QED BY <1>2, <2>3, <3>1
  <2> QED BY <2>4, <2>5, <2>6, <2>7
<1> QED BY <1>4, <1>5, <1>6, <1>7, <1>8, <1>9, <1>10, <1>11 DEF Next, Sessions

\* Exits are counted up to the bound.
Exits == exits \in 0 .. MaxExits
IInv == Election /\ Clients /\ SessionsServed /\ Exits

\* The invariant of elections, sessions and clients.
THEOREM Inductive == Spec => []IInv
<1>1. Init => IInv
  <2> SUFFICES ASSUME Init PROVE IInv
    OBVIOUS
  <2>1. SessionsServed /\ Exits
    BY SessionValues, OwnerAssumption DEF Init, SessionsServed, Exits
  <2> QED BY <2>1, ElectionInit, ClientsInit DEF IInv
<1>2. IInv /\ [Next]_vars => IInv'
  <2> SUFFICES ASSUME IInv, [Next]_vars PROVE IInv'
    OBVIOUS
  <2>1. Election' /\ Clients' /\ SessionsServed'
    BY ElectionStep, ClientsStep, SessionsServedStep DEF IInv, Kept
  <2>2. exits' = exits \/ (exits < MaxExits /\ exits' = exits + 1)
    BY DEF Next, vars, Sessions, Service, Open, Flock, Check, Examine, Unlink, Bind, Identify,
           Displaced, DropListener, DropWriter, Compare, Remove, Stop, Crash, RemoveLock, RemoveSocket,
           EndSession, Expire, Ends, LateCommit, Connect, Unreachable, Call, Break, Abandon, Refuse
  <2>3. Exits'
    BY <2>2, OwnerAssumption DEF IInv, Exits
  <2> QED BY <2>1, <2>3 DEF IInv
<1> QED BY <1>1, <1>2, PTL DEF Spec

\* Every variable keeps its type, and no statement is in the database twice,
\* however streams fail while a command is executed.
THEOREM TypeCorrect == Spec => []TypeOK
<1>1. IInv => TypeOK
  <2> SUFFICES ASSUME IInv PROVE TypeOK
    OBVIOUS
  <2>1. ServiceShape /\ ClientShape /\ Exits
    BY DEF IInv, Election, Clients
  <2>2. ASSUME NEW c \in Client, NEW s \in Statement PROVE applied[c][s] \in 0 .. 1
    <3>1. Zero(c) \/ Full(c)
      <4>1. client[c].told \in {"nothing", "committed", "unknown", "failed"}
        BY <2>1 DEF ClientShape, ClientState
      <4> QED BY <4>1 DEF IInv, Clients, Whole, Fresh, Within, Ended
    <3> QED BY <3>1 DEF Zero, Full
  <2>3. applied \in [Client -> [Statement -> 0 .. 1]]
    BY <2>1, <2>2 DEF ClientShape
  <2> QED BY <2>1, <2>3 DEF TypeOK, ServiceShape, ClientShape, ServiceState, SessionState,
                            ClientState, Exits
<1> QED BY <1>1, Inductive, PTL

\* While a session of one service is in a transaction, no other service has the
\* writer of the database open, except to close it: the sessions of an owner end
\* before another one opens the writer, unless both of its names were removed.
THEOREM TakesTurns == Spec => []WritersTakeTurns
<1>1. IInv => WritersTakeTurns
  <2> SUFFICES ASSUME IInv, removed # {"lock", "socket"}, NEW p \in Proc, NEW q \in Proc, p # q,
                      NEW c \in Client, session[p][c].state = "writing",
                      proc[q].pc \notin {"idle", "opened", "locked",
                                         "giving up", "closing", "drained", "removing"}
               PROVE  FALSE
    BY DEF WritersTakeTurns
  <2>1. Serving(p) /\ Locked(p)
    BY DEF IInv, SessionsServed, Serving, Locked
  <2>2. Locked(q) /\ ~Waiting(q) /\ ~Waiting(p)
    BY <2>1 DEF Locked, Waiting, Serving
  <2>3. proc[p].lock # None /\ proc[q].lock # None
    BY <2>1, <2>2 DEF IInv, Election, Files, Locked
  <2>4. proc[p].lock # proc[q].lock
    BY <2>1, <2>2 DEF IInv, Election, LocksExclude
  <2>5. "lock" \in removed
    BY <2>3, <2>4 DEF IInv, Election, NamedLock
  <2>6. "socket" \notin removed
    BY <2>5 DEF IInv, Election, ServiceShape
  <2>7. CASE proc[p].lock # files.lock
    BY <2>1, <2>2, <2>3, <2>5, <2>6, <2>7 DEF IInv, Election, DisplacedOwner
  <2>8. CASE proc[q].lock # files.lock
    <3>1. proc[q].pc \notin {"opened writer", "elected", "stale", "clear"}
      BY <2>3, <2>5, <2>6, <2>8 DEF IInv, Election, DisplacedOwner
    <3>2. Serving(q)
      <4>1. proc[q] \in ServiceState
        BY DEF IInv, Election, ServiceShape
      <4> QED BY <3>1, <4>1 DEF ServiceState, Serving
    <3> QED BY <2>2, <2>3, <2>5, <2>6, <2>8, <3>2 DEF IInv, Election, DisplacedOwner
  <2> QED BY <2>4, <2>7, <2>8
<1> QED BY <1>1, Inductive, PTL

-----------------------------------------------------------------------------
(* What Transactions sees of a state. *)

Phase ==
  [c \in Client |->
     IF \A s \in Statement : applied[c][s] = 0 THEN "pending"
     ELSE IF \A s \in Statement :
               applied[c][s] = IF s \in Statements(c) THEN 1 ELSE 0
          THEN "committed" ELSE "torn"]
Told == [c \in Client |-> client[c].told]
Up == \E p \in Proc : /\ proc[p].pc = "serving" /\ Current(p)
                      /\ proc[p].socket = files.socket

\* Nothing executed is pending, everything is committed.
LEMMA Phases ==
  ASSUME NEW c \in Client
  PROVE  (Zero(c) => Phase[c] = "pending") /\ (Full(c) => Phase[c] = "committed")
<1>1. Full(c) => applied[c]["first"] # 0
  BY DEF Full, Statements, Statement
<1> QED BY <1>1 DEF Phase, Zero, Full, Statement

\* A step about one client is a step of Transactions for it.
LEMMA OnlyImplements ==
  ASSUME Clients, Clients', NEW c \in Client, Only(c)
  PROVE  Promise!Next
<1>1. (Zero(c) => Phase[c] = "pending") /\ (Full(c)' => Phase'[c] = "committed")
  <2>1. Full(c) => Phase[c] = "committed"
    BY Phases
  <2>2. (Full(c) => Phase[c] = "committed")'
    <3>1. Full(c)' => applied'[c]["first"] # 0
      BY DEF Full, Statements, Statement
    <3> QED BY <3>1 DEF Phase, Full, Statement
  <2> QED BY <2>2, Phases
<1>2. \A d \in Client : d # c => Phase'[d] = Phase[d] /\ Told'[d] = Told[d]
  BY DEF Only, Same, Phase, Told
<1>3. applied'[c] = applied[c] => Phase'[c] = Phase[c]
  BY DEF Phase
<1>4. Told[c] = client[c].told /\ Told'[c] = client'[c].told
  BY DEF Told
<1>5. Up' \in BOOLEAN
  BY DEF Up
<1>6. /\ Phase' = [Phase EXCEPT ![c] = Phase'[c]]
      /\ Told' = [Told EXCEPT ![c] = Told'[c]]
  <2>1. /\ Phase = [d \in Client |-> Phase[d]] /\ Phase' = [d \in Client |-> Phase'[d]]
        /\ Told = [d \in Client |-> Told[d]] /\ Told' = [d \in Client |-> Told'[d]]
    BY DEF Phase, Told
  <2> QED BY <1>2, <2>1
<1>7. CASE applied'[c] = applied[c] /\ client'[c].told = client[c].told
  <2>1. Phase' = Phase /\ Told' = Told
    <3>1. \A d \in Client : Phase'[d] = Phase[d] /\ Told'[d] = Told[d]
      BY <1>2, <1>3, <1>4, <1>7
    <3> QED BY <3>1 DEF Phase, Told
  <2> QED BY <1>5, <2>1 DEF Promise!Next, Promise!Serve, Phase, Told, Up
<1>8. CASE /\ Zero(c) /\ Full(c)'
           /\ \/ client[c].told = "nothing" /\ client'[c].told \in {"committed", "unknown"}
              \/ client[c].told = "unknown" /\ client'[c].told = "unknown"
  <2>1. /\ Phase[c] = "pending" /\ Told[c] # "failed"
        /\ Phase' = [Phase EXCEPT ![c] = "committed"]
        /\ \E t \in {"committed", "unknown"} :
             /\ Told[c] = "unknown" => t = "unknown"
             /\ Told' = [Told EXCEPT ![c] = t]
    BY <1>1, <1>4, <1>6, <1>8
  <2>2. Promise!Commit(c)
    BY <2>1 DEF Promise!Commit, Phase, Told
  <2> QED BY <1>5, <2>2 DEF Promise!Next, Up
<1>9. CASE applied'[c] = applied[c] /\ client[c].told = "nothing" /\ client'[c].told = "unknown"
  <2>1. /\ Phase' = Phase /\ Told[c] = "nothing" /\ Told' = [Told EXCEPT ![c] = "unknown"]
    <3>1. Phase' = Phase
      BY <1>2, <1>3, <1>9 DEF Phase
    <3> QED BY <1>4, <1>6, <1>9, <3>1
  <2>2. Promise!Lose(c)
    BY <2>1 DEF Promise!Lose, Phase, Told
  <2> QED BY <1>5, <2>2 DEF Promise!Next, Up
<1>10. CASE /\ applied'[c] = applied[c] /\ Zero(c)
            /\ client[c].told = "nothing" /\ client'[c].told = "failed"
  <2>1. /\ Phase' = Phase /\ Phase[c] = "pending"
        /\ Told[c] = "nothing" /\ Told' = [Told EXCEPT ![c] = "failed"]
    <3>1. Phase' = Phase
      BY <1>2, <1>3, <1>10 DEF Phase
    <3> QED BY <1>1, <1>4, <1>6, <1>10, <3>1
  <2>2. Promise!Fail(c)
    BY <2>1 DEF Promise!Fail, Phase, Told
  <2> QED BY <1>5, <2>2 DEF Promise!Next, Up
<1> QED BY <1>7, <1>8, <1>9, <1>10 DEF Only, Lawful

\* Clients keep what Transactions promises, in all but its liveness: whole
\* transactions, nothing repeated, and nothing after a failure was reported.
THEOREM KeepsPromise == Spec => Promise!Safety
<1>1. Init => Promise!Init
  <2> SUFFICES ASSUME Init PROVE Promise!Init
    OBVIOUS
  <2>1. Phase = [c \in Client |-> "pending"]
    BY DEF Init, Phase
  <2>2. Told = [c \in Client |-> "nothing"]
    BY DEF Init, Told
  <2>3. Up = FALSE
    BY DEF Init, Up, Idle
  <2> QED BY <2>1, <2>2, <2>3 DEF Promise!Init, Phase, Told, Up
<1>2. IInv /\ IInv' /\ [Next]_vars => [Promise!Next]_(Promise!vars)
  <2> SUFFICES ASSUME IInv, IInv', [Next]_vars PROVE Promise!Next
    OBVIOUS
  <2>1. Kept
    BY ClientsStep DEF IInv
  <2>2. ASSUME NEW c \in Client, Only(c) PROVE Promise!Next
    BY <2>2, OnlyImplements DEF IInv
  <2>3. CASE UNCHANGED <<client, applied>>
    <3>1. Phase' = Phase /\ Told' = Told /\ Up' \in BOOLEAN
      BY <2>3 DEF Phase, Told, Up
    <3> QED BY <3>1 DEF Promise!Next, Promise!Serve, Phase, Told, Up
  <2> QED BY <2>1, <2>2, <2>3 DEF Kept
<1> QED BY <1>1, <1>2, Inductive, PTL DEF Spec, Promise!Safety

=============================================================================
