--------------------------- MODULE DatabaseOwner ---------------------------
(***************************************************************************)
(* The one service that holds the writer of a database (src/database).     *)
(* Services elect an owner with a locked file and a socket in a directory  *)
(* of /tmp, where a cleaner may remove either; the owner notices that, lets*)
(* the sessions it has drain and is replaced.  Clients reach the owner     *)
(* through the socket; its writer is leased to one session at a time.      *)
(***************************************************************************)
EXTENDS Naturals, FiniteSets

CONSTANTS
  Proc,        \* services of one database
  Client,      \* clients, each with one transaction
  Single,      \* those that send one statement and no transaction instead
  LockFile,    \* inodes for lock files, free ones are used again
  SocketFile,  \* inodes for sockets, likewise
  MaxExits,    \* bound: crashes and stops of services, which start again
  None

ASSUME OwnerAssumption ==
  /\ Single \subseteq Client
  /\ None \notin Proc \cup LockFile \cup SocketFile
  /\ MaxExits \in Nat

VARIABLES
  files,    \* the inodes that the two names stand for
  proc,     \* each service's election or ownership
  session,  \* the owner's end of a client's session
  conn,     \* the service a client's stream leads to
  client,   \* where a client is in its transaction
  applied,  \* how often each statement of a client is in the database
  removed,  \* what was removed by others
  exits

services == <<files, proc>>
clients == <<session, conn, client, applied>>
vars == <<files, proc, session, conn, client, applied, removed, exits>>

----------------------------------------------------------------------------
Statement == {"first", "second"}
Statements(c) == IF c \in Single THEN {"first"} ELSE Statement

\* lock, socket: inodes this service has open; seen: the socket_identity.
Idle == [pc |-> "idle", lock |-> None, socket |-> None, seen |-> None]
Closed == [state |-> "none", writes |-> {}, late |-> FALSE]
Connected == [Closed EXCEPT !.state = "open"]

Init ==
  /\ files = [lock |-> None, socket |-> None]
  /\ proc = [p \in Proc |-> Idle]
  /\ session = [p \in Proc |-> [c \in Client |-> Closed]]
  /\ conn = [c \in Client |-> None]
  /\ client = [c \in Client |->
                 [next |-> IF c \in Single THEN "first" ELSE "begin",
                  transaction |-> FALSE, told |-> "nothing"]]
  /\ applied = [c \in Client |-> [s \in Statement |-> 0]]
  /\ removed = {}
  /\ exits = 0

Listening ==
  \E p \in Proc : proc[p].socket # None /\ proc[p].socket = files.socket
Current(p) ==
  proc[p].lock = files.lock /\ proc[p].seen = files.socket
Locked(p) == proc[p].pc \notin {"idle", "opened", "giving up"}

----------------------------------------------------------------------------
(* Election: Owner::start, again and again by Owner::host. *)

Move(p, pc) == proc' = [proc EXCEPT ![p].pc = pc]
Withdraw(p) == proc' = [proc EXCEPT ![p] = Idle]

Open(p) ==
  /\ proc[p].pc = "idle"
  /\ \E i \in LockFile :
       /\ IF files.lock # None THEN i = files.lock
          ELSE /\ \A q \in Proc : proc[q].lock # i
               /\ \A j \in LockFile : j < i => \E q \in Proc : proc[q].lock = j
       /\ files' = [files EXCEPT !.lock = i]
       /\ proc' = [proc EXCEPT ![p].pc = "opened", ![p].lock = i]
  /\ UNCHANGED <<clients, removed, exits>>

Flock(p) ==
  /\ proc[p].pc = "opened"
  /\ IF \E q \in Proc \ {p} : Locked(q) /\ proc[q].lock = proc[p].lock
     THEN Withdraw(p)
     ELSE Move(p, "locked")
  /\ UNCHANGED <<files, clients, removed, exits>>

\* eligible, before and after the writer is opened.
Eligible(p) == proc[p].lock = files.lock /\ ~Listening
Check(p) ==
  /\ proc[p].pc \in {"locked", "opened writer"}
  /\ IF ~Eligible(p) THEN Withdraw(p)
     ELSE Move(p, IF proc[p].pc = "locked" THEN "opened writer" ELSE "elected")
  /\ UNCHANGED <<files, clients, removed, exits>>

\* The file that an earlier owner left behind is looked up, then removed.
Examine(p) ==
  /\ proc[p].pc = "elected"
  /\ Move(p, IF files.socket = None THEN "clear" ELSE "stale")
  /\ UNCHANGED <<files, clients, removed, exits>>

Unlink(p) ==
  /\ proc[p].pc = "stale"
  /\ IF files.socket = None THEN Withdraw(p) ELSE Move(p, "clear")
  /\ files' = [files EXCEPT !.socket = None]
  /\ UNCHANGED <<clients, removed, exits>>

Bind(p) ==
  /\ proc[p].pc = "clear"
  /\ IF files.socket # None
     THEN Withdraw(p) /\ UNCHANGED files
     ELSE \E i \in SocketFile :
            /\ \A q \in Proc : proc[q].socket # i
            /\ files' = [files EXCEPT !.socket = i]
            /\ proc' = [proc EXCEPT ![p].pc = "bound", ![p].socket = i]
  /\ UNCHANGED <<clients, removed, exits>>

\* The identity is read from the name, not from the listener.  Without it, the
\* lock and the listener are dropped, and the writer after them.
Identify(p) ==
  /\ proc[p].pc = "bound"
  /\ IF files.socket = None THEN proc' = [proc EXCEPT ![p] = [Idle EXCEPT !.pc = "giving up"]]
     ELSE proc' = [proc EXCEPT ![p].pc = "serving", ![p].seen = files.socket]
  /\ UNCHANGED <<files, clients, removed, exits>>

----------------------------------------------------------------------------
(* The owner: serve, until its files change or it is stopped. *)

Displaced(p) ==
  /\ proc[p].pc = "serving" /\ ~Current(p)
  /\ Move(p, "draining")
  /\ UNCHANGED <<files, clients, removed, exits>>

Stop(p) ==
  /\ proc[p].pc = "serving" /\ exits < MaxExits
  /\ Move(p, "draining")
  /\ exits' = exits + 1
  /\ UNCHANGED <<files, clients, removed>>

\* All sessions are joined before the listener is dropped.
\* Deviation: the listener is dropped while sessions still drain.
DropListener_Early(p) ==
  /\ proc[p].pc = "draining"
  /\ proc' = [proc EXCEPT ![p].pc = "closing", ![p].socket = None]
  /\ UNCHANGED <<files, clients, removed, exits>>
DropListener(p) ==
  /\ proc[p].pc = "draining"
  /\ \A c \in Client : session[p][c].state = "none"
  /\ proc' = [proc EXCEPT ![p].pc = "closing", ![p].socket = None]
  /\ UNCHANGED <<files, clients, removed, exits>>

\* From now on another service can be elected, while this one closes its writer.
DropWriter(p) ==
  /\ \/ proc[p].pc = "closing" /\ Move(p, "drained")
     \/ proc[p].pc = "giving up" /\ Withdraw(p)
  /\ UNCHANGED <<files, clients, removed, exits>>

\* Ownership::drop compares the name with the identity and then removes it.
Compare(p) ==
  /\ proc[p].pc = "drained"
  /\ IF proc[p].seen = files.socket THEN Move(p, "removing") ELSE Withdraw(p)
  /\ UNCHANGED <<files, clients, removed, exits>>

Remove(p) ==
  /\ proc[p].pc = "removing"
  /\ files' = [files EXCEPT !.socket = None]
  /\ Withdraw(p)
  /\ UNCHANGED <<clients, removed, exits>>

\* The kernel closes what a killed service had open, but leaves its files;
\* SQLite rolls its transactions back.
Crash(p) ==
  /\ proc[p].pc # "idle" /\ exits < MaxExits
  /\ exits' = exits + 1
  /\ Withdraw(p)
  /\ session' = [session EXCEPT ![p] = [c \in Client |-> Closed]]
  /\ UNCHANGED <<files, conn, client, applied, removed>>

\* Something else removes the names of a living owner's files, each at most
\* once.
RemoveLock ==
  /\ files.lock # None /\ "lock" \notin removed
  /\ Listening
  /\ files' = [files EXCEPT !.lock = None]
  /\ removed' = removed \cup {"lock"}
  /\ UNCHANGED <<proc, clients, exits>>
RemoveSocket ==
  /\ files.socket # None /\ "socket" \notin removed
  /\ files' = [files EXCEPT !.socket = None]
  /\ removed' = removed \cup {"socket"}
  /\ UNCHANGED <<proc, clients, exits>>

----------------------------------------------------------------------------
(* Sessions. *)

\* The lease of the service and the write lock of the database file.
Writing == {w \in Proc \X Client : session[w[1]][w[2]].state = "writing"}

Count(c, writes) ==
  [applied EXCEPT ![c] = [s \in Statement |-> @[s] + IF s \in writes THEN 1 ELSE 0]]

\* What a command does at the owner, and whether it succeeds: execute with the
\* writer that a session leases for a statement or until a transaction ends.
Executed(p, c, command, done) ==
  LET s == session[p][c]
      becomes(t, writes) ==
        /\ session' = [session EXCEPT ![p][c] = t]
        /\ applied' = Count(c, writes)
  IN \/ /\ command = "begin" /\ Writing = {} /\ done
        /\ becomes([s EXCEPT !.state = "writing"], {})
     \/ /\ command = "commit" /\ done = (s.state = "writing")
        /\ becomes(Connected, s.writes)
     \/ /\ command = "rollback" /\ done = (s.state = "writing")
        /\ becomes(Connected, {})
     \/ /\ command \in Statement /\ s.state = "writing" /\ done
        /\ becomes([s EXCEPT !.writes = @ \cup {command}], {})
     \/ /\ command \in Statement /\ s.state # "writing" /\ Writing = {} /\ done
        /\ becomes(s, {command})
     \/ /\ command \in Statement \cup {"begin"} /\ s.state # "writing"
        /\ Writing # {} /\ ~done
        /\ UNCHANGED <<session, applied>>

Ends(p, c) ==
  /\ session' = [session EXCEPT ![p][c] = Closed]
  /\ UNCHANGED <<services, conn, client, applied, removed, exits>>

\* A session ends with its stream, and when the service drains unless it is
\* in a transaction, which is rolled back after 30 seconds without a request.
EndSession(p, c) ==
  /\ session[p][c].state # "none" /\ ~session[p][c].late
  /\ \/ conn[c] # p
     \/ proc[p].pc = "draining" /\ session[p][c].state = "open"
  /\ Ends(p, c)
Expire(p, c) ==
  /\ session[p][c].state = "writing" /\ ~session[p][c].late
  /\ Ends(p, c)

\* A COMMIT whose client has given up waiting is executed all the same.
LateCommit(p, c) ==
  /\ session[p][c].late
  /\ session' = [session EXCEPT ![p][c] = Connected]
  /\ applied' = Count(c, session[p][c].writes)
  /\ UNCHANGED <<services, conn, client, removed, exits>>

----------------------------------------------------------------------------
(* Clients: a Transaction, or a statement, over Remote::call. *)

Following(c) ==
  CASE client[c].next = "begin" -> "first"
    [] client[c].next = "first" /\ c \notin Single -> "second"
    [] client[c].next = "second" -> "commit"
    [] OTHER -> "done"

\* The command that completes the client's work.
Decides(c) == Following(c) = "done"

\* After an error the Transaction is dropped, and rolled back if it has begun.
Given(c, transaction, told) ==
  [next |-> IF transaction /\ client[c].next # "rollback" THEN "rollback" ELSE "done",
   transaction |-> transaction /\ client[c].next # "rollback",
   told |-> IF client[c].told = "nothing" THEN told ELSE client[c].told]

\* Before a call, a client without a transaction connects, also when it finds
\* its stream closed.
\* Deviation: a client in a transaction also connects again.
Connect_InTransaction(c, p) ==
  /\ client[c].next # "done"
  /\ conn[c] # None => session[conn[c]][c].state = "none"
  /\ proc[p].pc = "serving" /\ proc[p].socket = files.socket
  /\ session[p][c].state = "none"
  /\ conn' = [conn EXCEPT ![c] = p]
  /\ session' = [session EXCEPT ![p][c] = Connected]
  /\ UNCHANGED <<services, client, applied, removed, exits>>
Connect(c, p) ==
  /\ client[c].next # "done" /\ ~client[c].transaction
  /\ conn[c] # None => session[conn[c]][c].state = "none"
  /\ proc[p].pc = "serving" /\ proc[p].socket = files.socket
  /\ session[p][c].state = "none"
  /\ conn' = [conn EXCEPT ![c] = p]
  /\ session' = [session EXCEPT ![p][c] = Connected]
  /\ UNCHANGED <<services, client, applied, removed, exits>>

Unreachable(c) ==
  /\ client[c].next # "done" /\ ~client[c].transaction /\ conn[c] = None
  /\ client' = [client EXCEPT ![c] = Given(c, FALSE, "failed")]
  /\ UNCHANGED <<services, session, conn, applied, removed, exits>>

\* The owner executes a command and its reply arrives.
Call(c) ==
  LET p == conn[c]
      now == client[c].next
  IN /\ now # "done" /\ p # None
     /\ session[p][c].state # "none"
     /\ \E done \in BOOLEAN :
          /\ Executed(p, c, now, done)
          /\ client' = [client EXCEPT ![c] =
               IF ~done \/ now = "rollback"
               THEN Given(c, session'[p][c].state = "writing", "failed")
               ELSE [next |-> Following(c),
                     transaction |-> session'[p][c].state = "writing",
                     told |-> IF Decides(c) THEN "committed" ELSE "nothing"]]
     /\ UNCHANGED <<services, conn, removed, exits>>

\* The stream fails during a call, before the owner executes the command, after
\* that, or so that a COMMIT is executed still later.  In a transaction, the
\* client goes on without a stream, until it has rolled back.
\* Deviation: a failed call is repeated.
Break_Repeats(c) ==
  LET p == conn[c]
      now == client[c].next
  IN /\ now # "done" /\ p # None
     /\ conn' = [conn EXCEPT ![c] = None]
     /\ \/ UNCHANGED <<session, applied>>
        \/ /\ session[p][c].state # "none"
           /\ \E done \in BOOLEAN : Executed(p, c, now, done)
     /\ UNCHANGED <<services, client, removed, exits>>
Break(c) ==
  LET p == conn[c]
      now == client[c].next
  IN /\ now # "done" /\ p # None
     /\ conn' = [conn EXCEPT ![c] = None]
     /\ \/ UNCHANGED <<session, applied>>
        \/ /\ session[p][c].state # "none"
           /\ \E done \in BOOLEAN : Executed(p, c, now, done)
        \/ /\ now = "commit" /\ session[p][c].state = "writing"
           /\ session' = [session EXCEPT ![p][c].late = TRUE]
           /\ UNCHANGED applied
     /\ client' = [client EXCEPT ![c] =
                     Given(c, @.transaction, IF Decides(c) THEN "unknown" ELSE "failed")]
     /\ UNCHANGED <<services, removed, exits>>

\* The application gives its transaction up before the COMMIT.
Abandon(c) ==
  /\ client[c].transaction /\ client[c].next # "rollback"
  /\ client' = [client EXCEPT ![c] = Given(c, TRUE, "failed")]
  /\ UNCHANGED <<services, session, conn, applied, removed, exits>>

\* Without a stream, a call within a transaction fails at once.
Refuse(c) ==
  /\ client[c].transaction /\ conn[c] = None
  /\ client' = [client EXCEPT ![c] = Given(c, TRUE, "failed")]
  /\ UNCHANGED <<services, session, conn, applied, removed, exits>>

----------------------------------------------------------------------------
Service(p) ==
  \/ Open(p) \/ Flock(p) \/ Check(p) \/ Examine(p) \/ Unlink(p) \/ Bind(p)
  \/ Identify(p) \/ Displaced(p) \/ DropListener(p) \/ DropWriter(p)
  \/ Compare(p) \/ Remove(p)
Sessions ==
  \E p \in Proc, c \in Client : EndSession(p, c) \/ Expire(p, c) \/ LateCommit(p, c)

Next ==
  \/ \E p \in Proc : Service(p) \/ Stop(p) \/ Crash(p)
  \/ RemoveLock \/ RemoveSocket
  \/ Sessions
  \/ \E c \in Client, p \in Proc : Connect(c, p)
  \/ \E c \in Client : Unreachable(c) \/ Call(c) \/ Break(c) \/ Abandon(c) \/ Refuse(c)

Spec == Init /\ [][Next]_vars

\* Threads of services go on, and sessions end or expire whatever the clients
\* do.
FairSpec ==
  /\ Spec
  /\ \A p \in Proc : WF_vars(Service(p))
  /\ WF_vars(Sessions)

----------------------------------------------------------------------------
(* Properties. *)

\* Every variable has its type; no statement is executed twice.
TypeOK ==
  /\ files \in [lock: LockFile \cup {None}, socket: SocketFile \cup {None}]
  /\ proc \in [Proc ->
       [pc: {"idle", "opened", "locked", "opened writer", "elected", "stale", "clear",
             "bound", "giving up", "serving", "draining", "closing", "drained", "removing"},
        lock: LockFile \cup {None}, socket: SocketFile \cup {None},
        seen: SocketFile \cup {None}]]
  /\ session \in [Proc -> [Client ->
       [state: {"none", "open", "writing"}, writes: SUBSET Statement, late: BOOLEAN]]]
  /\ conn \in [Client -> Proc \cup {None}]
  /\ client \in [Client ->
       [next: Statement \cup {"begin", "commit", "rollback", "done"},
        transaction: BOOLEAN,
        told: {"nothing", "committed", "unknown", "failed"}]]
  /\ applied \in [Client -> [Statement -> 0 .. 1]]
  /\ removed \subseteq {"lock", "socket"}
  /\ exits \in 0 .. MaxExits

\* While a session is in a transaction, the only other services that have a
\* writer open are those that have stopped listening for good and are closing
\* it: losing the name of its socket or of its lock file, though not both, lets
\* no second owner open the writer before the old sessions have ended (serve:
\* the listener is present throughout draining).
WritersTakeTurns ==
  removed # {"lock", "socket"} =>
    \A p, q \in Proc :
      /\ p # q
      /\ \E c \in Client : session[p][c].state = "writing"
      => proc[q].pc \in {"idle", "opened", "locked",
                         "giving up", "closing", "drained", "removing"}

\* Through elections, drains and crashes, clients keep what Transactions
\* promises: whole transactions, nothing repeated, nothing after a failure was
\* reported, and again and again an owner.
Promise == INSTANCE Transactions WITH
  state <- [c \in Client |->
              IF \A s \in Statement : applied[c][s] = 0 THEN "pending"
              ELSE IF \A s \in Statement :
                        applied[c][s] = IF s \in Statements(c) THEN 1 ELSE 0
                   THEN "committed" ELSE "torn"],
  told <- [c \in Client |-> client[c].told],
  available <- \E p \in Proc :
                 /\ proc[p].pc = "serving" /\ Current(p)
                 /\ proc[p].socket = files.socket
ImplementsTransactions == Promise!Spec
=============================================================================
