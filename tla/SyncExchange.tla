--------------------------- MODULE SyncExchange ---------------------------
(***************************************************************************)
(* The replication engine of packages/hey-boss-sync: every replica keeps a *)
(* delivery log of immutable, content-addressed facts, one receipt and one *)
(* acknowledged position per peer, and exchanges bounded pages of its log  *)
(* with a peer over one byte stream.                                       *)
(*                                                                         *)
(* A session is strictly request and response, so at any instant exactly   *)
(* one of its two ends can move: phase[s] names the next step of the       *)
(* session, and each step is one database transaction of the end that      *)
(* takes it.  Several sessions run at once, also between the same two      *)
(* replicas (each end dials the other, and the server half of a dead       *)
(* connection may still be working), and a session can fail anywhere.      *)
(***************************************************************************)
EXTENDS Integers, Sequences, Functions

CONSTANTS
  Replica,      \* replica identities (the cr-sqlite site id)
  Fact,         \* content hashes of payloads
  Session,      \* connections; session s is dialled by Client[s] to Server[s]
  Client,
  Server,
  Prunable,     \* facts whose every owner the application can retire
  PageSize,     \* records in a page: 128 in the code
  MaxDrops      \* bound: connections lost to the environment

ASSUME EndsAssumption ==
  /\ Client \in [Session -> Replica]
  /\ Server \in [Session -> Replica]
  /\ \A s \in Session : Client[s] # Server[s]   \* validate, session.rs:80

ASSUME PrunableAssumption == Prunable \subseteq Fact

ASSUME PageAssumption == PageSize \in Nat \ {0}

ASSUME DropsAssumption == MaxDrops \in Nat

VARIABLES
  log,          \* delivery: the facts of a replica in first-seen order
  live,         \* records whose payload is not a tombstone
  receipt,      \* receipts: how much of a peer's log this replica ingested
  sent,         \* sent: how much of the own log a peer acknowledged
  phase,        \* the next step of a session
  cursor,       \* the position on the wire of a session; 0 once it was used
  out,          \* the page travelling from client to server
  back,         \* the page travelling from server to client
  drops

journals == <<log, live, receipt, sent>>
sessions == <<phase, cursor, out, back>>
vars == <<journals, sessions, drops>>

Phase == {"idle", "hello", "welcome", "batched", "turn", "captured",
          "stored", "reply", "ingested", "acknowledged", "ack"}

\* A page: the log positions after+1 .. after+Len(records) of the sender, and
\* which of these facts the sender had pruned when it read them.
Page == [after : Nat, records : Seq(Fact), dead : SUBSET Fact]

NoPage == [after |-> 0, records |-> <<>>, dead |-> {}]

Through(page) == page.after + Len(page.records)

TypeOK ==
  /\ log \in [Replica -> Seq(Fact)]
  /\ live \in [Replica -> SUBSET Fact]
  /\ receipt \in [Replica -> [Replica -> Nat]]
  /\ sent \in [Replica -> [Replica -> Nat]]
  /\ phase \in [Session -> Phase]
  /\ cursor \in [Session -> Nat]
  /\ out \in [Session -> Page]
  /\ back \in [Session -> Page]
  /\ drops \in 0 .. MaxDrops

Init ==
  /\ log = [r \in Replica |-> <<>>]
  /\ live = [r \in Replica |-> {}]
  /\ receipt = [r \in Replica |-> [p \in Replica |-> 0]]
  /\ sent = [r \in Replica |-> [p \in Replica |-> 0]]
  /\ phase = [s \in Session |-> "idle"]
  /\ cursor = [s \in Session |-> 0]
  /\ out = [s \in Session |-> NoPage]
  /\ back = [s \in Session |-> NoPage]
  /\ drops = 0

---------------------------------------------------------------------------
(* One replica. *)

\* Engine::put.  INSERT OR IGNORE: a fact already recorded, also one that was
\* pruned, changes nothing.
Put(r, f) ==
  /\ f \notin Range(log[r])
  /\ log' = [log EXCEPT ![r] = Append(@, f)]
  /\ live' = [live EXCEPT ![r] = @ \cup {f}]
  /\ UNCHANGED <<receipt, sent, sessions, drops>>

\* Engine::prune.  The identity and the delivery position stay.
Prune(r, ids) ==
  /\ ids \cap live[r] # {}
  /\ live' = [live EXCEPT ![r] = @ \ ids]
  /\ UNCHANGED <<log, receipt, sent, sessions, drops>>

\* Deviation: the byte limit may end a page before its first record.
PageLengths_MayBeEmpty(pending) == {n \in 0 .. PageSize : n <= pending}

\* Engine::batch.  A page is never empty while a record is pending; past the
\* first record, the byte limit may end it anywhere.
PageLengths(pending) ==
  IF pending = 0 THEN {0} ELSE {n \in 1 .. PageSize : n <= pending}

Batches(r, after) ==
  { [after   |-> after,
     records |-> SubSeq(log[r], after + 1, after + n),
     dead    |-> Range(SubSeq(log[r], after + 1, after + n)) \ live[r]] :
    n \in PageLengths(Len(log[r]) - after) }

CanBatch(r, after) == after <= Len(log[r])

\* Deviations: tombstones are skipped on arrival; OR IGNORE is missing; the
\* merge of a foreign record does not fire the trigger.
FirstSeen_SkipsTombstones(r, page) ==
  LET unseen == Range(page.records) \ (Range(log[r]) \cup page.dead)
  IN  { s \in UNION {[1 .. n -> unseen] : n \in 0 .. Len(page.records)} :
        Range(s) = unseen /\ IsInjective(s) }

FirstSeen_Repeats(r, page) == {page.records}

FirstSeen_NoTrigger(r, page) == {<<>>}

\* The records of a page a replica has not seen, in page order: the trigger
\* record_delivery appends each to the delivery log.  A page names a fact
\* once, so this set has one element.
FirstSeen(r, page) ==
  LET unseen == Range(page.records) \ Range(log[r])
  IN  { s \in UNION {[1 .. n -> unseen] : n \in 0 .. Len(page.records)} :
        /\ Range(s) = unseen
        /\ \A i, j \in DOMAIN s :
             i < j => \E a, b \in DOMAIN page.records :
                        /\ a < b
                        /\ page.records[a] = s[i]
                        /\ page.records[b] = s[j] }

\* Deviation: an arriving payload overwrites a local tombstone.
LiveAfter_Revives(r, page) == (live[r] \cup Range(page.records)) \ page.dead

\* The payloads a replica keeps after ingesting a page: a local tombstone is
\* permanent, and an arriving tombstone empties the local payload.
LiveAfter(r, page) ==
  (live[r] \cup (Range(page.records) \ Range(log[r]))) \ page.dead

CanIngest(r, p, page) == page.after <= receipt[r][p]

\* Deviation: the receipt is overwritten instead of raised.
Ingest_LowersReceipt(r, p, page) ==
  /\ \E fresh \in FirstSeen(r, page) :
       log' = [log EXCEPT ![r] = @ \o fresh]
  /\ live' = [live EXCEPT ![r] = LiveAfter(r, page)]
  /\ receipt' = [receipt EXCEPT ![r][p] = Through(page)]

\* Engine::ingest at replica r of a page of p.
Ingest(r, p, page) ==
  /\ \E fresh \in FirstSeen(r, page) :
       log' = [log EXCEPT ![r] = @ \o fresh]
  /\ live' = [live EXCEPT ![r] = LiveAfter(r, page)]
  /\ receipt' = [receipt EXCEPT ![r][p] =
                   IF Through(page) > @ THEN Through(page) ELSE @]

\* Deviation: the head itself is refused.
CanAcknowledge_BelowHead(r, position) == position < Len(log[r])

\* Engine::acknowledge at replica r: peer p holds this much of the log of r.
CanAcknowledge(r, position) == position <= Len(log[r])

Acknowledge(r, p, position) ==
  sent' = [sent EXCEPT ![r][p] = IF position > @ THEN position ELSE @]

---------------------------------------------------------------------------
(* One exchange: connect_present at the client, serve_next at the server.  *)

Goto(s, next) == phase' = [phase EXCEPT ![s] = next]

\* A check failed or the stream ended: both ends give the connection up.
Abandon(s) ==
  /\ Goto(s, "idle")
  /\ cursor' = [cursor EXCEPT ![s] = 0]
  /\ out' = [out EXCEPT ![s] = NoPage]
  /\ back' = [back EXCEPT ![s] = NoPage]

\* The client greets; the greeting carries no position.
ClientHello(s) ==
  /\ phase[s] = "idle"
  /\ Goto(s, "hello")
  /\ UNCHANGED <<journals, cursor, out, back, drops>>

\* Deviation: the server reports the last received position as the next one
\* it lacks.
ServerWelcome_OffByOne(s) ==
  /\ phase[s] = "hello"
  /\ cursor' = [cursor EXCEPT ![s] = receipt[Server[s]][Client[s]] - 1]
  /\ Goto(s, "welcome")
  /\ UNCHANGED <<journals, out, back, drops>>

\* The server answers with its receipt for the client.
ServerWelcome(s) ==
  /\ phase[s] = "hello"
  /\ cursor' = [cursor EXCEPT ![s] = receipt[Server[s]][Client[s]]]
  /\ Goto(s, "welcome")
  /\ UNCHANGED <<journals, out, back, drops>>

\* The client reads the page after the position the server reported.
ClientBatch(s) ==
  /\ phase[s] = "welcome"
  /\ \/ /\ CanBatch(Client[s], cursor[s])
        /\ \E page \in Batches(Client[s], cursor[s]) :
             out' = [out EXCEPT ![s] = page]
        /\ cursor' = [cursor EXCEPT ![s] = 0]
        /\ Goto(s, "batched")
        /\ UNCHANGED back
     \/ /\ ~CanBatch(Client[s], cursor[s])
        /\ Abandon(s)
  /\ UNCHANGED <<journals, drops>>

\* The client reads its own receipt only now, and sends both.
ClientTurn(s) ==
  /\ phase[s] = "batched"
  /\ cursor' = [cursor EXCEPT ![s] = receipt[Client[s]][Server[s]]]
  /\ Goto(s, "turn")
  /\ UNCHANGED <<journals, out, back, drops>>

\* The server captures its page before it commits anything of the client's.
ServerBatch(s) ==
  /\ phase[s] = "turn"
  /\ \/ /\ CanBatch(Server[s], cursor[s])
        /\ \E page \in Batches(Server[s], cursor[s]) :
             back' = [back EXCEPT ![s] = page]
        /\ cursor' = [cursor EXCEPT ![s] = 0]
        /\ Goto(s, "captured")
        /\ UNCHANGED out
     \/ /\ ~CanBatch(Server[s], cursor[s])
        /\ Abandon(s)
  /\ UNCHANGED <<journals, drops>>

ServerIngest(s) ==
  /\ phase[s] = "captured"
  /\ \/ /\ CanIngest(Server[s], Client[s], out[s])
        /\ Ingest(Server[s], Client[s], out[s])
        /\ Goto(s, "stored")
        /\ UNCHANGED <<cursor, out, back>>
     \/ /\ ~CanIngest(Server[s], Client[s], out[s])
        /\ Abandon(s)
        /\ UNCHANGED <<log, live, receipt>>
  /\ UNCHANGED <<sent, drops>>

\* Deviation: a page counts as acknowledged once it was written to the stream.
ServerReply_Optimistic(s) ==
  /\ phase[s] = "stored"
  /\ cursor' = [cursor EXCEPT ![s] = receipt[Server[s]][Client[s]]]
  /\ Acknowledge(Server[s], Client[s], Through(back[s]))
  /\ Goto(s, "reply")
  /\ UNCHANGED <<log, live, receipt, out, back, drops>>

\* The server reports the receipt it now has, which another session may have
\* moved beyond the page of this one.
ServerReply(s) ==
  /\ phase[s] = "stored"
  /\ cursor' = [cursor EXCEPT ![s] = receipt[Server[s]][Client[s]]]
  /\ Goto(s, "reply")
  /\ UNCHANGED <<journals, out, back, drops>>

\* The client refuses a reply that acknowledges another page than its own.
ClientIngest(s) ==
  /\ phase[s] = "reply"
  /\ \/ /\ cursor[s] = Through(out[s])
        /\ CanIngest(Client[s], Server[s], back[s])
        /\ Ingest(Client[s], Server[s], back[s])
        /\ Goto(s, "ingested")
        /\ out' = [out EXCEPT ![s] = NoPage]
        /\ UNCHANGED <<cursor, back>>
     \/ /\ \/ cursor[s] # Through(out[s])
           \/ ~CanIngest(Client[s], Server[s], back[s])
        /\ Abandon(s)
        /\ UNCHANGED <<log, live, receipt>>
  /\ UNCHANGED <<sent, drops>>

ClientAcknowledge(s) ==
  /\ phase[s] = "ingested"
  /\ \/ /\ CanAcknowledge(Client[s], cursor[s])
        /\ Acknowledge(Client[s], Server[s], cursor[s])
        /\ Goto(s, "acknowledged")
        /\ cursor' = [cursor EXCEPT ![s] = 0]
        /\ UNCHANGED <<out, back>>
     \/ /\ ~CanAcknowledge(Client[s], cursor[s])
        /\ Abandon(s)
        /\ UNCHANGED sent
  /\ UNCHANGED <<log, live, receipt, drops>>

\* The client reports its receipt for the server and is done.
ClientAck(s) ==
  /\ phase[s] = "acknowledged"
  /\ cursor' = [cursor EXCEPT ![s] = receipt[Client[s]][Server[s]]]
  /\ Goto(s, "ack")
  /\ UNCHANGED <<journals, out, back, drops>>

\* The server trusts the acknowledgment only if it is for the page it sent.
ServerAcknowledge(s) ==
  /\ phase[s] = "ack"
  /\ \/ /\ cursor[s] = Through(back[s])
        /\ CanAcknowledge(Server[s], cursor[s])
        /\ Acknowledge(Server[s], Client[s], cursor[s])
     \/ /\ \/ cursor[s] # Through(back[s])
           \/ ~CanAcknowledge(Server[s], cursor[s])
        /\ UNCHANGED sent
  /\ Abandon(s)
  /\ UNCHANGED <<log, live, receipt, drops>>

\* The stream breaks, either process is killed, or a watchdog ends it.
Drop(s) ==
  /\ phase[s] # "idle"
  /\ drops < MaxDrops
  /\ drops' = drops + 1
  /\ Abandon(s)
  /\ UNCHANGED journals

Step(s) ==
  \/ ClientHello(s) \/ ServerWelcome(s) \/ ClientBatch(s) \/ ClientTurn(s)
  \/ ServerBatch(s) \/ ServerIngest(s) \/ ServerReply(s) \/ ClientIngest(s)
  \/ ClientAcknowledge(s) \/ ClientAck(s) \/ ServerAcknowledge(s)

Next ==
  \/ \E r \in Replica, f \in Fact : Put(r, f)
  \/ \E r \in Replica, f \in Prunable : Prune(r, {f})
  \/ \E s \in Session : Step(s)
  \/ \E s \in Session : Drop(s)

Spec == Init /\ [][Next]_vars

\* Both loops of transport.rs run until they are cancelled and reconnect after
\* an error, so a session that can move eventually does.
FairSpec == Spec /\ \A s \in Session : WF_vars(Step(s))
---------------------------------------------------------------------------
(* Properties. *)

\* A receipt is a promise about a whole prefix: every fact a peer logged up to
\* the position a replica reports as received is recorded at that replica.
\* (Receipts, positions and relays: lib.rs:4-7.)
ReceiptCovers ==
  \A r, p \in Replica :
    /\ receipt[r][p] <= Len(log[p])
    /\ \A i \in 1 .. receipt[r][p] : log[p][i] \in Range(log[r])

\* A position a replica counts as acknowledged was durably received: the
\* health report derives "nothing left to send" from it.  A lost, late or
\* mismatched acknowledgment may only leave it too small.
AcknowledgedIsReceived ==
  \A r, p \in Replica : sent[r][p] <= receipt[p][r]

\* A fact has one delivery position at a replica, however many peers offer it
\* and however often (record_delivery, UNIQUE and OR IGNORE).
DeliveredOnce == \A r \in Replica : IsInjective(log[r])

\* Without a restored journal no end ever refuses the other's cursor or page:
\* the two errors of batch and ingest stay reserved for lost history.
NoSpuriousRefusal ==
  \A s \in Session :
    /\ phase[s] = "welcome"  => CanBatch(Client[s], cursor[s])
    /\ phase[s] = "turn"     => CanBatch(Server[s], cursor[s])
    /\ phase[s] = "captured" => CanIngest(Server[s], Client[s], out[s])
    /\ phase[s] = "reply"    => CanIngest(Client[s], Server[s], back[s])
    /\ phase[s] = "ingested" => CanAcknowledge(Client[s], cursor[s])

\* A pruned fact is never revived by a peer that still has its payload.
TombstoneIsPermanent ==
  [][\A r \in Replica :
       \A f \in Range(log[r]) \ live[r] : f \notin live'[r]]_vars

\* An empty incoming page proves that, when the server captured it, the client
\* held every fact of the server (Exchange.incoming_drained, session.rs:24).
EmptyPageProvesDrained ==
  [][\A s \in Session :
       phase[s] = "turn" /\ phase'[s] = "captured" /\ back'[s].records = <<>>
         => Range(log[Server[s]]) \subseteq Range(log[Client[s]])]_vars

\* Every fact written anywhere reaches every replica, through relays, once
\* connections stop failing.
Converges == <>[](\A r, p \in Replica : Range(log[r]) = Range(log[p]))

\* Both ends of a session eventually know that nothing is left to send.
EventuallyAcknowledged ==
  \A s \in Session :
    <>[](/\ sent[Client[s]][Server[s]] = Len(log[Client[s]])
         /\ sent[Server[s]][Client[s]] = Len(log[Server[s]]))

\* The engine implements the abstract replication of fact sets.
Facts == INSTANCE FactReplication WITH
  held  <- [r \in Replica |-> Range(log[r])],
  known <- [r \in Replica |-> [p \in Replica |->
             {log[r][i] : i \in 1 .. sent[r][p]}]]

ImplementsFactReplication == Facts!Spec
===========================================================================
